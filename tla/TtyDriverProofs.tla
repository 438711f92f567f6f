--------------------------- MODULE TtyDriverProofs ---------------------------
(***************************************************************************)
(* Theorems about TtyDriver, for every size of the queues, every depth of  *)
(* the UART, both water marks and any bytes: the types hold; if no         *)
(* interrupt separates CALL_READ's decision from what it does, and an XON  *)
(* finds the UART ready, transmission never stalls and the transmit queue  *)
(* is the FIFO that CircularQueue implements too.  If the water marks are  *)
(* far enough from each other and from the end of the receive queue, the   *)
(* peer also knows the state of the receiver, and none of its bytes is     *)
(* lost.                                                                   *)
(***************************************************************************)
EXTENDS TtyDriver, SequenceTheorems, TLAPS

Flags == {SEND_XON, SEND_XOFF, TX_WAIT, TX_ACTIVE}
Due(state) == {SEND_XON, SEND_XOFF} \cap state # {}

-----------------------------------------------------------------------------
(*                          Sequences and flags                            *)

LEMMA HeadAndTail ==
    ASSUME NEW S, NEW q \in Seq(S), q # <<>>
    PROVE  /\ Head(q) \in S
           /\ Tail(q) \in Seq(S)
           /\ Len(Tail(q)) = Len(q) - 1
           /\ Len(q) \in Nat \ {0}
    OBVIOUS

(* Copies of one byte are a sequence of that length.                       *)
LEMMA Copies ==
    ASSUME NEW S, NEW v \in S, NEW n \in Nat
    PROVE  /\ [i \in 1..n |-> v] \in Seq(S)
           /\ Len([i \in 1..n |-> v]) = n
    OBVIOUS

(* What fnTxByte leaves in the UART.                                       *)
LEMMA ByteLoaded ==
    ASSUME TypeOK, NEW byte \in Values \cup {XON, XOFF}, fnTxByte(byte)
    PROVE  /\ sending' \in Seq(Values \cup {XON, XOFF})
           /\ Len(sending') \in Nat
           /\ Len(sending') <= UART_DEPTH
           /\ txInt' \in BOOLEAN
           /\ Ready => txInt'
           /\ ~Ready => sending' = sending /\ txInt' = txInt
<1>1. CASE Ready
    <2>1. sending' = Append(sending, byte) /\ txInt' = TRUE
        BY <1>1 DEF fnTxByte
    <2>2. /\ sending \in Seq(Values \cup {XON, XOFF})
          /\ Len(sending) < UART_DEPTH
          /\ UART_DEPTH \in Nat
        BY <1>1, TtyAssumption DEF TypeOK, Ready
    <2>3. /\ Append(sending, byte) \in Seq(Values \cup {XON, XOFF})
          /\ Len(Append(sending, byte)) = Len(sending) + 1
          /\ Len(sending) \in Nat
        BY <2>2
    <2> QED
        BY <1>1, <2>1, <2>2, <2>3
<1>2. CASE ~Ready
    BY <1>2 DEF TypeOK, fnTxByte, uart
<1> QED
    BY <1>1, <1>2

(* The types of all that send_next_byte changes.                           *)
LEMMA SentTyped ==
    ASSUME TypeOK, NEW state \in SUBSET Flags, send_next_byte(state)
    PROVE  /\ ucState' \in SUBSET Flags
           /\ queue' \in Seq(Values) /\ Len(queue') <= Len(queue)
           /\ wake_task' \in BOOLEAN
           /\ sending' \in Seq(Values \cup {XON, XOFF})
           /\ Len(sending') <= UART_DEPTH
           /\ txInt' \in BOOLEAN
           /\ out' \in Seq(Values)
<1>1. CASE SendFlowControl(state)
    <2>1. PICK byte \in Values \cup {XON, XOFF} : fnTxByte(byte)
        BY <1>1 DEF SendFlowControl
    <2>2. /\ sending' \in Seq(Values \cup {XON, XOFF})
          /\ Len(sending') <= UART_DEPTH
          /\ txInt' \in BOOLEAN
        BY <2>1, ByteLoaded
    <2>3. ucState' \in SUBSET Flags
        BY <1>1 DEF SendFlowControl, Flags
    <2> QED
        BY <1>1, <2>2, <2>3 DEF SendFlowControl, TypeOK
<1>2. CASE SuspendTransmission(state)
    <2>1. ucState' \in SUBSET Flags /\ wake_task' \in BOOLEAN /\ txInt' \in BOOLEAN
        BY <1>2 DEF SuspendTransmission, TypeOK
    <2>2. queue' = queue /\ sending' = sending /\ out' = out
        BY <1>2 DEF SuspendTransmission
    <2> QED
        BY <2>1, <2>2 DEF TypeOK
<1>3. CASE FinishTransmission(state)
    <2>1. ucState' \in SUBSET Flags /\ wake_task' \in BOOLEAN /\ txInt' \in BOOLEAN
        BY <1>3 DEF FinishTransmission, fnWakeBlockedTx
    <2>2. queue' = queue /\ sending' = sending /\ out' = out
        BY <1>3 DEF FinishTransmission
    <2> QED
        BY <2>1, <2>2 DEF TypeOK
<1>4. CASE queue # <<>> /\ SendData(state)
    <2>1. /\ Head(queue) \in Values
          /\ queue' \in Seq(Values) /\ Len(queue') <= Len(queue)
        BY <1>4, HeadAndTail DEF SendData, TypeOK
    <2>2. /\ sending' \in Seq(Values \cup {XON, XOFF})
          /\ Len(sending') <= UART_DEPTH
          /\ txInt' \in BOOLEAN
        BY <1>4, <2>1, ByteLoaded DEF SendData
    <2>3. out' \in Seq(Values)
        BY <1>4, <2>1 DEF SendData, TypeOK
    <2>4. ucState' \in SUBSET Flags
        BY <1>4 DEF SendData, Flags
    <2>5. wake_task' \in BOOLEAN
        BY <1>4 DEF SendData, fnWakeBlockedTx
    <2> QED
        BY <2>1, <2>2, <2>3, <2>4, <2>5
<1> QED
    BY <1>1, <1>2, <1>3, <1>4 DEF send_next_byte

LEMMA LeftTyped ==
    ASSUME TypeOK, NEW state \in SUBSET Flags, LeaveTransmitter(state)
    PROVE  /\ ucState' \in SUBSET Flags
           /\ queue' \in Seq(Values) /\ Len(queue') <= Len(queue)
           /\ wake_task' \in BOOLEAN
           /\ sending' \in Seq(Values \cup {XON, XOFF})
           /\ Len(sending') <= UART_DEPTH
           /\ txInt' \in BOOLEAN
           /\ out' \in Seq(Values)
    BY DEF LeaveTransmitter, TypeOK, uart

(* The peer's turn is 0 or 1.                                              *)
LEMMA Timed ==
    ASSUME TypeOK, NEW arrived \in BOOLEAN, Timing(arrived), arrived => InTurn
    PROVE  slack' \in 0..1
    BY DEF TypeOK, Timing, InTurn

-----------------------------------------------------------------------------
(*                                The types                                *)

LEMMA ConstantTypes ==
    /\ TxQueueSize \in Nat /\ RxQueueSize \in Nat
    /\ UART_DEPTH \in Nat \ {0}
    /\ Sizes \subseteq Nat \ {0}
    BY TtyAssumption

LEMMA TypeInit == Init => TypeOK
<1> SUFFICES ASSUME Init PROVE TypeOK
    OBVIOUS
<1>1. /\ queue \in Seq(Values) /\ writing \in Seq(Values)
      /\ sending \in Seq(Values \cup {XON, XOFF}) /\ out \in Seq(Values)
      /\ Len(queue) = 0 /\ Len(writing) = 0 /\ Len(sending) = 0
    BY DEF Init
<1>2. Len(queue) + Len(writing) <= TxQueueSize /\ Len(sending) <= UART_DEPTH
    BY <1>1, ConstantTypes
<1>3. chars \in 0..RxQueueSize /\ slack \in 0..1
    BY ConstantTypes DEF Init
<1> QED
    BY <1>1, <1>2, <1>3 DEF Init, TypeOK, Calls

(* The steps that neither transmit nor time the peer.                      *)
LEMMA CallTypes ==
    ASSUME TypeOK,
           \/ \E v \in Values, n \in Sizes : WriteBegin(v, n)
           \/ \E n \in Sizes : Query(n) \/ Read(n)
           \/ WriteCount \/ Register \/ ReadTest \/ ReadLoad
           \/ FlushTx \/ ByteSent
    PROVE  TypeOK'
<1>1. ASSUME NEW v \in Values, NEW n \in Sizes, WriteBegin(v, n) PROVE TypeOK'
    <2>1. Accepted(n) \in Nat /\ Len(queue) + Accepted(n) <= TxQueueSize
        <3>1. Len(queue) \in Nat /\ Len(writing) \in Nat
            BY DEF TypeOK
        <3>2. Len(queue) + Len(writing) <= TxQueueSize
            BY DEF TypeOK
        <3>3. TxQueueSize \in Nat /\ n \in Nat
            BY ConstantTypes
        <3> QED
            BY <3>1, <3>2, <3>3 DEF Accepted, Space
    <2>2. writing' \in Seq(Values) /\ Len(writing') = Accepted(n)
        BY <1>1, <2>1, Copies DEF WriteBegin
    <2> QED
        BY <1>1, <2>1, <2>2 DEF WriteBegin, TypeOK, Calls, rxVars, uart, line
<1>2. ASSUME NEW n \in Sizes, Query(n) PROVE TypeOK'
    BY <1>2 DEF Query, TypeOK, Calls, rxVars, uart, line
<1>3. ASSUME NEW n \in Sizes, Read(n) PROVE TypeOK'
    <2>1. chars' \in 0..RxQueueSize
        BY <1>3, TtyAssumption DEF Read, TypeOK
    <2> QED
        BY <1>3, <2>1 DEF Read, TypeOK, Calls, uart, line
<1>4. CASE WriteCount
    <2>1. /\ queue' \in Seq(Values) /\ writing' \in Seq(Values)
          /\ Len(queue') + Len(writing') <= TxQueueSize
        BY <1>4 DEF WriteCount, TypeOK
    <2> QED
        BY <1>4, <2>1 DEF WriteCount, TypeOK, Calls, rxVars, uart, line
<1>5. CASE Register
    BY <1>5 DEF Register, TypeOK, Calls, rxVars, uart, line
<1>6. CASE ReadTest
    BY <1>6 DEF ReadTest, TypeOK, Calls, uart, line
<1>7. CASE ReadLoad
    BY <1>7 DEF ReadLoad, TypeOK, Calls, rxVars, uart, line
<1>8. CASE FlushTx
    <2>1. /\ queue' \in Seq(Values)
          /\ Len(queue') + Len(writing) <= TxQueueSize
        BY <1>8, TtyAssumption DEF FlushTx, TypeOK
    <2> QED
        BY <1>8, <2>1 DEF FlushTx, TypeOK, userVars, rxVars, uart, line
<1>9. CASE ByteSent
    <2>1. /\ sending' \in Seq(Values \cup {XON, XOFF})
          /\ Len(sending') <= UART_DEPTH
        BY <1>9, HeadAndTail, TtyAssumption DEF ByteSent, TypeOK
    <2>2. peer' \in {"sending", "stopping", "held"}
        BY <1>9 DEF ByteSent, TypeOK
    <2> QED
        BY <1>9, <2>1, <2>2 DEF ByteSent, TypeOK, userVars, rxVars
<1> QED
    BY <1>1, <1>2, <1>3, <1>4, <1>5, <1>6, <1>7, <1>8, <1>9

(* The steps that may transmit: the flags they transmit with, or leave.    *)
Transmits ==
    \E state \in SUBSET Flags : send_next_byte(state) \/ LeaveTransmitter(state)

LEMMA TransmitTypes ==
    ASSUME TypeOK, Transmits,
           flow' = flow, writing' \in Seq(Values), Len(writing') <= Len(writing),
           loaded' \in SUBSET Flags, call' \in Calls,
           RX_HIGHWATER' \in BOOLEAN, chars' \in 0..RxQueueSize,
           peer' \in {"sending", "stopping", "held"}, slack' \in 0..1
    PROVE  TypeOK'
<1>1. /\ ucState' \in SUBSET Flags
      /\ queue' \in Seq(Values) /\ Len(queue') <= Len(queue)
      /\ wake_task' \in BOOLEAN
      /\ sending' \in Seq(Values \cup {XON, XOFF})
      /\ Len(sending') <= UART_DEPTH
      /\ txInt' \in BOOLEAN
      /\ out' \in Seq(Values)
    BY SentTyped, LeftTyped DEF Transmits
<1>2. Len(queue') + Len(writing') <= TxQueueSize
    <2>1. /\ Len(queue) \in Nat /\ Len(queue') \in Nat
          /\ Len(writing) \in Nat /\ Len(writing') \in Nat
        BY <1>1 DEF TypeOK
    <2> QED
        BY <1>1, <2>1, ConstantTypes DEF TypeOK
<1> QED
    BY <1>1, <1>2 DEF TypeOK, Flags

LEMMA TransmittingTypes ==
    ASSUME TypeOK,
           \/ WriteStart \/ Pause \/ Resume \/ ReadStore \/ ReadSend \/ FlushRx
           \/ TxInterrupt \/ RxByte \/ RxXoff \/ RxXon
    PROVE  TypeOK'
<1> DEFINE Kept == /\ flow' = flow /\ writing' = writing /\ loaded' = loaded
                   /\ call' = call
           RxKept == RX_HIGHWATER' = RX_HIGHWATER /\ chars' = chars
<1>1. /\ ucState \in SUBSET Flags /\ loaded \in SUBSET Flags
      /\ RX_HIGHWATER \in BOOLEAN /\ chars \in 0..RxQueueSize
      /\ peer \in {"sending", "stopping", "held"} /\ slack \in 0..1
      /\ call \in Calls /\ writing \in Seq(Values) /\ Len(writing) \in Nat
    BY DEF TypeOK, Flags
<1>2. ASSUME NoArrival PROVE peer' = peer /\ slack' \in 0..1
    BY <1>2, Timed DEF NoArrival
<1>3. CASE WriteStart
    <2>1. Transmits
        BY <1>1, <1>3 DEF WriteStart, Transmits
    <2> QED
        BY <1>1, <1>2, <1>3, <2>1, TransmitTypes DEF WriteStart, rxVars, Calls
<1>4. CASE Pause
    <2>1. Transmits
        BY <1>1, <1>4 DEF Pause, Transmits, Flags
    <2>2. Kept /\ RxKept /\ peer' = peer /\ slack' = slack
        BY <1>4 DEF Pause, rxVars, userVars, line
    <2> QED
        BY <1>1, <2>1, <2>2, TransmitTypes
<1>5. CASE Resume
    <2>1. Transmits
        BY <1>1, <1>5 DEF Resume, Transmits
    <2>2. Kept /\ RxKept /\ NoArrival
        BY <1>5 DEF Resume, rxVars, userVars
    <2> QED
        BY <1>1, <1>2, <2>1, <2>2, TransmitTypes
<1>6. CASE ReadStore
    <2>1. Transmits
        BY <1>1, <1>6 DEF ReadStore, Transmits, Flags
    <2>2. /\ RxKept /\ flow' = flow /\ writing' = writing /\ loaded' = {}
          /\ call' = "send" /\ peer' = peer /\ slack' = slack
        BY <1>6 DEF ReadStore, rxVars, line
    <2> QED
        BY <1>1, <2>1, <2>2, TransmitTypes DEF Calls
<1>7. CASE ReadSend
    <2>1. Transmits
        BY <1>1, <1>7 DEF ReadSend, Transmits
    <2>2. /\ RxKept /\ flow' = flow /\ writing' = writing /\ loaded' = loaded
          /\ call' = "idle" /\ NoArrival
        BY <1>7 DEF ReadSend, rxVars
    <2> QED
        BY <1>1, <1>2, <2>1, <2>2, TransmitTypes DEF Calls
<1>8. CASE FlushRx
    <2>1. Transmits
        BY <1>1, <1>8 DEF FlushRx, Transmits, Flags
    <2>2. Kept /\ chars' = 0 /\ RX_HIGHWATER' = FALSE /\ NoArrival
        BY <1>8 DEF FlushRx, userVars
    <2>3. RX_HIGHWATER' \in BOOLEAN
        BY <2>2
    <2>4. chars' \in 0..RxQueueSize
        BY <2>2, ConstantTypes
    <2>5. Kept /\ peer' = peer /\ slack' \in 0..1
        BY <1>2, <2>2
    <2> QED
        BY <1>1, <2>1, <2>3, <2>4, <2>5, TransmitTypes
<1>9. CASE TxInterrupt
    <2>1. Transmits
        BY <1>1, <1>9 DEF TxInterrupt, Transmits
    <2>2. Kept /\ RxKept /\ NoArrival
        BY <1>9 DEF TxInterrupt, rxVars, userVars
    <2> QED
        BY <1>1, <1>2, <2>1, <2>2, TransmitTypes
<1>10. CASE RxByte
    <2>1. Transmits
        BY <1>1, <1>10 DEF RxByte, Transmits, Flags
    <2>2. Kept /\ peer' \in {"sending", "stopping", "held"}
        BY <1>1, <1>10 DEF RxByte, userVars
    <2>3. RX_HIGHWATER' \in BOOLEAN
        BY <1>1, <1>10 DEF RxByte
    <2>4. chars' \in 0..RxQueueSize
        BY <1>1, <1>10, ConstantTypes DEF RxByte
    <2>5. slack' \in 0..1
        BY <1>10, Timed DEF RxByte, PeerSends
    <2> QED
        BY <1>1, <2>1, <2>2, <2>3, <2>4, <2>5, TransmitTypes
<1>11. CASE RxXoff
    <2>1. Transmits
        BY <1>1, <1>11 DEF RxXoff, Transmits, Flags
    <2>2. Kept /\ RxKept /\ peer' = peer
        BY <1>11 DEF RxXoff, rxVars, userVars
    <2>3. slack' \in 0..1
        BY <1>11, Timed DEF RxXoff
    <2> QED
        BY <1>1, <2>1, <2>2, <2>3, TransmitTypes
<1>12. CASE RxXon
    <2>1. Transmits
        BY <1>1, <1>12 DEF RxXon, Transmits
    <2>2. Kept /\ RxKept /\ peer' = peer
        BY <1>12 DEF RxXon, rxVars, userVars
    <2>3. slack' \in 0..1
        BY <1>12, Timed DEF RxXon
    <2> QED
        BY <1>1, <2>1, <2>2, <2>3, TransmitTypes
<1> QED
    BY <1>3, <1>4, <1>5, <1>6, <1>7, <1>8, <1>9, <1>10, <1>11, <1>12

LEMMA TypeStep == TypeOK /\ [Next]_vars => TypeOK'
<1> SUFFICES ASSUME TypeOK, [Next]_vars PROVE TypeOK'
    OBVIOUS
<1>1. CASE Next
    BY <1>1, CallTypes, TransmittingTypes DEF Next, Call
<1>2. CASE UNCHANGED vars
    BY <1>2 DEF TypeOK, vars, rxVars, userVars, uart, line
<1> QED
    BY <1>1, <1>2

(* The types hold: the transmit queue with what is being written never     *)
(* exceeds its size, nor the UART its depth, nor the receive queue its.    *)
THEOREM TypesHold == Spec => []TypeOK
<1>1. Init => TypeOK
    BY TypeInit
<1>2. TypeOK /\ [Next]_vars => TypeOK'
    BY TypeStep
<1> QED
    BY <1>1, <1>2, PTL DEF Spec

-----------------------------------------------------------------------------
(*                    Transmission goes on until it ends                   *)

(* An inactive transmitter has nothing in hand; a full UART interrupts,    *)
(* and its next interrupt belongs to an active transmitter.                *)
InactiveIsDone == TX_ACTIVE \notin ucState => Ready /\ ~txInt

(* With flow control an active transmitter that need not wait is           *)
(* interrupted again, and so is one that owes a flow control character,    *)
(* but for CALL_READ on its way.                                           *)
ActiveGoesOn ==
    /\ flow => ~Stalled
    /\ ~Ready => txInt
    /\ Due(ucState) /\ call # "send" => txInt

(* Bytes that may be sent are with an active transmitter, unless the write *)
(* that brought them has not returned.                                     *)
BytesAreActive ==
    queue # <<>> /\ TX_WAIT \notin ucState /\ call # "start" => TX_ACTIVE \in ucState

(* A channel that its user may pause has no flow control of its own.       *)
NothingToTell ==
    ~flow => /\ ~Due(ucState)
             /\ call \notin {"load", "store", "send"}

(* What the calls of the user task have in hand.                           *)
CallsInHand ==
    /\ call = "store" => loaded = ucState
    /\ call = "send" => Due(ucState)
    /\ call # "fill" => writing = <<>>

TxSound == InactiveIsDone /\ ActiveGoesOn /\ BytesAreActive
TInv == TypeOK /\ TxSound /\ NothingToTell /\ CallsInHand

(* What transmission from the flags "state" leaves, if the UART can take a *)
(* character or one of flow control is due.                                *)
LEMMA SentSound ==
    ASSUME TypeOK, NEW state \in SUBSET Flags, send_next_byte(state),
           Ready \/ Due(state),
           ~Ready => txInt /\ TX_ACTIVE \in state
    PROVE  /\ InactiveIsDone'
           /\ TX_ACTIVE \in ucState' /\ TX_WAIT \notin ucState' => txInt'
           /\ ~Ready' => txInt'
           /\ Due(ucState') => txInt' /\ Due(state)
           /\ queue' # <<>> /\ TX_WAIT \notin ucState' => TX_ACTIVE \in ucState'
           /\ TX_WAIT \in ucState' <=> TX_WAIT \in state
<1> DEFINE Post == /\ TX_ACTIVE \notin ucState' => (Len(sending') < UART_DEPTH) /\ ~txInt'
                   /\ TX_ACTIVE \in ucState' /\ TX_WAIT \notin ucState' => txInt'
                   /\ ~(Len(sending') < UART_DEPTH) => txInt'
                   /\ Due(ucState') => txInt' /\ Due(state)
                   /\ queue' # <<>> /\ TX_WAIT \notin ucState' => TX_ACTIVE \in ucState'
                   /\ TX_WAIT \in ucState' <=> TX_WAIT \in state
<1> SUFFICES Post
    BY DEF InactiveIsDone, Ready
<1>1. CASE Due(state) /\ SendFlowControl(state)
    <2>1. PICK byte \in Values \cup {XON, XOFF} : fnTxByte(byte)
        BY <1>1 DEF SendFlowControl
    <2>2. CASE Ready
        <3>1. ucState' = (state \ {SEND_XON, SEND_XOFF}) \cup {TX_ACTIVE}
            BY <1>1, <2>2 DEF SendFlowControl
        <3>2. txInt'
            BY <2>1, <2>2, ByteLoaded
        <3>3. /\ TX_ACTIVE \in ucState' /\ ~Due(ucState')
              /\ TX_WAIT \in ucState' <=> TX_WAIT \in state
            BY <3>1 DEF Due, SEND_XON, SEND_XOFF, TX_ACTIVE, TX_WAIT
        <3> QED
            BY <3>2, <3>3
    <2>3. CASE ~Ready
        <3>1. ucState' = state /\ txInt' = txInt
            BY <1>1, <2>1, <2>3, ByteLoaded DEF SendFlowControl
        <3> QED
            BY <1>1, <2>3, <3>1
    <2> QED
        BY <2>2, <2>3
<1>2. CASE ~Due(state) /\ TX_WAIT \in state /\ SuspendTransmission(state)
    <2>1. ucState' = state /\ ~txInt' /\ sending' = sending
        BY <1>2 DEF SuspendTransmission
    <2>2. Len(sending') < UART_DEPTH
        BY <1>2, <2>1 DEF Ready
    <2> QED
        BY <1>2, <2>1, <2>2
<1>3. CASE ~Due(state) /\ TX_WAIT \notin state /\ queue = <<>> /\ FinishTransmission(state)
    <2>1. /\ ucState' = state \ {TX_ACTIVE}
          /\ ~txInt' /\ sending' = sending /\ queue' = <<>>
        BY <1>3 DEF FinishTransmission
    <2>2. Len(sending') < UART_DEPTH
        BY <1>3, <2>1 DEF Ready
    <2>3. TX_ACTIVE \notin ucState' /\ ~Due(ucState') /\ TX_WAIT \notin ucState'
        BY <1>3, <2>1 DEF Due
    <2> QED
        BY <1>3, <2>1, <2>2, <2>3
<1>4. CASE ~Due(state) /\ TX_WAIT \notin state /\ queue # <<>> /\ SendData(state)
    <2>1. Ready /\ fnTxByte(Head(queue)) /\ ucState' = state \cup {TX_ACTIVE}
        BY <1>4 DEF SendData
    <2>2. txInt'
        BY <2>1 DEF fnTxByte
    <2>3. TX_ACTIVE \in ucState' /\ TX_WAIT \notin ucState' /\ ~Due(ucState')
        BY <1>4, <2>1 DEF Due, SEND_XON, SEND_XOFF, TX_ACTIVE, TX_WAIT
    <2> QED
        BY <1>4, <2>2, <2>3
<1> QED
    BY <1>1, <1>2, <1>3, <1>4 DEF send_next_byte, Due

(* Transmission preserves soundness.                                       *)
LEMMA TransmitSound ==
    ASSUME TypeOK, TxSound, NEW state \in SUBSET Flags, send_next_byte(state),
           Ready \/ Due(state),
           TX_ACTIVE \in state <=> TX_ACTIVE \in ucState
    PROVE  /\ TxSound' /\ ~Stalled'
           /\ Due(ucState') => Due(state)
           /\ TX_WAIT \in ucState' <=> TX_WAIT \in state
<1>1. ~Ready => txInt /\ TX_ACTIVE \in state
    BY DEF TxSound, InactiveIsDone, ActiveGoesOn
<1>2. /\ InactiveIsDone'
      /\ TX_ACTIVE \in ucState' /\ TX_WAIT \notin ucState' => txInt'
      /\ ~Ready' => txInt'
      /\ Due(ucState') => txInt' /\ Due(state)
      /\ queue' # <<>> /\ TX_WAIT \notin ucState' => TX_ACTIVE \in ucState'
      /\ TX_WAIT \in ucState' <=> TX_WAIT \in state
    BY <1>1, SentSound
<1>3. ~Stalled'
    BY <1>2 DEF Stalled
<1>4. ActiveGoesOn' /\ BytesAreActive'
    BY <1>2, <1>3 DEF ActiveGoesOn, BytesAreActive
<1> QED
    BY <1>2, <1>3, <1>4 DEF TxSound

(* What leaves the transmitter and its flags alone preserves it too.       *)
LEMMA UntouchedSound ==
    ASSUME TxSound, UNCHANGED <<flow, ucState, txInt>>, Ready => Ready',
           call' # "send" => call # "send",
           \/ queue' = queue /\ (call = "start" => call' = "start")
           \/ queue' = <<>>
           \/ call' = "start"
    PROVE  TxSound'
<1>1. InactiveIsDone'
    BY DEF TxSound, InactiveIsDone
<1>2. ActiveGoesOn'
    BY DEF TxSound, ActiveGoesOn, Stalled
<1>3. BytesAreActive'
    BY DEF TxSound, BytesAreActive
<1> QED
    BY <1>1, <1>2, <1>3 DEF TxSound

LEMMA SoundInit == Init => TInv
<1> SUFFICES ASSUME Init PROVE TInv
    OBVIOUS
<1>1. Len(sending) < UART_DEPTH
    <2>1. sending = <<>> /\ Len(<<>>) = 0
        BY DEF Init
    <2> QED
        BY <2>1, ConstantTypes
<1>2. ~Due(ucState) /\ TX_ACTIVE \notin ucState /\ ~txInt /\ queue = <<>>
    BY DEF Init, Due
<1>3. TxSound
    BY <1>1, <1>2
    DEF TxSound, InactiveIsDone, ActiveGoesOn, BytesAreActive, Ready, Stalled
<1>4. NothingToTell /\ CallsInHand
    BY <1>2 DEF Init, NothingToTell, CallsInHand
<1> QED
    BY <1>3, <1>4, TypeInit DEF TInv

(* The calls between their protected sections, and the line.               *)
LEMMA CallSound ==
    ASSUME TInv,
           \/ \E v \in Values, n \in Sizes : WriteBegin(v, n)
           \/ \E n \in Sizes : Query(n) \/ Read(n)
           \/ WriteCount \/ Register \/ ReadTest \/ ReadLoad
           \/ FlushTx \/ ByteSent
    PROVE  TxSound' /\ NothingToTell' /\ CallsInHand'
<1> USE DEF TInv
<1>1. ASSUME NEW v \in Values, NEW n \in Sizes, WriteBegin(v, n)
      PROVE  TxSound' /\ NothingToTell' /\ CallsInHand'
    <2>1. /\ UNCHANGED <<flow, ucState, queue, txInt, sending>>
          /\ call = "idle" /\ call' = "fill"
        BY <1>1 DEF WriteBegin, uart
    <2>2. TxSound'
        BY <2>1, UntouchedSound DEF Ready
    <2> QED
        BY <2>1, <2>2 DEF NothingToTell, CallsInHand
<1>2. ASSUME NEW n \in Sizes, Query(n) \/ Read(n)
      PROVE  TxSound' /\ NothingToTell' /\ CallsInHand'
    <2>1. /\ UNCHANGED <<flow, ucState, queue, txInt, sending, writing, loaded>>
          /\ call = "idle" /\ call' \in {"refused", "got"}
        BY <1>2 DEF Query, Read, uart
    <2>2. TxSound'
        BY <2>1, UntouchedSound DEF Ready
    <2> QED
        BY <2>1, <2>2 DEF NothingToTell, CallsInHand
<1>3. CASE WriteCount
    <2>1. /\ UNCHANGED <<flow, ucState, txInt, sending, loaded>>
          /\ call = "fill" /\ call' = "start" /\ writing' = <<>>
        BY <1>3 DEF WriteCount, uart
    <2>2. TxSound'
        BY <2>1, UntouchedSound DEF Ready
    <2> QED
        BY <2>1, <2>2 DEF NothingToTell, CallsInHand
<1>4. CASE Register
    <2>1. /\ UNCHANGED <<flow, ucState, queue, txInt, sending, writing, loaded>>
          /\ call = "refused" /\ call' = "idle"
        BY <1>4 DEF Register, uart
    <2>2. TxSound'
        BY <2>1, UntouchedSound DEF Ready
    <2> QED
        BY <2>1, <2>2 DEF NothingToTell, CallsInHand
<1>5. CASE ReadTest
    <2>1. /\ UNCHANGED <<flow, ucState, queue, txInt, sending, writing, loaded>>
          /\ call = "got" /\ ((call' = "load" /\ flow) \/ call' = "idle")
        BY <1>5 DEF ReadTest, uart
    <2>2. TxSound'
        BY <2>1, UntouchedSound DEF Ready
    <2> QED
        BY <2>1, <2>2 DEF NothingToTell, CallsInHand
<1>6. CASE ReadLoad
    <2>1. /\ UNCHANGED <<flow, ucState, queue, txInt, sending, writing>>
          /\ call = "load" /\ call' = "store" /\ loaded' = ucState
        BY <1>6 DEF ReadLoad, uart
    <2>2. TxSound'
        BY <2>1, UntouchedSound DEF Ready
    <2> QED
        BY <2>1, <2>2 DEF NothingToTell, CallsInHand
<1>7. CASE FlushTx
    <2>1. /\ UNCHANGED <<flow, ucState, txInt, sending, writing, loaded, call>>
          /\ queue' = <<>>
        BY <1>7 DEF FlushTx, uart, userVars
    <2>2. TxSound'
        BY <2>1, UntouchedSound DEF Ready
    <2> QED
        BY <2>1, <2>2 DEF NothingToTell, CallsInHand
<1>8. CASE ByteSent
    <2>1. /\ UNCHANGED <<flow, ucState, queue, txInt, writing, loaded, call>>
          /\ sending # <<>> /\ sending' = Tail(sending)
        BY <1>8 DEF ByteSent, userVars
    <2>2. /\ Len(sending) \in Nat \ {0} /\ UART_DEPTH \in Nat
          /\ Len(sending') = Len(sending) - 1
        BY <2>1, HeadAndTail, ConstantTypes DEF TypeOK
    <2>3. Ready => Ready'
        BY <2>2 DEF Ready
    <2>4. TxSound'
        BY <2>1, <2>3, UntouchedSound
    <2> QED
        BY <2>1, <2>4 DEF NothingToTell, CallsInHand
<1> QED
    BY <1>1, <1>2, <1>3, <1>4, <1>5, <1>6, <1>7, <1>8

(* The steps that may transmit, if nothing comes between the decision and  *)
(* the deed of CALL_READ.                                                  *)
LEMMA TransmittingSound ==
    ASSUME TInv, Undisturbed = TRUE,
           \/ WriteStart \/ Pause \/ Resume \/ ReadStore \/ ReadSend \/ FlushRx
           \/ TxInterrupt \/ RxByte \/ RxXoff \/ RxXon
    PROVE  TxSound' /\ NothingToTell' /\ CallsInHand'
<1> DEFINE Kept == UNCHANGED <<flow, writing, loaded, call>>
           Left == UNCHANGED <<queue, sending, txInt>>
<1> USE DEF TInv
<1>1. ucState \in SUBSET Flags
    BY DEF TypeOK, Flags
<1>2. ASSUME Interruptible PROVE call \notin {"load", "store", "send"}
    BY <1>2 DEF Interruptible
<1>3. CASE WriteStart
    <2>1. call = "start" /\ call' = "idle" /\ UNCHANGED <<flow, writing, loaded>>
        BY <1>3 DEF WriteStart
    <2>2. CASE {TX_WAIT, TX_ACTIVE} \cap ucState = {}
        <3>1. send_next_byte(ucState) /\ TX_WAIT \notin ucState /\ Ready
            BY <1>3, <2>2 DEF WriteStart, TxSound, InactiveIsDone
        <3>2. /\ TxSound' /\ TX_WAIT \notin ucState'
              /\ Due(ucState') => Due(ucState)
            BY <1>1, <3>1, TransmitSound
        <3> QED
            BY <2>1, <3>2 DEF NothingToTell, CallsInHand
    <2>3. CASE {TX_WAIT, TX_ACTIVE} \cap ucState # {}
        <3>1. ucState' = ucState /\ Left
            BY <1>3, <2>3 DEF WriteStart, LeaveTransmitter, uart
        <3>2. InactiveIsDone' /\ ActiveGoesOn'
            BY <2>1, <3>1 DEF TxSound, InactiveIsDone, ActiveGoesOn, Ready, Stalled
        <3>3. BytesAreActive'
            BY <2>3, <3>1 DEF BytesAreActive
        <3> QED
            BY <2>1, <3>1, <3>2, <3>3 DEF TxSound, NothingToTell, CallsInHand
    <2> QED
        BY <2>2, <2>3
<1>4. CASE Pause
    <2>1. /\ Kept /\ Left /\ call = "idle" /\ ~flow
          /\ ucState' = ucState \cup {TX_WAIT}
        BY <1>4 DEF Pause, LeaveTransmitter, userVars, uart
    <2>2. /\ TX_ACTIVE \in ucState' <=> TX_ACTIVE \in ucState
          /\ TX_WAIT \in ucState' /\ ~Due(ucState')
        BY <2>1 DEF NothingToTell, Due, SEND_XON, SEND_XOFF, TX_WAIT, TX_ACTIVE
    <2>3. TxSound'
        BY <2>1, <2>2
        DEF TxSound, InactiveIsDone, ActiveGoesOn, BytesAreActive, Ready, Stalled
    <2> QED
        BY <2>1, <2>2, <2>3 DEF NothingToTell, CallsInHand
<1>5. CASE Resume
    <2> DEFINE state == ucState \ {TX_WAIT}
    <2>1. Kept /\ call = "idle" /\ ~flow /\ ~Due(ucState)
        BY <1>5 DEF Resume, NothingToTell, userVars
    <2>2. /\ ~Due(state) /\ state \in SUBSET Flags
          /\ TX_ACTIVE \in state <=> TX_ACTIVE \in ucState
        BY <1>1, <2>1 DEF Due, TX_WAIT, TX_ACTIVE
    <2>3. CASE TX_ACTIVE \notin ucState
        <3>1. send_next_byte(state) /\ Ready
            BY <1>5, <2>2, <2>3 DEF Resume, TxSound, InactiveIsDone
        <3>2. TxSound' /\ ~Due(ucState')
            <4> HIDE DEF state
            <4> QED
                BY <2>2, <3>1, TransmitSound
        <3> QED
            BY <2>1, <3>2 DEF NothingToTell, CallsInHand
    <2>4. CASE TX_ACTIVE \in ucState
        <3>1. Left /\ ucState' = state
            BY <1>5, <2>2, <2>4 DEF Resume, LeaveTransmitter, uart
        <3>2. TX_ACTIVE \in ucState' /\ ~Due(ucState')
            BY <2>2, <2>4, <3>1
        <3>3. TxSound'
            BY <2>1, <3>1, <3>2
            DEF TxSound, InactiveIsDone, ActiveGoesOn, BytesAreActive, Ready
        <3> QED
            BY <2>1, <3>2, <3>3 DEF NothingToTell, CallsInHand
    <2> QED
        BY <2>3, <2>4
<1>6. CASE ReadStore
    <2>1. /\ UNCHANGED <<flow, writing>> /\ Left
          /\ call = "store" /\ call' = "send" /\ flow
          /\ ucState' = ucState \cup {SEND_XON}
        BY <1>6 DEF ReadStore, LeaveTransmitter, NothingToTell, CallsInHand, uart
    <2>2. /\ TX_ACTIVE \in ucState' <=> TX_ACTIVE \in ucState
          /\ TX_WAIT \in ucState' <=> TX_WAIT \in ucState
          /\ Due(ucState')
        BY <2>1 DEF Due, SEND_XON, TX_WAIT, TX_ACTIVE
    <2>3. TxSound'
        BY <2>1, <2>2
        DEF TxSound, InactiveIsDone, ActiveGoesOn, BytesAreActive, Ready, Stalled
    <2> QED
        BY <2>1, <2>2, <2>3 DEF NothingToTell, CallsInHand
<1>7. CASE ReadSend
    <2>1. /\ UNCHANGED <<flow, writing, loaded>> /\ call = "send" /\ call' = "idle"
          /\ send_next_byte(ucState) /\ flow /\ Due(ucState)
        BY <1>7 DEF ReadSend, NothingToTell, CallsInHand
    <2>2. TxSound'
        BY <1>1, <2>1, TransmitSound
    <2> QED
        BY <2>1, <2>2 DEF NothingToTell, CallsInHand
<1>8. CASE FlushRx
    <2>1. Kept /\ call = "idle"
        BY <1>8 DEF FlushRx, userVars
    <2>2. CASE flow /\ send_next_byte(ucState \cup {SEND_XON})
        <3>1. /\ Due(ucState \cup {SEND_XON}) /\ ucState \cup {SEND_XON} \in SUBSET Flags
              /\ TX_ACTIVE \in ucState \cup {SEND_XON} <=> TX_ACTIVE \in ucState
            BY <1>1 DEF Due, Flags, SEND_XON, TX_ACTIVE
        <3>2. TxSound'
            BY <2>2, <3>1, TransmitSound
        <3> QED
            BY <2>1, <2>2, <3>2 DEF NothingToTell, CallsInHand
    <2>3. CASE LeaveTransmitter(ucState)
        <3>1. ucState' = ucState /\ Left
            BY <2>3 DEF LeaveTransmitter, uart
        <3>2. TxSound'
            BY <2>1, <3>1, UntouchedSound DEF Ready
        <3> QED
            BY <2>1, <3>1, <3>2 DEF NothingToTell, CallsInHand
    <2> QED
        BY <1>8, <2>2, <2>3 DEF FlushRx
<1>9. CASE TxInterrupt
    <2>1. /\ Kept /\ call \notin {"load", "store", "send"}
          /\ Ready /\ txInt /\ send_next_byte(ucState)
        BY <1>2, <1>9 DEF TxInterrupt, userVars
    <2>2. TxSound' /\ (Due(ucState') => Due(ucState))
        BY <1>1, <2>1, TransmitSound
    <2> QED
        BY <2>1, <2>2 DEF NothingToTell, CallsInHand
<1>10. CASE RxByte
    <2>1. Kept /\ call \notin {"load", "store", "send"}
        BY <1>2, <1>10 DEF RxByte, userVars
    <2>2. CASE flow /\ send_next_byte(ucState \cup {SEND_XOFF})
        <3>1. /\ Due(ucState \cup {SEND_XOFF}) /\ ucState \cup {SEND_XOFF} \in SUBSET Flags
              /\ TX_ACTIVE \in ucState \cup {SEND_XOFF} <=> TX_ACTIVE \in ucState
            BY <1>1 DEF Due, Flags, SEND_XOFF, TX_ACTIVE
        <3>2. TxSound'
            BY <2>2, <3>1, TransmitSound
        <3> QED
            BY <2>1, <2>2, <3>2 DEF NothingToTell, CallsInHand
    <2>3. CASE LeaveTransmitter(ucState)
        <3>1. ucState' = ucState /\ Left
            BY <2>3 DEF LeaveTransmitter, uart
        <3>2. TxSound'
            BY <2>1, <3>1, UntouchedSound DEF Ready
        <3> QED
            BY <2>1, <3>1, <3>2 DEF NothingToTell, CallsInHand
    <2> QED
        BY <1>10, <2>2, <2>3 DEF RxByte
<1>11. CASE RxXoff
    <2>1. /\ Kept /\ Left /\ flow /\ call \notin {"load", "store", "send"}
          /\ ucState' = ucState \cup {TX_WAIT}
        BY <1>2, <1>11 DEF RxXoff, LeaveTransmitter, userVars, uart
    <2>2. /\ TX_ACTIVE \in ucState' <=> TX_ACTIVE \in ucState
          /\ TX_WAIT \in ucState'
          /\ Due(ucState') <=> Due(ucState)
        BY <2>1 DEF Due, SEND_XON, SEND_XOFF, TX_WAIT, TX_ACTIVE
    <2>3. TxSound'
        BY <2>1, <2>2
        DEF TxSound, InactiveIsDone, ActiveGoesOn, BytesAreActive, Ready, Stalled
    <2> QED
        BY <2>1, <2>3 DEF NothingToTell, CallsInHand
<1>12. CASE RxXon
    <2>1. Kept /\ flow /\ Ready /\ call \notin {"load", "store", "send"}
        BY <1>2, <1>12 DEF RxXon, userVars
    <2>2. CASE send_next_byte(ucState \ {TX_WAIT})
        <3>1. /\ ucState \ {TX_WAIT} \in SUBSET Flags
              /\ TX_ACTIVE \in ucState \ {TX_WAIT} <=> TX_ACTIVE \in ucState
            BY <1>1 DEF TX_WAIT, TX_ACTIVE
        <3>2. TxSound'
            BY <2>1, <2>2, <3>1, TransmitSound
        <3> QED
            BY <2>1, <3>2 DEF NothingToTell, CallsInHand
    <2>3. CASE LeaveTransmitter(ucState)
        <3>1. ucState' = ucState /\ Left
            BY <2>3 DEF LeaveTransmitter, uart
        <3>2. TxSound'
            BY <2>1, <3>1, UntouchedSound DEF Ready
        <3> QED
            BY <2>1, <3>1, <3>2 DEF NothingToTell, CallsInHand
    <2> QED
        BY <1>12, <2>2, <2>3 DEF RxXon
<1> QED
    BY <1>3, <1>4, <1>5, <1>6, <1>7, <1>8, <1>9, <1>10, <1>11, <1>12

LEMMA SoundStep ==
    Undisturbed = TRUE /\ TInv /\ [Next]_vars => TInv'
<1> SUFFICES ASSUME Undisturbed = TRUE, TInv, [Next]_vars
             PROVE  TInv'
    OBVIOUS
<1>1. TypeOK'
    BY TypeStep DEF TInv
<1>2. CASE Next
    <2>1. TxSound' /\ NothingToTell' /\ CallsInHand'
        BY <1>2, CallSound, TransmittingSound DEF Next, Call
    <2> QED
        BY <1>1, <2>1 DEF TInv
<1>3. CASE UNCHANGED vars
    <2>1. /\ UNCHANGED <<flow, ucState, queue, txInt, sending>>
          /\ UNCHANGED <<writing, loaded, call>>
        BY <1>3 DEF vars, userVars, uart
    <2>2. TxSound'
        BY <2>1, UntouchedSound DEF TInv, Ready
    <2>3. NothingToTell' /\ CallsInHand'
        BY <2>1 DEF TInv, NothingToTell, CallsInHand
    <2> QED
        BY <1>1, <2>2, <2>3 DEF TInv
<1> QED
    BY <1>2, <1>3

(* No step but the end of a pause leaves the transmitter stalled, and that *)
(* only if it finds it active.                                             *)
LEMMA StallStep ==
    ASSUME TInv, Undisturbed = TRUE, [Next]_vars, ~Stalled, Stalled'
    PROVE  Resume /\ TX_ACTIVE \in ucState
<1> USE DEF TInv
<1> SUFFICES ASSUME ~(Resume /\ TX_ACTIVE \in ucState) PROVE ~Stalled'
    OBVIOUS
<1> DEFINE Same == UNCHANGED <<ucState, txInt>>
<1>1. ucState \in SUBSET Flags
    BY DEF TypeOK, Flags
<1>2. ASSUME Same PROVE ~Stalled'
    BY <1>2 DEF Stalled
<1>3. ASSUME LeaveTransmitter(ucState) PROVE ~Stalled'
    BY <1>2, <1>3 DEF LeaveTransmitter, uart
<1>4. ASSUME NEW flag \in {SEND_XON, SEND_XOFF}, send_next_byte(ucState \cup {flag})
      PROVE  ~Stalled'
    <2>1. /\ ucState \cup {flag} \in SUBSET Flags /\ Due(ucState \cup {flag})
          /\ TX_ACTIVE \in ucState \cup {flag} <=> TX_ACTIVE \in ucState
        BY <1>1 DEF Due, Flags, SEND_XON, SEND_XOFF, TX_ACTIVE
    <2> QED
        BY <1>4, <2>1, TransmitSound
<1>5. ASSUME Ready, send_next_byte(ucState \ {TX_WAIT}) PROVE ~Stalled'
    <2>1. /\ ucState \ {TX_WAIT} \in SUBSET Flags
          /\ TX_ACTIVE \in ucState \ {TX_WAIT} <=> TX_ACTIVE \in ucState
        BY <1>1 DEF TX_WAIT, TX_ACTIVE
    <2> QED
        BY <1>5, <2>1, TransmitSound
<1>6. CASE \/ \E v \in Values, n \in Sizes : WriteBegin(v, n)
           \/ \E n \in Sizes : Query(n) \/ Read(n)
           \/ WriteCount \/ Register \/ ReadTest \/ ReadLoad
           \/ FlushTx \/ ByteSent \/ UNCHANGED vars
    <2>1. Same
        BY <1>6 DEF WriteBegin, Query, Read, WriteCount, Register, ReadTest,
           ReadLoad, FlushTx, ByteSent, vars, uart
    <2> QED
        BY <1>2, <2>1
<1>7. CASE WriteStart
    <2>1. \/ LeaveTransmitter(ucState)
          \/ Ready /\ send_next_byte(ucState)
        BY <1>7 DEF WriteStart, TxSound, InactiveIsDone
    <2> QED
        BY <1>1, <1>3, <2>1, TransmitSound
<1>8. CASE Pause \/ RxXoff
    <2>1. TX_WAIT \in ucState'
        BY <1>8 DEF Pause, RxXoff, LeaveTransmitter
    <2> QED
        BY <2>1 DEF Stalled
<1>9. CASE Resume
    <2>1. send_next_byte(ucState \ {TX_WAIT}) /\ Ready
        BY <1>9 DEF Resume, TxSound, InactiveIsDone
    <2> QED
        BY <1>5, <2>1
<1>10. CASE ReadStore
    <2>1. ucState' = ucState \cup {SEND_XON} /\ txInt' = txInt
        BY <1>10 DEF ReadStore, LeaveTransmitter, CallsInHand, uart
    <2> QED
        BY <2>1 DEF Stalled, SEND_XON, TX_WAIT, TX_ACTIVE
<1>11. CASE ReadSend \/ TxInterrupt
    <2>1. send_next_byte(ucState) /\ (Ready \/ Due(ucState))
        BY <1>11 DEF ReadSend, TxInterrupt, CallsInHand
    <2> QED
        BY <1>1, <2>1, TransmitSound
<1>12. CASE FlushRx \/ RxByte
    <2>1. \/ LeaveTransmitter(ucState)
          \/ send_next_byte(ucState \cup {SEND_XON})
          \/ send_next_byte(ucState \cup {SEND_XOFF})
        BY <1>12 DEF FlushRx, RxByte
    <2> QED
        BY <1>3, <1>4, <2>1
<1>13. CASE RxXon
    <2>1. \/ LeaveTransmitter(ucState)
          \/ Ready /\ send_next_byte(ucState \ {TX_WAIT})
        BY <1>13 DEF RxXon
    <2> QED
        BY <1>3, <1>5, <2>1
<1> QED
    BY <1>6, <1>7, <1>8, <1>9, <1>10, <1>11, <1>12, <1>13 DEF Next, Call

(* Between calls, a flow control character that is due and bytes that may  *)
(* be sent have a transmit interrupt to come, unless the transmitter is    *)
(* stalled; and only the end of a pause that an interrupt has suspended in *)
(* the middle of a transmission stalls it.                                 *)
THEOREM NoStall ==
    Undisturbed = TRUE => (Spec => NeverStalls)
<1> SUFFICES ASSUME Undisturbed = TRUE
             PROVE  Spec => NeverStalls
    OBVIOUS
<1> DEFINE Served ==
        call = "idle" =>
            /\ {SEND_XON, SEND_XOFF} \cap ucState # {} => txInt
            /\ queue # <<>> /\ TX_WAIT \notin ucState => txInt \/ Stalled
<1>1. Init => TInv
    BY SoundInit
<1>2. TInv /\ [Next]_vars => TInv'
    BY SoundStep
<1>3. TInv => Served
    BY DEF TInv, TxSound, ActiveGoesOn, BytesAreActive, Stalled, Due
<1>4. TInv /\ [Next]_vars => [~Stalled /\ Stalled' => Resume /\ TX_ACTIVE \in ucState]_vars
    BY StallStep
<1> QED
    BY <1>1, <1>2, <1>3, <1>4, PTL DEF Spec, NeverStalls

-----------------------------------------------------------------------------
(*                        The transmit queue is a FIFO                     *)

LEMMA FirstByte ==
    ASSUME NEW S, NEW q \in Seq(S), q # <<>>
    PROVE  SubSeq(q, 1, 1) = <<Head(q)>>
<1>1. Len(q) \in Nat \ {0} /\ Head(q) = q[1] /\ q[1] \in S
    OBVIOUS
<1>2. \A i \in 1..1 : q[i] \in S
    BY <1>1
<1>3. /\ SubSeq(q, 1, 1) \in Seq(S)
      /\ Len(SubSeq(q, 1, 1)) = (IF 1 <= 1 THEN 1 - 1 + 1 ELSE 0)
      /\ \A i \in 1..1 - 1 + 1 : SubSeq(q, 1, 1)[i] = q[1 + i - 1]
    BY <1>2, SubSeqProperties
<1>4. <<q[1]>> \in Seq(S) /\ Len(<<q[1]>>) = 1
    BY <1>1
<1>5. Len(SubSeq(q, 1, 1)) = 1 /\ SubSeq(q, 1, 1)[1] = <<q[1]>>[1]
    BY <1>3
<1>6. \A i \in 1..Len(SubSeq(q, 1, 1)) : SubSeq(q, 1, 1)[i] = <<q[1]>>[i]
    BY <1>5
<1>7. SubSeq(q, 1, 1) = <<q[1]>>
    <2>1. SubSeq(q, 1, 1) \in Seq(S)
        BY <1>3
    <2> QED
        BY <2>1, <1>4, <1>5, <1>6, SeqEqual
<1> QED
    BY <1>1, <1>7

(* Transmission hands the first byte over, or none.                        *)
LEMMA SentInOrder ==
    ASSUME TypeOK, NEW state, send_next_byte(state), Ready \/ Due(state),
           writing' = writing
    PROVE  [Fifo!FifoNext]_<<queue, writing, out>>
<1>1. CASE queue # <<>> /\ Ready /\ SendData(state)
    <2>1. queue \in Seq(Values) /\ Len(queue) \in Nat \ {0}
        BY <1>1, HeadAndTail DEF TypeOK
    <2>2. SubSeq(queue, 1, 1) = <<Head(queue)>>
        BY <1>1, <2>1, FirstByte
    <2>3. SubSeq(queue, 1 + 1, Len(queue)) = Tail(queue)
        BY <1>1, <2>1, TailIsSubSeq
    <2>4. 1 \in 1..Len(queue)
        BY <2>1
    <2>5. out' = <<Head(queue)>> /\ queue' = Tail(queue)
        BY <1>1 DEF SendData
    <2>6. Fifo!Read
        BY <2>2, <2>3, <2>4, <2>5 DEF Fifo!Read
    <2> QED
        BY <2>6 DEF Fifo!FifoNext
<1>2. CASE queue' = queue /\ out' = out
    BY <1>2
<1> QED
    BY <1>1, <1>2 DEF send_next_byte, Due,
       SendFlowControl, SuspendTransmission, FinishTransmission

LEMMA LeftInOrder ==
    ASSUME NEW state, LeaveTransmitter(state), writing' = writing
    PROVE  [Fifo!FifoNext]_<<queue, writing, out>>
    BY DEF LeaveTransmitter

LEMMA FifoStep ==
    ASSUME TInv, Undisturbed = TRUE, [Next]_vars
    PROVE  [Fifo!FifoNext]_<<queue, writing, out>>
<1> USE DEF TInv
<1>1. ASSUME NEW v \in Values, NEW n \in Sizes, WriteBegin(v, n)
      PROVE  Fifo!FifoNext
    <2>1. /\ writing = <<>> /\ writing' = [i \in 1..Accepted(n) |-> v]
          /\ queue' = queue /\ out' = out
        BY <1>1 DEF WriteBegin, CallsInHand
    <2>2. /\ Accepted(n) \in 0..TxQueueSize
          /\ Len(queue) + Accepted(n) <= TxQueueSize
        <3>1. Len(queue) \in Nat /\ Len(queue) <= TxQueueSize
            BY <2>1, ConstantTypes DEF TypeOK
        <3> QED
            BY <3>1, ConstantTypes DEF Accepted, Space
    <2>3. /\ [i \in 1..Accepted(n) |-> v] \in Seq(Values)
        BY <2>2, Copies
    <2>4. writing' = writing \o [i \in 1..Accepted(n) |-> v]
        BY <2>1, <2>3
    <2>5. Len(queue) + Len(writing) + Accepted(n) <= TxQueueSize
        BY <2>1, <2>2 DEF TypeOK
    <2>6. Fifo!BeginWrite
        BY <2>1, <2>2, <2>4, <2>5 DEF Fifo!BeginWrite
    <2> QED
        BY <2>6 DEF Fifo!FifoNext
<1>2. CASE WriteCount
    BY <1>2 DEF WriteCount, Fifo!FifoNext, Fifo!Publish
<1>3. CASE FlushTx
    BY <1>3 DEF FlushTx, userVars, Fifo!FifoNext, Fifo!Flush
<1>4. CASE \/ \E n \in Sizes : Query(n) \/ Read(n)
           \/ Register \/ ReadTest \/ ReadLoad \/ ByteSent
    BY <1>4 DEF Query, Read, Register, ReadTest, ReadLoad, ByteSent, userVars
<1>5. CASE WriteStart
    <2>1. {TX_WAIT, TX_ACTIVE} \cap ucState = {} => Ready
        BY DEF TxSound, InactiveIsDone
    <2> QED
        BY <1>5, <2>1, SentInOrder, LeftInOrder DEF WriteStart
<1>6. CASE Pause \/ ReadStore \/ RxXoff
    BY <1>6, LeftInOrder DEF Pause, ReadStore, RxXoff, userVars
<1>7. CASE Resume
    <2>1. writing' = writing
        BY <1>7 DEF Resume, userVars
    <2>2. \/ LeaveTransmitter(ucState \ {TX_WAIT})
          \/ Ready /\ send_next_byte(ucState \ {TX_WAIT})
        BY <1>7 DEF Resume, TxSound, InactiveIsDone, TX_WAIT, TX_ACTIVE
    <2> QED
        BY <2>1, <2>2, SentInOrder, LeftInOrder
<1>8. CASE ReadSend
    <2>1. send_next_byte(ucState) /\ Due(ucState) /\ writing' = writing
        BY <1>8 DEF ReadSend, CallsInHand
    <2> QED
        BY <2>1, SentInOrder
<1>9. CASE FlushRx \/ RxByte
    <2>1. Due(ucState \cup {SEND_XON}) /\ Due(ucState \cup {SEND_XOFF})
        BY DEF Due
    <2>2. writing' = writing
        BY <1>9 DEF FlushRx, RxByte, userVars
    <2>3. \/ LeaveTransmitter(ucState)
          \/ send_next_byte(ucState \cup {SEND_XON})
          \/ send_next_byte(ucState \cup {SEND_XOFF})
        BY <1>9 DEF FlushRx, RxByte
    <2> QED
        BY <2>1, <2>2, <2>3, SentInOrder, LeftInOrder
<1>10. CASE TxInterrupt \/ RxXon
    <2>1. Ready /\ writing' = writing
        BY <1>10 DEF TxInterrupt, RxXon, userVars
    <2>2. \/ LeaveTransmitter(ucState)
          \/ send_next_byte(ucState)
          \/ send_next_byte(ucState \ {TX_WAIT})
        BY <1>10 DEF TxInterrupt, RxXon
    <2> QED
        BY <2>1, <2>2, SentInOrder, LeftInOrder
<1>11. CASE UNCHANGED vars
    BY <1>11 DEF vars, userVars
<1> QED
    BY <1>1, <1>2, <1>3, <1>4, <1>5, <1>6, <1>7, <1>8, <1>9, <1>10, <1>11
       DEF Next, Call

(* However writes, pauses, flow control and interrupts interleave, every   *)
(* byte accepted leaves the queue once, in order, and only for the UART,   *)
(* unless it is flushed.                                                   *)
THEOREM Refinement ==
    Undisturbed = TRUE => (Spec => ImplementsByteFifo)
<1> SUFFICES ASSUME Undisturbed = TRUE
             PROVE  Spec => ImplementsByteFifo
    OBVIOUS
<1>1. Init => TInv /\ Fifo!FifoInit
    BY SoundInit DEF Init, Fifo!FifoInit
<1>2. TInv /\ [Next]_vars => TInv'
    BY SoundStep
<1>3. TInv /\ [Next]_vars => [Fifo!FifoNext]_Fifo!fvars
    BY FifoStep DEF Fifo!fvars
<1> QED
    BY <1>1, <1>2, <1>3, PTL DEF Spec, ImplementsByteFifo, Fifo!FifoSpec

-----------------------------------------------------------------------------
(*                          What the peer is told                          *)

(* The marks leave room for what arrives while a character waits for the   *)
(* UART: XON is sent before the queue could be high again, and after XOFF  *)
(* has come due the queue takes what the peer still sends.                 *)
MarksApart ==
    /\ LOW_WATER_MARK + UART_DEPTH + HIGH_WATER_MARK <= RxQueueSize
    /\ 1 + UART_DEPTH + HIGH_WATER_MARK <= RxQueueSize
HighEnough == UART_DEPTH + 3 <= HIGH_WATER_MARK

FlowControl == {XON, XOFF}
Characters == Values \cup FlowControl

(* c is the last flow control character of q, at p; q has none.            *)
LastAt(q, c, p) ==
    /\ p \in 1..Len(q)
    /\ q[p] = c
    /\ \A k \in p+1..Len(q) : q[k] \notin FlowControl
Quiet(q) == \A k \in 1..Len(q) : q[k] \notin FlowControl

(* What the peer will have been told last once the UART is empty.          *)
WillStop(q, p) == (\E k \in 1..Len(q) : LastAt(q, XOFF, k)) \/ (Quiet(q) /\ p # "sending")
WillGo(q, p) == (\E k \in 1..Len(q) : LastAt(q, XON, k)) \/ (Quiet(q) /\ p = "sending")

(* CALL_READ has decided to send XON and has not returned.                 *)
Deciding == call \in {"load", "store", "send"}

DecisionHolds ==
    /\ Deciding => flow /\ ~RX_HIGHWATER /\ chars < LOW_WATER_MARK
    /\ call = "send" => SEND_XON \in ucState

OnlyWithFlow == RX_HIGHWATER => flow
BelowHigh == (flow /\ ~RX_HIGHWATER) => chars <= RxQueueSize - HIGH_WATER_MARK

(* With nothing due the characters in the UART agree with RX_HIGHWATER.    *)
ToldRight ==
    ~Deciding /\ ~Due(ucState) =>
       IF RX_HIGHWATER THEN WillStop(sending, peer) ELSE WillGo(sending, peer)

(* What is due agrees with it: XON goes first, and while it is due not     *)
(* enough bytes arrive to ask for XOFF.                                    *)
DueRight ==
    ~Deciding /\ Due(ucState) =>
       IF RX_HIGHWATER THEN SEND_XON \notin ucState
       ELSE /\ SEND_XON \in ucState
            /\ chars + Len(sending) + slack <= RxQueueSize - HIGH_WATER_MARK

Told == DecisionHolds /\ OnlyWithFlow /\ BelowHigh /\ ToldRight /\ DueRight

LEMMA MarkTypes ==
    /\ LOW_WATER_MARK \in Nat /\ HIGH_WATER_MARK \in Nat
    /\ RxQueueSize \in Nat /\ UART_DEPTH \in Nat /\ UART_DEPTH >= 1
    /\ \A v \in Values : v \notin FlowControl
    BY TtyAssumption DEF FlowControl

LEMMA UartTypes ==
    ASSUME TypeOK
    PROVE  /\ sending \in Seq(Characters)
           /\ Len(sending) \in Nat /\ Len(sending) <= UART_DEPTH
           /\ chars \in Nat /\ chars <= RxQueueSize
           /\ slack \in 0..1
           /\ RX_HIGHWATER \in BOOLEAN /\ flow \in BOOLEAN /\ txInt \in BOOLEAN
           /\ ucState \in SUBSET Flags
           /\ sending # <<>> <=> Len(sending) > 0
    BY MarkTypes DEF TypeOK, Characters, FlowControl, Flags

(* A flow control character that is appended is the last one.              *)
LEMMA FlowAppended ==
    ASSUME NEW q \in Seq(Characters), NEW c \in FlowControl
    PROVE  /\ LastAt(Append(q, c), c, Len(q) + 1)
           /\ Len(q) + 1 \in 1..Len(Append(q, c))
           /\ \A k, d : LastAt(Append(q, c), d, k) => k = Len(q) + 1
           /\ ~Quiet(Append(q, c))
<1>1. /\ Len(Append(q, c)) = Len(q) + 1 /\ Len(q) \in Nat
      /\ Append(q, c)[Len(q) + 1] = c
    BY DEF Characters
<1>2. Len(q) + 1 \in 1..Len(Append(q, c))
    BY <1>1
<1>3. LastAt(Append(q, c), c, Len(q) + 1)
    BY <1>1 DEF LastAt
<1>4. ASSUME NEW k, NEW d, LastAt(Append(q, c), d, k) PROVE k = Len(q) + 1
    <2>1. k \in 1..Len(q) + 1
        BY <1>1, <1>4 DEF LastAt
    <2>2. k < Len(q) + 1 => Len(q) + 1 \in k + 1..Len(Append(q, c))
        BY <1>1, <2>1
    <2> QED
        BY <1>1, <1>4, <2>1, <2>2 DEF LastAt
<1> QED
    BY <1>1, <1>2, <1>3, <1>4 DEF Quiet

(* Data that is appended does not matter.                                  *)
LEMMA DataAppended ==
    ASSUME NEW q \in Seq(Characters), NEW v \in Values
    PROVE  /\ Quiet(Append(q, v)) <=> Quiet(q)
           /\ \A k, c : c \in FlowControl =>
                 (LastAt(Append(q, v), c, k) <=> LastAt(q, c, k))
<1>1. /\ Len(Append(q, v)) = Len(q) + 1 /\ Len(q) \in Nat
      /\ Append(q, v)[Len(q) + 1] = v /\ v \notin FlowControl
      /\ \A k \in 1..Len(q) : Append(q, v)[k] = q[k]
    BY MarkTypes DEF Characters
<1>2. Quiet(Append(q, v)) <=> Quiet(q)
    BY <1>1 DEF Quiet
<1>3. ASSUME NEW k, NEW c \in FlowControl
      PROVE  LastAt(Append(q, v), c, k) <=> LastAt(q, c, k)
    <2>1. ASSUME LastAt(q, c, k) PROVE LastAt(Append(q, v), c, k)
        BY <1>1, <2>1 DEF LastAt
    <2>2. ASSUME LastAt(Append(q, v), c, k) PROVE LastAt(q, c, k)
        <3>1. k \in 1..Len(q)
            BY <1>1, <1>3, <2>2 DEF LastAt
        <3> QED
            BY <1>1, <2>2, <3>1 DEF LastAt
    <2> QED
        BY <2>1, <2>2
<1> QED
    BY <1>2, <1>3

(* Of what has been sent only the last character matters.                  *)
LEMMA FirstSent ==
    ASSUME NEW q \in Seq(Characters), q # <<>>
    PROVE  /\ Quiet(q) => Quiet(Tail(q)) /\ Head(q) \notin FlowControl
           /\ Quiet(Tail(q)) /\ Head(q) \notin FlowControl => Quiet(q)
           /\ Quiet(Tail(q)) => LastAt(q, Head(q), 1)
           /\ \A c : LastAt(q, c, 1) => Quiet(Tail(q)) /\ Head(q) = c
           /\ \A c, k : LastAt(Tail(q), c, k) => LastAt(q, c, k + 1)
           /\ \A c, k : LastAt(q, c, k) /\ k # 1 => LastAt(Tail(q), c, k - 1)
<1>1. /\ Len(q) \in Nat /\ Len(q) > 0 /\ Len(Tail(q)) = Len(q) - 1
      /\ Head(q) = q[1]
      /\ \A k \in 1..Len(q) - 1 : Tail(q)[k] = q[k + 1]
    BY DEF Characters
<1>2. Quiet(q) => Quiet(Tail(q)) /\ Head(q) \notin FlowControl
    BY <1>1 DEF Quiet
<1>3. ASSUME Quiet(Tail(q)), NEW k \in 2..Len(q) PROVE q[k] \notin FlowControl
    <2>1. k - 1 \in 1..Len(q) - 1 /\ (k - 1) + 1 = k
        BY <1>1
    <2> QED
        BY <1>1, <1>3, <2>1 DEF Quiet
<1>4. /\ Quiet(Tail(q)) => LastAt(q, Head(q), 1)
      /\ Quiet(Tail(q)) /\ Head(q) \notin FlowControl => Quiet(q)
    BY <1>1, <1>3 DEF Quiet, LastAt
<1>5. ASSUME NEW c, LastAt(q, c, 1) PROVE Quiet(Tail(q)) /\ Head(q) = c
    BY <1>1, <1>5 DEF Quiet, LastAt
<1>6. ASSUME NEW c, NEW k, LastAt(Tail(q), c, k) PROVE LastAt(q, c, k + 1)
    <2>1. k \in 1..Len(q) - 1 /\ q[k + 1] = c
        BY <1>1, <1>6 DEF LastAt
    <2>2. ASSUME NEW i \in (k + 1) + 1..Len(q) PROVE q[i] \notin FlowControl
        <3>1. i - 1 \in k + 1..Len(q) - 1 /\ i - 1 \in 1..Len(q) - 1 /\ (i - 1) + 1 = i
            BY <1>1, <2>1
        <3> QED
            BY <1>1, <1>6, <3>1 DEF LastAt
    <2> QED
        BY <1>1, <2>1, <2>2 DEF LastAt
<1>7. ASSUME NEW c, NEW k, LastAt(q, c, k), k # 1 PROVE LastAt(Tail(q), c, k - 1)
    <2>1. k \in 2..Len(q) /\ k - 1 \in 1..Len(q) - 1 /\ (k - 1) + 1 = k
        BY <1>1, <1>7 DEF LastAt
    <2>2. ASSUME NEW i \in (k - 1) + 1..Len(q) - 1 PROVE Tail(q)[i] \notin FlowControl
        <3>1. i \in 1..Len(q) - 1 /\ i + 1 \in k + 1..Len(q)
            BY <1>1, <2>1
        <3> QED
            BY <1>1, <1>7, <3>1 DEF LastAt
    <2> QED
        BY <1>1, <1>7, <2>1, <2>2 DEF LastAt
<1> QED
    BY <1>2, <1>4, <1>5, <1>6, <1>7

(* What transmission from the flags "state" does to what the peer is told. *)
FlowSent(state) ==
    /\ Due(state) /\ Ready
    /\ sending' = Append(sending, IF SEND_XON \in state THEN XON ELSE XOFF)
    /\ ~Due(ucState')
FlowRefused(state) ==
    /\ Due(state) /\ ~Ready
    /\ sending' = sending /\ ucState' = state
DataSent(state) ==
    /\ ~Due(state) /\ ~Due(ucState')
    /\ sending' = sending \/ \E v \in Values : sending' = Append(sending, v)

LEMMA TransmitTells ==
    ASSUME TypeOK, NEW state \in SUBSET Flags, send_next_byte(state),
           Ready \/ Due(state)
    PROVE  FlowSent(state) \/ FlowRefused(state) \/ DataSent(state)
<1>1. CASE Due(state) /\ SendFlowControl(state)
    <2>1. CASE Ready
        <3>1. /\ sending' = Append(sending, IF SEND_XON \in state THEN XON ELSE XOFF)
              /\ ucState' = (state \ {SEND_XON, SEND_XOFF}) \cup {TX_ACTIVE}
            BY <1>1, <2>1 DEF SendFlowControl, fnTxByte
        <3>2. ~Due(ucState')
            BY <3>1 DEF Due, SEND_XON, SEND_XOFF, TX_ACTIVE
        <3> QED
            BY <1>1, <2>1, <3>1, <3>2 DEF FlowSent
    <2>2. CASE ~Ready
        BY <1>1, <2>2 DEF SendFlowControl, fnTxByte, uart, FlowRefused
    <2> QED
        BY <2>1, <2>2
<1>2. CASE ~Due(state) /\ (SuspendTransmission(state) \/ FinishTransmission(state))
    <2>1. sending' = sending /\ (ucState' = state \/ ucState' = state \ {TX_ACTIVE})
        BY <1>2 DEF SuspendTransmission, FinishTransmission
    <2>2. ~Due(ucState')
        BY <1>2, <2>1 DEF Due
    <2> QED
        BY <1>2, <2>1, <2>2 DEF DataSent
<1>3. CASE ~Due(state) /\ queue # <<>> /\ SendData(state)
    <2>1. Ready /\ sending' = Append(sending, Head(queue)) /\ ucState' = state \cup {TX_ACTIVE}
        BY <1>3 DEF SendData, fnTxByte
    <2>2. Head(queue) \in Values
        BY <1>3, HeadAndTail DEF TypeOK
    <2>3. ~Due(ucState')
        BY <1>3, <2>1 DEF Due, SEND_XON, SEND_XOFF, TX_ACTIVE
    <2> QED
        BY <1>3, <2>1, <2>2, <2>3 DEF DataSent
<1> QED
    BY <1>1, <1>2, <1>3 DEF send_next_byte, Due

(* Data changes nothing of what the peer will have been told.              *)
LEMMA DataTellsNothing ==
    ASSUME TypeOK, NEW state, DataSent(state), NEW p
    PROVE  /\ WillStop(sending, p) => WillStop(sending', p)
           /\ WillGo(sending, p) => WillGo(sending', p)
           /\ Quiet(sending') <=> Quiet(sending)
           /\ \A k, c : c \in FlowControl =>
                 (LastAt(sending', c, k) <=> LastAt(sending, c, k))
<1>1. /\ Quiet(sending') <=> Quiet(sending)
      /\ \A k, c : c \in FlowControl => (LastAt(sending', c, k) <=> LastAt(sending, c, k))
    <2>1. sending \in Seq(Characters)
        BY UartTypes
    <2>2. CASE sending' = sending
        BY <2>2
    <2>3. ASSUME NEW v \in Values, sending' = Append(sending, v)
          PROVE  /\ Quiet(sending') <=> Quiet(sending)
                 /\ \A k, c : c \in FlowControl => (LastAt(sending', c, k) <=> LastAt(sending, c, k))
        BY <2>1, <2>3, DataAppended, Zenon
    <2> QED
        BY <2>2, <2>3 DEF DataSent
<1>2. XON \in FlowControl /\ XOFF \in FlowControl
    BY DEF FlowControl
<1>3. \A k, c : LastAt(sending', c, k) => k \in 1..Len(sending')
    BY DEF LastAt
<1> QED
    BY <1>1, <1>2, <1>3 DEF WillStop, WillGo

(* What a flow control character that goes out tells.                      *)
LEMMA FlowTells ==
    ASSUME TypeOK, NEW state, FlowSent(state), NEW p
    PROVE  /\ SEND_XON \in state => WillGo(sending', p)
           /\ SEND_XON \notin state => WillStop(sending', p)
           /\ ~Quiet(sending')
           /\ \A k, c : LastAt(sending', c, k) => k = Len(sending) + 1
<1>1. XON \in FlowControl /\ XOFF \in FlowControl
    BY DEF FlowControl
<1>2. PICK c \in FlowControl : /\ sending' = Append(sending, c)
                               /\ c = IF SEND_XON \in state THEN XON ELSE XOFF
    BY <1>1 DEF FlowSent
<1>3. /\ LastAt(sending', c, Len(sending) + 1)
      /\ Len(sending) + 1 \in 1..Len(sending')
      /\ \A k, d : LastAt(sending', d, k) => k = Len(sending) + 1
      /\ ~Quiet(sending')
    BY <1>2, UartTypes, FlowAppended
<1> QED
    BY <1>2, <1>3 DEF WillGo, WillStop

(* Waiting, a character is overtaken by no more bytes than the peer may    *)
(* send.                                                                   *)
LEMMA SlackSpent ==
    ASSUME TypeOK, NEW arrived \in BOOLEAN, Timing(arrived), arrived => InTurn
    PROVE  /\ slack' \in 0..1
           /\ sending' = sending => slack' <= slack
           /\ sending # <<>> => slack' <= slack
           /\ arrived /\ (sending # <<>> \/ (txInt /\ sending' = sending)) => slack = 1 /\ slack' = 0
<1>1. slack \in 0..1 /\ slack' \in 0..1
    BY Timed, UartTypes
<1> QED
    BY <1>1 DEF Timing, InTurn

(* A due character has an interrupt to come.                               *)
LEMMA DueInterrupts ==
    ASSUME TInv, Due(ucState), ~Deciding
    PROVE  txInt
    BY DEF TInv, TxSound, ActiveGoesOn, Deciding

-----------------------------------------------------------------------------

LEMMA ToldInit == MarksApart /\ Init => Told
<1> SUFFICES ASSUME MarksApart, Init PROVE Told
    OBVIOUS
<1>1. /\ ~RX_HIGHWATER /\ ~Deciding /\ ~Due(ucState) /\ chars = 0
      /\ Quiet(sending) /\ peer = "sending" /\ call = "idle"
    BY DEF Init, Deciding, Due, Quiet
<1>2. chars <= RxQueueSize - HIGH_WATER_MARK
    BY <1>1, MarkTypes DEF MarksApart
<1> QED
    BY <1>1, <1>2
    DEF Told, DecisionHolds, OnlyWithFlow, BelowHigh, ToldRight, DueRight, WillGo

(* Steps that neither transmit, nor receive, nor decide.                   *)
LEMMA ToldQuietly ==
    ASSUME TypeOK, Told,
           UNCHANGED <<flow, RX_HIGHWATER, sending, peer, slack>>,
           chars' \in Nat, chars' <= chars,
           SEND_XON \in ucState' <=> SEND_XON \in ucState,
           Due(ucState') <=> Due(ucState),
           Deciding' <=> Deciding, call' = "send" => call = "send"
    PROVE  Told'
<1>1. /\ chars \in Nat /\ slack \in Nat /\ Len(sending) \in Nat
      /\ LOW_WATER_MARK \in Nat /\ RxQueueSize \in Nat /\ HIGH_WATER_MARK \in Nat
    BY UartTypes, MarkTypes
<1>2. DecisionHolds' /\ OnlyWithFlow' /\ BelowHigh'
    BY <1>1 DEF Told, DecisionHolds, OnlyWithFlow, BelowHigh
<1>3. ToldRight'
    BY DEF Told, ToldRight
<1>4. DueRight'
    BY <1>1 DEF Told, DueRight
<1> QED
    BY <1>2, <1>3, <1>4 DEF Told

(* Steps that transmit or leave the transmitter alone, on behalf of others.*)
LEMMA ToldTransmitting ==
    ASSUME TInv, Told, ~Deciding, ~Deciding',
           UNCHANGED <<flow, RX_HIGHWATER, chars, peer>>,
           NEW state \in SUBSET Flags,
           SEND_XON \in state <=> SEND_XON \in ucState,
           Due(state) <=> Due(ucState),
           \/ send_next_byte(state) /\ (Ready \/ Due(state))
           \/ ucState' = state /\ sending' = sending,
           NEW arrived \in BOOLEAN, Timing(arrived), arrived => InTurn
    PROVE  Told'
<1>1. /\ chars \in Nat /\ slack \in 0..1 /\ slack' \in 0..1 /\ Len(sending) \in Nat
      /\ RxQueueSize \in Nat /\ HIGH_WATER_MARK \in Nat
    BY UartTypes, MarkTypes, SlackSpent DEF TInv
<1>2. \/ FlowSent(state) \/ DataSent(state)
      \/ Due(state) /\ sending' = sending /\ ucState' = state
    BY TransmitTells DEF TInv, FlowRefused, DataSent
<1>3. DecisionHolds' /\ OnlyWithFlow' /\ BelowHigh'
    BY DEF Told, DecisionHolds, OnlyWithFlow, BelowHigh, Deciding
<1>4. CASE FlowSent(state)
    <2>1. ~Due(ucState') /\ Due(ucState)
        BY <1>4 DEF FlowSent
    <2>2. IF RX_HIGHWATER THEN SEND_XON \notin state ELSE SEND_XON \in state
        BY <2>1 DEF Told, DueRight
    <2>3. IF RX_HIGHWATER THEN WillStop(sending', peer) ELSE WillGo(sending', peer)
        BY <1>4, <2>2, FlowTells DEF TInv
    <2> QED
        BY <1>3, <2>1, <2>3 DEF Told, ToldRight, DueRight
<1>5. CASE DataSent(state)
    <2>1. ~Due(ucState') /\ ~Due(ucState)
        BY <1>5 DEF DataSent
    <2>2. IF RX_HIGHWATER THEN WillStop(sending, peer) ELSE WillGo(sending, peer)
        BY <2>1 DEF Told, ToldRight
    <2>3. IF RX_HIGHWATER THEN WillStop(sending', peer) ELSE WillGo(sending', peer)
        BY <1>5, <2>2, DataTellsNothing DEF TInv
    <2> QED
        BY <1>3, <2>1, <2>3 DEF Told, ToldRight, DueRight
<1>6. CASE Due(state) /\ sending' = sending /\ ucState' = state
    <2>1. slack' <= slack
        BY <1>6, SlackSpent DEF TInv
    <2>2. Due(ucState') /\ Due(ucState)
        BY <1>6
    <2>3. DueRight'
        BY <1>1, <1>6, <2>1, <2>2 DEF Told, DueRight
    <2> QED
        BY <1>3, <2>2, <2>3 DEF Told, ToldRight
<1> QED
    BY <1>2, <1>4, <1>5, <1>6

(* A character reaches the peer.                                           *)
LEMMA ToldByteSent ==
    ASSUME TInv, Told, ByteSent
    PROVE  Told'
<1>1. /\ chars \in Nat /\ slack \in 0..1 /\ Len(sending) \in Nat
      /\ sending \in Seq(Characters) /\ sending # <<>>
      /\ RxQueueSize \in Nat /\ HIGH_WATER_MARK \in Nat
    BY UartTypes, MarkTypes DEF TInv, ByteSent
<1>2. /\ sending' = Tail(sending) /\ slack' = 1
      /\ UNCHANGED <<flow, RX_HIGHWATER, chars, ucState, call>>
      /\ peer' = CASE Head(sending) = XON  -> "sending"
                   [] Head(sending) = XOFF -> IF peer = "held" THEN "held" ELSE "stopping"
                   [] OTHER                -> peer
    BY DEF ByteSent, rxVars, userVars
<1>3. DecisionHolds' /\ OnlyWithFlow' /\ BelowHigh'
    BY <1>2 DEF Told, DecisionHolds, OnlyWithFlow, BelowHigh, Deciding
<1>4. /\ Head(sending) \notin FlowControl => peer' = peer
      /\ Head(sending) = XON => peer' = "sending"
      /\ Head(sending) = XOFF => peer' # "sending"
    <2>1. XON # XOFF
        BY DEF XON, XOFF
    <2> PICK h : h = Head(sending)
        OBVIOUS
    <2>2. peer' = CASE h = XON  -> "sending"
                    [] h = XOFF -> IF peer = "held" THEN "held" ELSE "stopping"
                    [] OTHER    -> peer
        BY <1>2
    <2>3. ASSUME h \notin FlowControl PROVE peer' = peer
        BY <2>2, <2>3 DEF FlowControl
    <2>4. ASSUME h = XON PROVE peer' = "sending"
        BY <2>1, <2>2, <2>4
    <2>5. ASSUME h = XOFF PROVE peer' = IF peer = "held" THEN "held" ELSE "stopping"
        BY <2>1, <2>2, <2>5
    <2> QED
        BY <2>3, <2>4, <2>5
<1>5. WillStop(sending, peer) => WillStop(sending', peer')
    <2>1. ASSUME NEW k \in 1..Len(sending), LastAt(sending, XOFF, k)
          PROVE  WillStop(sending', peer')
        <3>1. CASE k = 1
            <4>1. Quiet(sending') /\ Head(sending) = XOFF
                BY <1>1, <1>2, <2>1, <3>1, FirstSent
            <4> QED
                BY <1>4, <4>1 DEF WillStop
        <3>2. CASE k # 1
            <4>1. LastAt(sending', XOFF, k - 1)
                BY <1>1, <1>2, <2>1, <3>2, FirstSent
            <4> QED
                BY <4>1 DEF WillStop, LastAt
        <3> QED
            BY <3>1, <3>2
    <2>2. ASSUME Quiet(sending), peer # "sending" PROVE WillStop(sending', peer')
        BY <1>1, <1>2, <1>4, <2>2, FirstSent DEF WillStop
    <2> QED
        BY <2>1, <2>2 DEF WillStop
<1>6. WillGo(sending, peer) => WillGo(sending', peer')
    <2>1. ASSUME NEW k \in 1..Len(sending), LastAt(sending, XON, k)
          PROVE  WillGo(sending', peer')
        <3>1. CASE k = 1
            <4>1. Quiet(sending') /\ Head(sending) = XON
                BY <1>1, <1>2, <2>1, <3>1, FirstSent
            <4> QED
                BY <1>4, <4>1 DEF WillGo
        <3>2. CASE k # 1
            <4>1. LastAt(sending', XON, k - 1)
                BY <1>1, <1>2, <2>1, <3>2, FirstSent
            <4> QED
                BY <4>1 DEF WillGo, LastAt
        <3> QED
            BY <3>1, <3>2
    <2>2. ASSUME Quiet(sending), peer = "sending" PROVE WillGo(sending', peer')
        BY <1>1, <1>2, <1>4, <2>2, FirstSent DEF WillGo
    <2> QED
        BY <2>1, <2>2 DEF WillGo
<1>7. ToldRight'
    BY <1>2, <1>5, <1>6 DEF Told, ToldRight, Deciding
<1>8. DueRight'
    <2>1. Len(sending') = Len(sending) - 1
        BY <1>1, <1>2 DEF Characters
    <2>2. chars + Len(sending') + slack' <= chars + Len(sending) + slack
        BY <1>1, <1>2, <2>1
    <2>3. Len(sending') \in Nat /\ slack' \in Nat
        BY <1>1, <1>2, <2>1
    <2> QED
        BY <1>1, <1>2, <2>2, <2>3 DEF Told, DueRight, Deciding
<1> QED
    BY <1>3, <1>7, <1>8 DEF Told

(* CALL_READ on its way to tell the peer to go on.                         *)
LEMMA ToldDeciding ==
    ASSUME MarksApart, TInv, Told, ReadTest \/ ReadLoad \/ ReadStore
    PROVE  Told'
<1>1. /\ chars \in Nat /\ RxQueueSize \in Nat /\ HIGH_WATER_MARK \in Nat
      /\ LOW_WATER_MARK \in Nat /\ UART_DEPTH \in Nat
    BY UartTypes, MarkTypes DEF TInv
<1>2. CASE ReadTest /\ call' = "load"
    <2>1. flow' /\ ~RX_HIGHWATER' /\ chars' = chars /\ chars < LOW_WATER_MARK
        BY <1>2 DEF ReadTest
    <2>2. chars' <= RxQueueSize - HIGH_WATER_MARK
        BY <1>1, <2>1 DEF MarksApart
    <2> QED
        BY <1>2, <2>1, <2>2
        DEF Told, DecisionHolds, OnlyWithFlow, BelowHigh, ToldRight, DueRight, Deciding
<1>3. CASE ReadTest /\ call' # "load"
    <2>1. /\ UNCHANGED <<flow, RX_HIGHWATER, sending, peer, slack, chars, ucState>>
          /\ ~Deciding /\ ~Deciding' /\ call' = "idle"
        BY <1>3 DEF ReadTest, Deciding, uart, line
    <2> QED
        BY <1>1, <2>1, ToldQuietly DEF TInv
<1>4. CASE ReadLoad
    <2>1. /\ UNCHANGED <<flow, RX_HIGHWATER, chars>> /\ Deciding /\ Deciding' /\ call' = "store"
        BY <1>4 DEF ReadLoad, Deciding, rxVars
    <2> QED
        BY <2>1 DEF Told, DecisionHolds, OnlyWithFlow, BelowHigh, ToldRight, DueRight
<1>5. CASE ReadStore
    <2>1. /\ UNCHANGED <<flow, RX_HIGHWATER, chars>> /\ Deciding /\ Deciding'
          /\ SEND_XON \in ucState'
        BY <1>5 DEF ReadStore, LeaveTransmitter, Deciding, rxVars
    <2> QED
        BY <2>1 DEF Told, DecisionHolds, OnlyWithFlow, BelowHigh, ToldRight, DueRight
<1> QED
    BY <1>2, <1>3, <1>4, <1>5

(* XON goes out or is due, and the receive queue is nowhere near high.     *)
LEMMA ToldToGo ==
    ASSUME MarksApart, TInv, NEW state \in SUBSET Flags, SEND_XON \in state,
           send_next_byte(state), NoArrival,
           flow', ~RX_HIGHWATER', ~Deciding',
           chars' \in Nat, chars' = 0 \/ chars' < LOW_WATER_MARK
    PROVE  Told'
<1>1. /\ RxQueueSize \in Nat /\ HIGH_WATER_MARK \in Nat /\ LOW_WATER_MARK \in Nat
      /\ UART_DEPTH \in Nat /\ UART_DEPTH >= 1
      /\ Len(sending) \in Nat /\ Len(sending) <= UART_DEPTH
    BY UartTypes, MarkTypes DEF TInv
<1>2. slack' \in 0..1
    BY SlackSpent DEF TInv, NoArrival
<1>3. FlowSent(state) \/ FlowRefused(state)
    <2>1. Due(state)
        BY DEF Due
    <2> QED
        BY <2>1, TransmitTells DEF TInv, DataSent
<1>4. DecisionHolds' /\ OnlyWithFlow' /\ BelowHigh'
    <2>1. chars' <= RxQueueSize - HIGH_WATER_MARK
        BY <1>1 DEF MarksApart
    <2> QED
        BY <2>1 DEF DecisionHolds, OnlyWithFlow, BelowHigh, Deciding
<1>5. CASE FlowSent(state)
    <2>1. WillGo(sending', peer') /\ ~Due(ucState')
        BY <1>5, FlowTells DEF TInv, FlowSent
    <2> QED
        BY <1>4, <2>1 DEF Told, ToldRight, DueRight
<1>6. CASE FlowRefused(state)
    <2>1. ucState' = state /\ sending' = sending /\ Due(ucState')
        BY <1>6 DEF FlowRefused
    <2>2. chars' + Len(sending') + slack' <= RxQueueSize - HIGH_WATER_MARK
        <3> PICK n \in Nat : n = Len(sending)
            BY <1>1
        <3> PICK c \in Nat : c = chars'
            OBVIOUS
        <3> PICK t \in 0..1 : t = slack'
            BY <1>2
        <3>1. c + n + t <= RxQueueSize - HIGH_WATER_MARK
            BY <1>1 DEF MarksApart
        <3> QED
            BY <2>1, <3>1
    <2> QED
        BY <1>4, <2>1, <2>2 DEF Told, ToldRight, DueRight
<1> QED
    BY <1>3, <1>5, <1>6

(* A byte arrives: it may raise the queue above its mark.                  *)
LEMMA ToldRxByte ==
    ASSUME MarksApart, Undisturbed = TRUE, TInv, Told, RxByte
    PROVE  Told'
<1> DEFINE stop == flow /\ ~RX_HIGHWATER /\ High(chars')
           due == ucState \cup {SEND_XOFF}
<1>1. /\ chars \in Nat /\ slack \in 0..1 /\ Len(sending) \in Nat
      /\ RxQueueSize \in Nat /\ HIGH_WATER_MARK \in Nat
      /\ RX_HIGHWATER \in BOOLEAN /\ flow \in BOOLEAN
      /\ sending # <<>> <=> Len(sending) > 0
      /\ ucState \in SUBSET Flags
    BY UartTypes, MarkTypes DEF TInv
<1>2. /\ ~Deciding /\ ~Deciding' /\ flow' = flow /\ call' = call
      /\ RX_HIGHWATER' = (RX_HIGHWATER \/ stop)
      /\ chars' \in Nat /\ (chars' = chars \/ chars' = chars + 1)
      /\ peer' = IF peer = "stopping" THEN "held" ELSE peer
      /\ peer # "held" /\ InTurn /\ Timing(TRUE)
    <2>1. call \notin {"load", "store", "send"} /\ call' = call
        BY DEF RxByte, Interruptible, userVars
    <2>2. chars' \in Nat /\ (chars' = chars \/ chars' = chars + 1)
        BY <1>1 DEF RxByte
    <2>3. RX_HIGHWATER' = (RX_HIGHWATER \/ stop) /\ flow' = flow
        BY DEF RxByte
    <2>4. /\ peer' = IF peer = "stopping" THEN "held" ELSE peer
          /\ peer # "held" /\ InTurn /\ Timing(TRUE)
        BY DEF RxByte, PeerSends
    <2> QED
        BY <2>1, <2>2, <2>3, <2>4 DEF Deciding
<1>3. slack' \in 0..1
    BY <1>2, SlackSpent DEF TInv
<1>4. CASE ~stop
    <2>1. RX_HIGHWATER' = RX_HIGHWATER /\ UNCHANGED <<ucState, sending>>
        BY <1>1, <1>2, <1>4 DEF RxByte, LeaveTransmitter, uart
    <2>2. DecisionHolds' /\ OnlyWithFlow' /\ BelowHigh'
        <3>1. flow /\ ~RX_HIGHWATER => chars' <= RxQueueSize - HIGH_WATER_MARK
            BY <1>1, <1>2, <1>4 DEF High
        <3> QED
            BY <1>2, <2>1, <3>1 DEF Told, DecisionHolds, OnlyWithFlow, BelowHigh, Deciding
    <2>3. ToldRight'
        BY <1>2, <2>1 DEF Told, ToldRight, WillStop, WillGo
    <2>4. DueRight'
        <3>1. CASE Due(ucState)
            <4>1. slack = 1 /\ slack' = 0
                BY <1>2, <2>1, <3>1, DueInterrupts, SlackSpent DEF TInv
            <4>2. chars' + Len(sending') + slack' <= chars + Len(sending) + slack
                BY <1>1, <1>2, <2>1, <4>1
            <4>3. chars' + Len(sending') + slack' \in Nat /\ chars + Len(sending) + slack \in Nat
                BY <1>1, <1>2, <2>1, <4>1
            <4>4. ~RX_HIGHWATER => chars' + Len(sending') + slack' <= RxQueueSize - HIGH_WATER_MARK
                <5> SUFFICES ASSUME ~RX_HIGHWATER
                             PROVE  chars' + Len(sending') + slack' <= RxQueueSize - HIGH_WATER_MARK
                    OBVIOUS
                <5>1. chars + Len(sending) + slack <= RxQueueSize - HIGH_WATER_MARK
                    BY <1>2, <3>1 DEF Told, DueRight
                <5> PICK m \in Nat : m = chars + Len(sending) + slack
                    BY <4>3
                <5> PICK n \in Nat : n = chars' + Len(sending') + slack'
                    BY <4>3
                <5>2. n <= m /\ m <= RxQueueSize - HIGH_WATER_MARK
                    BY <4>2, <5>1
                <5>3. n <= RxQueueSize - HIGH_WATER_MARK
                    BY <1>1, <5>2
                <5> QED
                    BY <5>3, Zenon
            <4> QED
                BY <1>2, <2>1, <3>1, <4>4 DEF Told, DueRight
        <3>2. CASE ~Due(ucState)
            BY <2>1, <3>2 DEF DueRight
        <3> QED
            BY <3>1, <3>2
    <2> QED
        BY <2>2, <2>3, <2>4 DEF Told
<1>5. CASE stop
    <2>1. flow /\ ~RX_HIGHWATER /\ RX_HIGHWATER' /\ send_next_byte(due)
        BY <1>2, <1>5 DEF RxByte
    <2>2. due \in SUBSET Flags /\ Due(due)
        BY <1>1 DEF Flags, Due
    <2>3. ~Due(ucState)
        <3> SUFFICES ASSUME Due(ucState) PROVE FALSE
            OBVIOUS
        <3>1. chars + Len(sending) + slack <= RxQueueSize - HIGH_WATER_MARK
            BY <1>2, <2>1 DEF Told, DueRight
        <3>2. slack > 0
            BY <1>2, DueInterrupts DEF InTurn
        <3>3. chars' > RxQueueSize - HIGH_WATER_MARK
            BY <1>5 DEF High
        <3> QED
            BY <1>1, <1>2, <3>1, <3>2, <3>3
    <2>4. SEND_XON \notin due
        BY <2>3 DEF Due, SEND_XON, SEND_XOFF
    <2>5. FlowSent(due) \/ FlowRefused(due)
        <3> HIDE DEF due
        <3> QED
            BY <2>1, <2>2, TransmitTells DEF TInv, DataSent
    <2>6. DecisionHolds' /\ OnlyWithFlow' /\ BelowHigh'
        BY <1>2, <2>1 DEF DecisionHolds, OnlyWithFlow, BelowHigh, Deciding
    <2>7. CASE FlowSent(due)
        <3>1. WillStop(sending', peer') /\ ~Due(ucState')
            <4> HIDE DEF due
            <4> QED
                BY <2>4, <2>7, FlowTells DEF TInv, FlowSent
        <3> QED
            BY <2>1, <2>6, <3>1 DEF Told, ToldRight, DueRight
    <2>8. CASE FlowRefused(due)
        <3>1. Due(ucState') /\ SEND_XON \notin ucState'
            BY <2>2, <2>4, <2>8 DEF FlowRefused
        <3> QED
            BY <2>1, <2>6, <3>1 DEF Told, ToldRight, DueRight
    <2> QED
        BY <2>5, <2>7, <2>8
<1> QED
    BY <1>4, <1>5

(* Writes, pauses, the peer's flow control and transmit interrupts leave   *)
(* the flow control that is due as it is, and either transmit from those   *)
(* flags while the UART is ready or leave the transmitter alone.           *)
LEMMA StateTaken ==
    ASSUME TInv, Undisturbed = TRUE,
           WriteStart \/ Pause \/ Resume \/ TxInterrupt \/ RxXoff \/ RxXon
    PROVE  \E state \in SUBSET Flags :
              /\ SEND_XON \in state <=> SEND_XON \in ucState
              /\ Due(state) <=> Due(ucState)
              /\ \/ send_next_byte(state) /\ Ready
                 \/ ucState' = state /\ sending' = sending
<1> DEFINE paused == ucState \cup {TX_WAIT}
           resumed == ucState \ {TX_WAIT}
<1>1. ucState \in SUBSET Flags /\ paused \in SUBSET Flags /\ resumed \in SUBSET Flags
    <2>1. ucState \in SUBSET Flags
        BY UartTypes DEF TInv
    <2> QED
        BY <2>1 DEF Flags
<1>2. /\ SEND_XON \in paused <=> SEND_XON \in ucState
      /\ SEND_XON \in resumed <=> SEND_XON \in ucState
      /\ Due(paused) <=> Due(ucState)
      /\ Due(resumed) <=> Due(ucState)
    BY DEF Due, SEND_XON, SEND_XOFF, TX_WAIT
<1>3. \/ /\ Ready
         /\ send_next_byte(ucState) \/ send_next_byte(resumed)
      \/ /\ ucState' \in {ucState, paused, resumed}
         /\ sending' = sending
    <2>1. CASE WriteStart
        <3>1. {TX_WAIT, TX_ACTIVE} \cap ucState = {} => Ready
            BY DEF TInv, TxSound, InactiveIsDone
        <3> QED
            BY <2>1, <3>1 DEF WriteStart, LeaveTransmitter, uart
    <2>2. CASE Pause \/ RxXoff
        BY <2>2 DEF Pause, RxXoff, LeaveTransmitter, uart
    <2>3. CASE Resume
        <3>1. TX_ACTIVE \notin resumed => Ready
            BY DEF TInv, TxSound, InactiveIsDone, TX_WAIT, TX_ACTIVE
        <3> QED
            BY <2>3, <3>1 DEF Resume, LeaveTransmitter, uart
    <2>4. CASE TxInterrupt
        BY <2>4 DEF TxInterrupt
    <2>5. CASE RxXon
        BY <2>5 DEF RxXon, LeaveTransmitter, uart
    <2> QED
        BY <2>1, <2>2, <2>3, <2>4, <2>5
<1> HIDE DEF paused, resumed
<1> QED
    BY <1>1, <1>2, <1>3

LEMMA ToldStep ==
    ASSUME MarksApart, Undisturbed = TRUE,
           TInv, Told, [Next]_vars
    PROVE  Told'
<1>1. /\ ucState \in SUBSET Flags /\ chars \in Nat /\ RX_HIGHWATER \in BOOLEAN
      /\ flow \in BOOLEAN /\ Sizes \subseteq Nat
    BY UartTypes, TtyAssumption DEF TInv
<1>2. ASSUME Interruptible PROVE ~Deciding
    BY <1>2 DEF Interruptible, Deciding
<1>3. CASE \/ \E v \in Values, n \in Sizes : WriteBegin(v, n)
           \/ \E n \in Sizes : Query(n)
           \/ WriteCount \/ Register \/ FlushTx \/ UNCHANGED vars
    <2>1. /\ UNCHANGED <<flow, RX_HIGHWATER, sending, peer, slack, chars, ucState>>
          /\ Deciding' <=> Deciding
          /\ call' = "send" => call = "send"
        BY <1>3
        DEF WriteBegin, Query, WriteCount, Register, FlushTx, vars, Deciding,
            rxVars, userVars, uart, line
    <2> QED
        BY <1>1, <2>1, ToldQuietly DEF TInv
<1>4. ASSUME NEW n \in Sizes, Read(n) PROVE Told'
    <2>1. /\ UNCHANGED <<flow, RX_HIGHWATER, sending, peer, slack, ucState>>
          /\ call = "idle" /\ call' = "got"
          /\ ~Deciding /\ ~Deciding'
        BY <1>4 DEF Read, Deciding, uart, line
    <2>2. chars' \in Nat /\ chars' <= chars
        BY <1>1, <1>4 DEF Read
    <2> QED
        BY <2>1, <2>2, ToldQuietly DEF TInv
<1>5. CASE ReadTest \/ ReadLoad \/ ReadStore
    BY <1>5, ToldDeciding
<1>6. CASE ReadSend
    <2>1. /\ SEND_XON \in ucState /\ flow /\ ~RX_HIGHWATER /\ chars < LOW_WATER_MARK
        BY <1>6 DEF ReadSend, Told, DecisionHolds, Deciding
    <2>2. /\ send_next_byte(ucState) /\ NoArrival
          /\ flow' /\ ~RX_HIGHWATER' /\ chars' = chars /\ ~Deciding'
        BY <1>6, <2>1 DEF ReadSend, Deciding, rxVars
    <2> QED
        BY <1>1, <2>1, <2>2, ToldToGo
<1>7. CASE FlushRx
    <2>1. /\ NoArrival /\ chars' = 0 /\ ~RX_HIGHWATER' /\ flow' = flow
          /\ ~Deciding /\ ~Deciding' /\ call' = call
        BY <1>7 DEF FlushRx, Deciding, userVars
    <2>2. CASE RX_HIGHWATER /\ flow
        <3> DEFINE state == ucState \cup {SEND_XON}
        <3>1. state \in SUBSET Flags /\ SEND_XON \in state /\ send_next_byte(state) /\ flow'
            BY <1>1, <1>7, <2>1, <2>2 DEF FlushRx, Flags
        <3> HIDE DEF state
        <3> QED
            BY <2>1, <3>1, ToldToGo
    <2>3. CASE ~(RX_HIGHWATER /\ flow)
        <3>1. ~RX_HIGHWATER
            BY <2>3 DEF Told, OnlyWithFlow
        <3>2. RX_HIGHWATER' = RX_HIGHWATER
            BY <1>1, <1>7, <3>1 DEF FlushRx
        <3>3. UNCHANGED <<ucState, sending, peer>> /\ slack' = slack
            BY <1>7, <2>3 DEF FlushRx, LeaveTransmitter, NoArrival, Timing, uart
        <3> QED
            BY <1>1, <2>1, <3>2, <3>3, ToldQuietly DEF TInv
    <2> QED
        BY <2>2, <2>3
<1>8. CASE ByteSent
    BY <1>8, ToldByteSent
<1>9. CASE RxByte
    BY <1>9, ToldRxByte
<1>10. CASE WriteStart \/ Pause \/ Resume \/ TxInterrupt \/ RxXoff \/ RxXon
    <2>1. PICK state \in SUBSET Flags :
             /\ SEND_XON \in state <=> SEND_XON \in ucState
             /\ Due(state) <=> Due(ucState)
             /\ \/ send_next_byte(state) /\ Ready
                \/ ucState' = state /\ sending' = sending
        BY <1>10, StateTaken
    <2>2. /\ UNCHANGED <<flow, RX_HIGHWATER, chars>>
          /\ ~Deciding /\ ~Deciding'
        BY <1>2, <1>10
        DEF WriteStart, Pause, Resume, TxInterrupt, RxXoff, RxXon, Deciding,
            rxVars, userVars
    <2>3. CASE Pause
        <3>1. UNCHANGED <<sending, peer, slack>> /\ call' = call
            BY <2>3 DEF Pause, LeaveTransmitter, userVars, uart, line
        <3>2. ucState' = ucState \cup {TX_WAIT}
            BY <2>3 DEF Pause, LeaveTransmitter
        <3>3. (SEND_XON \in ucState' <=> SEND_XON \in ucState) /\ (Due(ucState') <=> Due(ucState))
            BY <3>2 DEF Due, SEND_XON, SEND_XOFF, TX_WAIT
        <3> QED
            BY <1>1, <2>2, <3>1, <3>3, ToldQuietly DEF TInv
    <2>4. CASE WriteStart \/ Resume \/ TxInterrupt
        <3>1. peer' = peer /\ Timing(FALSE)
            BY <2>4 DEF WriteStart, Resume, TxInterrupt, NoArrival
        <3> QED
            BY <2>1, <2>2, <3>1, ToldTransmitting
    <2>5. CASE RxXoff \/ RxXon
        <3>1. peer' = peer /\ Timing(TRUE) /\ InTurn
            BY <2>5 DEF RxXoff, RxXon
        <3> QED
            BY <2>1, <2>2, <3>1, ToldTransmitting
    <2> QED
        BY <1>10, <2>3, <2>4, <2>5
<1> QED
    BY <1>3, <1>4, <1>5, <1>6, <1>7, <1>8, <1>9, <1>10 DEF Next, Call

(* If the marks are apart, and nothing comes between the decision and the  *)
(* deed of CALL_READ, what the peer was told last agrees with the state of *)
(* the receiver, whatever is refused by the UART and sent later.           *)
THEOREM PeerTold ==
    Undisturbed = TRUE /\ MarksApart
    => (Spec => []PeerIsTold)
<1> SUFFICES ASSUME Undisturbed = TRUE, MarksApart
             PROVE  Spec => []PeerIsTold
    OBVIOUS
<1>1. Init => TInv /\ Told
    BY SoundInit, ToldInit
<1>2. TInv /\ Told /\ [Next]_vars => TInv' /\ Told'
    BY SoundStep, ToldStep
<1>3. TInv /\ Told => PeerIsTold
    <2> SUFFICES ASSUME TInv, Told, ~Deciding, ~Due(ucState),
                        {XON, XOFF} \cap ToSet(sending) = {}
                 PROVE  RX_HIGHWATER = (peer # "sending")
        BY DEF PeerIsTold, Deciding, Due
    <2>1. Quiet(sending)
        <3>1. \A k \in 1..Len(sending) : sending[k] \in ToSet(sending)
            BY DEF ToSet
        <3> QED
            BY <3>1 DEF Quiet, FlowControl
    <2>2. \A c \in FlowControl : \A k : ~LastAt(sending, c, k)
        BY <2>1 DEF Quiet, LastAt
    <2>3. IF RX_HIGHWATER THEN peer # "sending" ELSE peer = "sending"
        BY <2>2 DEF Told, ToldRight, WillStop, WillGo, FlowControl
    <2>4. RX_HIGHWATER \in BOOLEAN
        BY DEF TInv, TypeOK
    <2> QED
        BY <2>3, <2>4
<1> QED
    BY <1>1, <1>2, <1>3, PTL DEF Spec

-----------------------------------------------------------------------------
(*                      Room for what the peer sends                       *)

(* Whether c bytes, n more and the t that come first fit into the queue.   *)
Fits(c, n, t) == c + n + t <= RxQueueSize

(* While XOFF is due, is in the UART, or has reached the peer, the queue   *)
(* has room for all that arrives before the peer is held.                  *)
RoomWhileDue == Due(ucState) => Fits(chars, Len(sending) + 2, slack)
RoomWhileSent ==
    ~Due(ucState) =>
       \A p \in 1..Len(sending) : LastAt(sending, XOFF, p) => Fits(chars, p, slack)
RoomWhileStopping ==
    ~Due(ucState) /\ Quiet(sending) /\ peer = "stopping" => Fits(chars, 1, 0)

RoomLeft == RX_HIGHWATER => RoomWhileDue /\ RoomWhileSent /\ RoomWhileStopping

(* What fits still fits if there is no more of anything, if a byte has     *)
(* come in its turn, or if a character has gone and a byte may come.       *)
LEMMA FitsStill ==
    ASSUME NEW c \in Nat, NEW n \in Nat, NEW t \in Nat, Fits(c, n, t),
           NEW d \in Nat, NEW m \in Nat, NEW u \in Nat,
           \/ d <= c /\ m <= n /\ u <= t
           \/ d <= c + 1 /\ m <= n /\ u + 1 <= t
           \/ d <= c /\ m + 1 <= n /\ u <= t + 1
    PROVE  Fits(d, m, u)
    BY MarkTypes DEF Fits

(* What comes first after the high mark is reached fits.                   *)
LEMMA FitsAtFirst ==
    ASSUME HighEnough, NEW c \in Nat, NEW n \in Nat, NEW t \in Nat,
           c + HIGH_WATER_MARK <= RxQueueSize + 1, n + t <= UART_DEPTH + 2
    PROVE  Fits(c, n, t)
    BY MarkTypes DEF Fits, HighEnough

(* Steps that neither transmit nor receive.                                *)
LEMMA RoomQuietly ==
    ASSUME TypeOK, RoomLeft, RX_HIGHWATER' => RX_HIGHWATER,
           UNCHANGED <<sending, peer, slack>>,
           chars' \in Nat, chars' <= chars,
           Due(ucState') <=> Due(ucState)
    PROVE  RoomLeft'
<1> SUFFICES ASSUME RX_HIGHWATER' PROVE RoomWhileDue' /\ RoomWhileSent' /\ RoomWhileStopping'
    BY DEF RoomLeft
<1>1. /\ chars \in Nat /\ slack \in Nat /\ Len(sending) \in Nat /\ RxQueueSize \in Nat
    BY UartTypes, MarkTypes
<1>2. RoomWhileDue /\ RoomWhileSent /\ RoomWhileStopping
    BY DEF RoomLeft
<1>3. ASSUME NEW n \in Nat, NEW t \in Nat, Fits(chars, n, t) PROVE Fits(chars', n, t)
    BY <1>1, <1>3, FitsStill
<1>4. RoomWhileDue' /\ RoomWhileStopping'
    BY <1>1, <1>2, <1>3 DEF RoomWhileDue, RoomWhileStopping
<1>5. RoomWhileSent'
    BY <1>1, <1>2, <1>3 DEF RoomWhileSent
<1> QED
    BY <1>4, <1>5

(* Steps that transmit or leave the transmitter alone, on behalf of others.*)
LEMMA RoomTransmitting ==
    ASSUME TInv, Told, RoomLeft, ~Deciding,
           UNCHANGED <<RX_HIGHWATER, chars, peer>>,
           NEW state \in SUBSET Flags,
           SEND_XON \in state <=> SEND_XON \in ucState,
           Due(state) <=> Due(ucState),
           \/ send_next_byte(state) /\ (Ready \/ Due(state))
           \/ ucState' = state /\ sending' = sending,
           NEW arrived \in BOOLEAN, Timing(arrived), arrived => InTurn
    PROVE  RoomLeft'
<1> SUFFICES ASSUME RX_HIGHWATER' PROVE RoomWhileDue' /\ RoomWhileSent' /\ RoomWhileStopping'
    BY DEF RoomLeft
<1>1. /\ chars \in Nat /\ slack \in 0..1 /\ slack' \in 0..1 /\ Len(sending) \in Nat
      /\ RxQueueSize \in Nat /\ sending # <<>> <=> Len(sending) > 0
    BY UartTypes, MarkTypes, SlackSpent DEF TInv
<1>2. \/ FlowSent(state) \/ DataSent(state)
      \/ sending' = sending /\ ucState' = state
    BY TransmitTells DEF TInv, FlowRefused, DataSent
<1>3. RX_HIGHWATER /\ RoomWhileDue /\ RoomWhileSent /\ RoomWhileStopping
    BY DEF RoomLeft
<1>4. CASE FlowSent(state)
    <2>1. ~Due(ucState') /\ Due(ucState)
        BY <1>4 DEF FlowSent
    <2>2. /\ ~Quiet(sending')
          /\ \A k, c : LastAt(sending', c, k) => k = Len(sending) + 1
        BY <1>4, FlowTells DEF TInv
    <2>3. Fits(chars', Len(sending) + 1, slack')
        <3>1. Fits(chars, Len(sending) + 2, slack)
            BY <1>3, <2>1 DEF RoomWhileDue
        <3>2. /\ chars' \in Nat /\ Len(sending) + 1 \in Nat /\ Len(sending) + 2 \in Nat
              /\ slack \in Nat /\ slack' \in Nat /\ chars' <= chars
              /\ (Len(sending) + 1) + 1 <= Len(sending) + 2 /\ slack' <= slack + 1
            BY <1>1
        <3> QED
            BY <1>1, <3>1, <3>2, FitsStill
    <2>4. RoomWhileSent'
        <3> SUFFICES ASSUME NEW p, LastAt(sending', XOFF, p)
                     PROVE  Fits(chars', p, slack')
            BY DEF RoomWhileSent
        <3>1. p = Len(sending) + 1
            BY <2>2
        <3> QED
            BY <2>3, <3>1
    <2> QED
        BY <2>1, <2>2, <2>4 DEF RoomWhileDue, RoomWhileStopping
<1>5. CASE DataSent(state)
    <2>1. ~Due(ucState') /\ ~Due(ucState)
        BY <1>5 DEF DataSent
    <2>2. /\ Quiet(sending') <=> Quiet(sending)
          /\ \A k : LastAt(sending', XOFF, k) => LastAt(sending, XOFF, k)
        BY <1>5, DataTellsNothing DEF TInv, FlowControl
    <2>3. RoomWhileSent'
        <3> SUFFICES ASSUME NEW p, LastAt(sending', XOFF, p)
                     PROVE  Fits(chars', p, slack')
            BY DEF RoomWhileSent
        <3>1. LastAt(sending, XOFF, p) /\ p \in 1..Len(sending)
            BY <2>2 DEF LastAt
        <3>2. slack' <= slack
            BY <1>1, <3>1, SlackSpent DEF TInv
        <3>3. Fits(chars, p, slack)
            BY <1>3, <2>1, <3>1 DEF RoomWhileSent
        <3>4. /\ p \in Nat /\ p <= p /\ slack \in Nat /\ slack' \in Nat
              /\ chars' \in Nat /\ chars' <= chars
            BY <1>1, <3>1
        <3> QED
            BY <1>1, <3>2, <3>3, <3>4, FitsStill
    <2>4. RoomWhileDue' /\ RoomWhileStopping'
        BY <1>3, <2>1, <2>2 DEF RoomWhileDue, RoomWhileStopping
    <2> QED
        BY <2>3, <2>4
<1>6. CASE sending' = sending /\ ucState' = state
    <2>1. slack' <= slack
        BY <1>6, SlackSpent DEF TInv
    <2>2. Due(ucState') <=> Due(ucState)
        BY <1>6
    <2>3. ASSUME NEW n \in Nat, Fits(chars, n, slack) PROVE Fits(chars', n, slack')
        <3>1. /\ n <= n /\ slack \in Nat /\ slack' \in Nat
              /\ chars' \in Nat /\ chars' <= chars
            BY <1>1
        <3> QED
            BY <1>1, <2>1, <2>3, <3>1, FitsStill
    <2>4. RoomWhileDue' /\ RoomWhileStopping'
        BY <1>1, <1>3, <1>6, <2>2, <2>3 DEF RoomWhileDue, RoomWhileStopping
    <2>5. RoomWhileSent'
        BY <1>1, <1>3, <1>6, <2>2, <2>3 DEF RoomWhileSent
    <2> QED
        BY <2>4, <2>5
<1> QED
    BY <1>2, <1>4, <1>5, <1>6

(* A character reaches the peer, which may send one byte more.             *)
LEMMA RoomByteSent ==
    ASSUME TInv, RoomLeft, ByteSent
    PROVE  RoomLeft'
<1> SUFFICES ASSUME RX_HIGHWATER' PROVE RoomWhileDue' /\ RoomWhileSent' /\ RoomWhileStopping'
    BY DEF RoomLeft
<1>1. /\ chars \in Nat /\ slack \in 0..1 /\ Len(sending) \in Nat
      /\ sending \in Seq(Characters) /\ sending # <<>> /\ RxQueueSize \in Nat
    BY UartTypes, MarkTypes DEF TInv, ByteSent
<1>2. /\ sending' = Tail(sending) /\ slack' = 1 /\ chars' = chars /\ ucState' = ucState
      /\ RX_HIGHWATER
      /\ peer' = CASE Head(sending) = XON  -> "sending"
                   [] Head(sending) = XOFF -> IF peer = "held" THEN "held" ELSE "stopping"
                   [] OTHER                -> peer
    BY DEF ByteSent, rxVars
<1>3. RoomWhileDue /\ RoomWhileSent /\ RoomWhileStopping
    BY <1>2 DEF RoomLeft
<1>4. Len(sending') = Len(sending) - 1
    BY <1>1, <1>2 DEF Characters
<1>5. RoomWhileDue'
    <2> SUFFICES ASSUME Due(ucState) PROVE Fits(chars', Len(sending') + 2, slack')
        BY <1>2 DEF RoomWhileDue
    <2>1. Fits(chars, Len(sending) + 2, slack)
        BY <1>3 DEF RoomWhileDue
    <2>2. /\ Len(sending) + 2 \in Nat /\ Len(sending') + 2 \in Nat
          /\ (Len(sending') + 2) + 1 <= Len(sending) + 2
        BY <1>1, <1>4
    <2>3. chars' \in Nat /\ chars' <= chars /\ slack \in Nat /\ slack' \in Nat /\ slack' <= slack + 1
        BY <1>1, <1>2
    <2> QED
        BY <1>1, <2>1, <2>2, <2>3, FitsStill
<1>6. RoomWhileSent'
    <2> SUFFICES ASSUME ~Due(ucState), NEW p \in 1..Len(sending'), LastAt(sending', XOFF, p)
                 PROVE  Fits(chars', p, slack')
        BY <1>2 DEF RoomWhileSent
    <2>1. LastAt(sending, XOFF, p + 1)
        BY <1>1, <1>2, FirstSent
    <2>2. p \in Nat /\ p + 1 \in Nat /\ p + 1 \in 1..Len(sending) /\ p + 1 <= p + 1
        BY <1>1, <1>4
    <2>3. Fits(chars, p + 1, slack)
        BY <1>3, <2>1, <2>2 DEF RoomWhileSent
    <2>4. chars' \in Nat /\ chars' <= chars /\ slack \in Nat /\ slack' \in Nat /\ slack' <= slack + 1
        BY <1>1, <1>2
    <2> QED
        BY <1>1, <2>2, <2>3, <2>4, FitsStill
<1>7. RoomWhileStopping'
    <2> SUFFICES ASSUME ~Due(ucState), Quiet(sending'), peer' = "stopping"
                 PROVE  Fits(chars, 1, 0)
        BY <1>2 DEF RoomWhileStopping
    <2>1. CASE Head(sending) = XOFF
        <3>1. LastAt(sending, XOFF, 1) /\ 1 \in 1..Len(sending)
            BY <1>1, <1>2, <2>1, FirstSent DEF LastAt
        <3>2. Fits(chars, 1, slack)
            BY <1>3, <3>1 DEF RoomWhileSent
        <3>3. slack \in Nat /\ 0 <= slack /\ chars <= chars
            BY <1>1
        <3> QED
            BY <1>1, <3>2, <3>3, FitsStill
    <2>2. CASE Head(sending) # XOFF
        <3> PICK h : h = Head(sending)
            OBVIOUS
        <3>1. h # XON /\ peer' = peer
            BY <1>2, <2>2
        <3>2. Quiet(sending)
            BY <1>1, <1>2, <2>2, <3>1, FirstSent DEF FlowControl
        <3> QED
            BY <1>3, <3>1, <3>2 DEF RoomWhileStopping
    <2> QED
        BY <2>1, <2>2
<1> QED
    BY <1>5, <1>6, <1>7

(* A byte arrives.  XOFF goes into the UART behind at most UART_DEPTH - 1  *)
(* characters, or waits for the interrupt that follows at most UART_DEPTH. *)
LEMMA RoomRxByte ==
    ASSUME MarksApart, HighEnough, Undisturbed = TRUE, TInv, Told, RoomLeft, RxByte
    PROVE  RoomLeft'
<1> DEFINE stop == flow /\ ~RX_HIGHWATER /\ High(chars')
           due == ucState \cup {SEND_XOFF}
<1> SUFFICES ASSUME RX_HIGHWATER' PROVE RoomWhileDue' /\ RoomWhileSent' /\ RoomWhileStopping'
    BY DEF RoomLeft
<1>1. /\ chars \in Nat /\ slack \in 0..1 /\ Len(sending) \in Nat
      /\ Len(sending) <= UART_DEPTH /\ UART_DEPTH \in Nat /\ UART_DEPTH >= 1
      /\ RxQueueSize \in Nat /\ HIGH_WATER_MARK \in Nat
      /\ RX_HIGHWATER \in BOOLEAN /\ flow \in BOOLEAN
      /\ sending # <<>> <=> Len(sending) > 0
      /\ ucState \in SUBSET Flags
    BY UartTypes, MarkTypes DEF TInv
<1>2. ~Deciding
    BY DEF RxByte, Interruptible, Deciding
<1>3. chars' \in Nat /\ chars' <= chars + 1
    BY <1>1 DEF RxByte
<1>4. /\ peer' # "stopping" /\ InTurn /\ Timing(TRUE)
      /\ RX_HIGHWATER \/ stop
    BY DEF RxByte, PeerSends
<1>5. slack' \in 0..1
    BY <1>4, SlackSpent DEF TInv
<1>6. RoomWhileStopping'
    BY <1>4 DEF RoomWhileStopping
<1>7. ASSUME NEW n \in Nat, Fits(chars, n, slack), slack = 1, slack' = 0
       PROVE  Fits(chars', n, slack')
    <2>1. n <= n /\ slack \in Nat /\ slack' \in Nat /\ slack' + 1 <= slack
        BY <1>7
    <2> QED
        BY <1>1, <1>3, <1>7, <2>1, FitsStill
<1>8. CASE RX_HIGHWATER
    <2>1. UNCHANGED <<ucState, sending>>
        BY <1>8 DEF RxByte, LeaveTransmitter, uart
    <2>2. RoomWhileDue /\ RoomWhileSent
        BY <1>8 DEF RoomLeft
    <2>3. RoomWhileDue'
        <3> SUFFICES ASSUME Due(ucState)
                     PROVE  Fits(chars', Len(sending) + 2, slack')
            BY <2>1 DEF RoomWhileDue
        <3>1. slack = 1 /\ slack' = 0
            BY <1>2, <1>4, <2>1, DueInterrupts, SlackSpent DEF TInv
        <3>2. Fits(chars, Len(sending) + 2, slack)
            BY <2>2 DEF RoomWhileDue
        <3> QED
            BY <1>1, <1>7, <3>1, <3>2
    <2>4. RoomWhileSent'
        <3> SUFFICES ASSUME ~Due(ucState), NEW p \in 1..Len(sending), LastAt(sending, XOFF, p)
                     PROVE  Fits(chars', p, slack')
            BY <2>1 DEF RoomWhileSent
        <3>1. slack = 1 /\ slack' = 0
            <4>1. sending # <<>>
                BY <1>1
            <4> QED
                BY <1>4, <4>1, SlackSpent DEF TInv
        <3>2. Fits(chars, p, slack)
            BY <2>2 DEF RoomWhileSent
        <3> QED
            BY <1>7, <3>1, <3>2
    <2> QED
        BY <1>6, <2>3, <2>4
<1>9. CASE ~RX_HIGHWATER
    <2>1. stop /\ send_next_byte(due)
        BY <1>4, <1>9 DEF RxByte
    <2>2. due \in SUBSET Flags /\ Due(due)
        BY <1>1 DEF Flags, Due
    <2>3. chars' + HIGH_WATER_MARK <= RxQueueSize + 1
        <3>1. chars <= RxQueueSize - HIGH_WATER_MARK
            BY <1>9, <2>1 DEF Told, BelowHigh
        <3>2. ASSUME NEW b \in Nat, NEW c \in Nat,
                     c <= b + 1, b <= RxQueueSize - HIGH_WATER_MARK
              PROVE  c + HIGH_WATER_MARK <= RxQueueSize + 1
            BY <3>2, MarkTypes
        <3> QED
            BY <1>1, <1>3, <3>1, <3>2, Zenon
    <2>4. CASE FlowSent(due)
        <3>1. /\ ~Due(ucState') /\ Len(sending) < UART_DEPTH
              /\ \A k, c : LastAt(sending', c, k) => k = Len(sending) + 1
            <4> HIDE DEF due
            <4> QED
                BY <2>2, <2>4, FlowTells DEF TInv, FlowSent, Ready
        <3>2. Fits(chars', Len(sending) + 1, slack')
            <4> PICK n \in Nat : n = Len(sending)
                BY <1>1
            <4> PICK t \in 0..1 : t = slack'
                BY <1>5
            <4>1. n + 1 \in Nat /\ t \in Nat /\ (n + 1) + t <= UART_DEPTH + 2
                BY <1>1, <3>1
            <4>2. Fits(chars', n + 1, t)
                BY <1>3, <2>3, <4>1, FitsAtFirst, Zenon
            <4> QED
                BY <4>2, Zenon
        <3>3. RoomWhileSent'
            <4> SUFFICES ASSUME NEW p, LastAt(sending', XOFF, p)
                         PROVE  Fits(chars', p, slack')
                BY DEF RoomWhileSent
            <4>1. p = Len(sending) + 1
                BY <3>1
            <4> QED
                BY <3>2, <4>1
        <3> QED
            BY <1>6, <3>1, <3>3 DEF RoomWhileDue
    <2>5. CASE FlowRefused(due)
        <3>1. sending' = sending /\ Due(ucState') /\ sending # <<>>
            BY <1>1, <2>2, <2>5 DEF FlowRefused, Ready
        <3>2. slack' = 0
            BY <1>4, <3>1, SlackSpent DEF TInv
        <3>3. Fits(chars', Len(sending) + 2, slack')
            <4>1. Len(sending) + 2 \in Nat /\ slack' \in Nat
                  /\ Len(sending) + 2 + slack' <= UART_DEPTH + 2
                BY <1>1, <3>2
            <4> QED
                BY <1>3, <2>3, <4>1, FitsAtFirst, Zenon
        <3> QED
            BY <1>6, <3>1, <3>3 DEF RoomWhileDue, RoomWhileSent
    <2>6. FlowSent(due) \/ FlowRefused(due)
        <3> HIDE DEF due
        <3> QED
            BY <2>1, <2>2, TransmitTells DEF TInv, DataSent
    <2> QED
        BY <2>4, <2>5, <2>6
<1> QED
    BY <1>1, <1>8, <1>9

LEMMA RoomStep ==
    ASSUME MarksApart, HighEnough, Undisturbed = TRUE,
           TInv, Told, RoomLeft, [Next]_vars
    PROVE  RoomLeft'
<1>1. /\ ucState \in SUBSET Flags /\ chars \in Nat /\ RX_HIGHWATER \in BOOLEAN
      /\ Sizes \subseteq Nat
    BY UartTypes, TtyAssumption DEF TInv
<1>2. ASSUME Interruptible PROVE ~Deciding
    BY <1>2 DEF Interruptible, Deciding
<1>3. CASE \/ \E v \in Values, n \in Sizes : WriteBegin(v, n)
           \/ \E n \in Sizes : Query(n)
           \/ WriteCount \/ Register \/ FlushTx \/ UNCHANGED vars
    <2>1. UNCHANGED <<RX_HIGHWATER, sending, peer, slack, chars, ucState>>
        BY <1>3
        DEF WriteBegin, Query, WriteCount, Register, FlushTx, vars, rxVars, uart, line
    <2> QED
        BY <1>1, <2>1, RoomQuietly DEF TInv
<1>4. ASSUME NEW n \in Sizes, Read(n) PROVE RoomLeft'
    <2>1. UNCHANGED <<RX_HIGHWATER, sending, peer, slack, ucState>>
        BY <1>4 DEF Read, uart, line
    <2>2. chars' \in Nat /\ chars' <= chars
        BY <1>1, <1>4 DEF Read
    <2> QED
        BY <2>1, <2>2, RoomQuietly DEF TInv
<1>5. CASE ReadTest
    <2>1. /\ UNCHANGED <<sending, peer, slack, chars, ucState>>
          /\ RX_HIGHWATER' => RX_HIGHWATER
        BY <1>5 DEF ReadTest, uart, line
    <2> QED
        BY <1>1, <2>1, RoomQuietly DEF TInv
<1>6. CASE ReadLoad \/ ReadStore \/ ReadSend
    <2>1. ~RX_HIGHWATER
        BY <1>6 DEF ReadLoad, ReadStore, ReadSend, Told, DecisionHolds, Deciding
    <2> QED
        BY <1>6, <2>1 DEF ReadLoad, ReadStore, ReadSend, rxVars, RoomLeft
<1>7. CASE FlushRx
    BY <1>7 DEF FlushRx, RoomLeft
<1>8. CASE ByteSent
    BY <1>8, RoomByteSent
<1>9. CASE RxByte
    BY <1>9, RoomRxByte
<1>10. CASE WriteStart \/ Pause \/ Resume \/ TxInterrupt \/ RxXoff \/ RxXon
    <2>1. ~Deciding /\ UNCHANGED <<RX_HIGHWATER, chars>>
        BY <1>2, <1>10
        DEF WriteStart, Pause, Resume, TxInterrupt, RxXoff, RxXon, Deciding, rxVars
    <2>2. PICK state \in SUBSET Flags :
             /\ SEND_XON \in state <=> SEND_XON \in ucState
             /\ Due(state) <=> Due(ucState)
             /\ \/ send_next_byte(state) /\ Ready
                \/ ucState' = state /\ sending' = sending
        BY <1>10, StateTaken
    <2>3. CASE Pause
        <3>1. /\ UNCHANGED <<sending, peer, slack>>
              /\ ucState' = ucState \cup {TX_WAIT}
            BY <2>3 DEF Pause, LeaveTransmitter, uart, line
        <3>2. Due(ucState') <=> Due(ucState)
            BY <3>1 DEF Due, SEND_XON, SEND_XOFF, TX_WAIT
        <3> QED
            BY <1>1, <2>1, <3>1, <3>2, RoomQuietly DEF TInv
    <2>4. CASE WriteStart \/ Resume \/ TxInterrupt
        <3>1. peer' = peer /\ Timing(FALSE)
            BY <2>4 DEF WriteStart, Resume, TxInterrupt, NoArrival
        <3> QED
            BY <2>1, <2>2, <3>1, RoomTransmitting
    <2>5. CASE RxXoff \/ RxXon
        <3>1. peer' = peer /\ Timing(TRUE) /\ InTurn
            BY <2>5 DEF RxXoff, RxXon
        <3> QED
            BY <2>1, <2>2, <3>1, RoomTransmitting
    <2> QED
        BY <1>10, <2>3, <2>4, <2>5
<1> QED
    BY <1>3, <1>4, <1>5, <1>6, <1>7, <1>8, <1>9, <1>10 DEF Next, Call

(* If moreover the high mark leaves room for the characters of the UART    *)
(* and three bytes more, no byte that a peer with flow control sends is    *)
(* lost: XOFF reaches it in time, even if the UART refuses it first.       *)
THEOREM RoomForThePeer ==
    Undisturbed = TRUE /\ MarksApart /\ HighEnough
    => (Spec => []ReceiverHasRoom)
<1> SUFFICES ASSUME Undisturbed = TRUE, MarksApart, HighEnough
             PROVE  Spec => []ReceiverHasRoom
    OBVIOUS
<1>1. Init => TInv /\ Told /\ RoomLeft
    BY SoundInit, ToldInit DEF Init, RoomLeft
<1>2. TInv /\ Told /\ RoomLeft /\ [Next]_vars => TInv' /\ Told' /\ RoomLeft'
    BY SoundStep, ToldStep, RoomStep
<1>3. TInv /\ Told /\ RoomLeft => ReceiverHasRoom
    <2> SUFFICES ASSUME TInv, Told, RoomLeft, flow, peer # "held"
                 PROVE  chars < RxQueueSize
        BY DEF ReceiverHasRoom, PeerSends
    <2>1. /\ chars \in Nat /\ slack \in Nat /\ Len(sending) \in Nat
          /\ RxQueueSize \in Nat /\ HIGH_WATER_MARK \in Nat /\ UART_DEPTH \in Nat
        BY UartTypes, MarkTypes DEF TInv
    <2>2. CASE ~RX_HIGHWATER
        <3>1. chars <= RxQueueSize - HIGH_WATER_MARK
            BY <2>2 DEF Told, BelowHigh
        <3> QED
            BY <2>1, <3>1 DEF HighEnough
    <2>3. CASE RX_HIGHWATER
        <3>1. ~Deciding /\ RoomWhileDue /\ RoomWhileSent /\ RoomWhileStopping
            BY <2>3 DEF Told, DecisionHolds, RoomLeft
        <3>2. ASSUME NEW n \in Nat, NEW t \in Nat, n >= 1, Fits(chars, n, t)
              PROVE  chars < RxQueueSize
            BY <2>1, <3>2 DEF Fits
        <3>3. CASE Due(ucState)
            <4>1. Len(sending) + 2 \in Nat /\ Len(sending) + 2 >= 1
                BY <2>1
            <4> QED
                BY <2>1, <3>1, <3>2, <3>3, <4>1 DEF RoomWhileDue
        <3>4. ASSUME ~Due(ucState), NEW p \in 1..Len(sending), LastAt(sending, XOFF, p)
              PROVE  chars < RxQueueSize
            <4>1. p \in Nat /\ p >= 1
                BY <2>1
            <4> QED
                BY <2>1, <3>1, <3>2, <3>4, <4>1 DEF RoomWhileSent
        <3>5. CASE ~Due(ucState) /\ Quiet(sending) /\ peer # "sending"
            <4>1. peer = "stopping"
                BY <3>5 DEF TInv, TypeOK
            <4> QED
                BY <3>1, <3>2, <3>5, <4>1 DEF RoomWhileStopping
        <3>6. ~Due(ucState) => WillStop(sending, peer)
            BY <2>3, <3>1 DEF Told, ToldRight
        <3> QED
            BY <3>3, <3>4, <3>5, <3>6 DEF WillStop
    <2> QED
        BY <2>2, <2>3
<1> QED
    BY <1>1, <1>2, <1>3, PTL DEF Spec

=============================================================================
