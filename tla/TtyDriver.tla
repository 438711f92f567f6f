------------------------------ MODULE TtyDriver ------------------------------
(***************************************************************************)
(* The serial driver (uTasker/Tty_drv.c): one channel that transmits and   *)
(* receives by interrupt, without DMA on this channel, in character mode.  *)
(* Either it obeys and uses XON/XOFF (USE_XON_OFF) or its user pauses the  *)
(* transmitter (PAUSE_TX).                                                 *)
(*                                                                         *)
(* The user task writes, blocks on a full queue, reads and flushes; what   *)
(* it does between two protected sections of the driver is interleaved     *)
(* with the interrupts of the UART: a byte has been sent (TxInterrupt), a  *)
(* byte was received (RxByte, RxXoff, RxXon).  The peer uses the same      *)
(* speed: it sends at most one byte while the UART sends one, and at most  *)
(* one before a transmit interrupt is served.                              *)
(*                                                                         *)
(* Received bytes are only counted, transmitted ones kept, to see order    *)
(* and loss.                                                               *)
(***************************************************************************)
EXTENDS Integers, Sequences, SequencesExt

CONSTANTS
    Values,           (* the bytes                                         *)
    TxQueueSize, RxQueueSize,
    LOW_WATER_MARK,   (* received bytes below which the peer may go on;    *)
                      (* bytes to be sent at which a writer is woken       *)
    HIGH_WATER_MARK,  (* space in the receive queue that stops the peer    *)
    UART_DEPTH,       (* characters the UART holds: with a data and a shift *)
                      (* register 2                                        *)
    Sizes,            (* lengths of writes and reads                       *)
    Undisturbed       (* no interrupt of the UART after CALL_READ has      *)
                      (* decided to send XON and before it has returned,   *)
                      (* and no XON of the peer while the UART is full;    *)
                      (* the driver ensures neither                        *)

XON == "XON"
XOFF == "XOFF"

SEND_XON == "SEND_XON"
SEND_XOFF == "SEND_XOFF"
TX_WAIT == "TX_WAIT"
TX_ACTIVE == "TX_ACTIVE"

ASSUME TtyAssumption ==
    /\ Values \cap {XON, XOFF} = {}
    /\ UART_DEPTH \in Nat \ {0}
    /\ {TxQueueSize, RxQueueSize, LOW_WATER_MARK, HIGH_WATER_MARK} \subseteq Nat
    /\ Sizes \subseteq Nat \ {0}
    /\ Undisturbed \in BOOLEAN

VARIABLES
    flow,         (* USE_XON_OFF in opn_mode                               *)
    ucState,      (* the flags of the transmitter's control block          *)
    RX_HIGHWATER, (* the one flag of the receiver's                        *)
    queue,        (* the bytes in the transmit queue                       *)
    writing,      (* the bytes of a write that are not yet counted         *)
    chars,        (* the number of bytes in the receive queue              *)
    wake_task,    (* does the user task wait for TX_FREE?                  *)
    call,         (* how far the call of the user task is                  *)
    loaded,       (* ucState as CALL_READ has loaded it, to set SEND_XON   *)
    sending,      (* the characters in the UART, the next one to go first  *)
    txInt,        (* is the transmit interrupt enabled?                    *)
    peer,         (* is the peer sending, stopping or held?                *)
    slack,        (* bytes the peer sends before the next transmit event   *)
    out           (* output: the byte handed to the UART last              *)

userVars == <<writing, call, loaded>>
rxVars == <<RX_HIGHWATER, chars>>
uart == <<sending, txInt>>
line == <<peer, slack>>
vars == <<flow, ucState, rxVars, queue, wake_task, userVars, uart, line, out>>

(* fill: fnFillBuf copies; start: it has returned; refused: a query found  *)
(* no space; got: fnGetBuf has returned; load, store, send: XON is due.    *)
Calls == {"idle", "fill", "start", "refused", "got", "load", "store", "send"}

TypeOK ==
    /\ flow \in BOOLEAN
    /\ ucState \subseteq {SEND_XON, SEND_XOFF, TX_WAIT, TX_ACTIVE}
    /\ loaded \subseteq {SEND_XON, SEND_XOFF, TX_WAIT, TX_ACTIVE}
    /\ RX_HIGHWATER \in BOOLEAN
    /\ queue \in Seq(Values) /\ writing \in Seq(Values)
    /\ Len(queue) + Len(writing) <= TxQueueSize
    /\ chars \in 0..RxQueueSize
    /\ wake_task \in BOOLEAN
    /\ call \in Calls
    /\ sending \in Seq(Values \cup {XON, XOFF})
    /\ Len(sending) <= UART_DEPTH
    /\ txInt \in BOOLEAN
    /\ peer \in {"sending", "stopping", "held"}
    /\ slack \in 0..1
    /\ out \in Seq(Values)

Init ==
    /\ flow \in BOOLEAN
    /\ ucState = {} /\ loaded = {}
    /\ RX_HIGHWATER = FALSE
    /\ queue = <<>> /\ writing = <<>>
    /\ chars = 0
    /\ wake_task = FALSE
    /\ call = "idle"
    /\ sending = <<>>
    /\ txInt = FALSE
    /\ peer = "sending"
    /\ slack = 0
    /\ out = <<>>

-----------------------------------------------------------------------------
(*                             The transmitter                             *)

(* fnTxByte refuses a character while the data register is in use.         *)
Ready == Len(sending) < UART_DEPTH
fnTxByte(byte) ==
    IF Ready
    THEN sending' = Append(sending, byte) /\ txInt' = TRUE
    ELSE UNCHANGED uart

(* The user task is told once, when few enough bytes are left.             *)
fnWakeBlockedTx(left, level) == wake_task' = (wake_task /\ left > level)

(* Faulty: what is refused is not due any more.                            *)
SendFlowControlOnce(state) ==
    /\ fnTxByte(IF SEND_XON \in state THEN XON ELSE XOFF)
    /\ ucState' = (state \ {SEND_XON, SEND_XOFF}) \cup {TX_ACTIVE}
    /\ UNCHANGED <<queue, wake_task, out>>

(* Faulty: the transmitter is not marked as active.                        *)
SendFlowControlInactive(state) ==
    /\ fnTxByte(IF SEND_XON \in state THEN XON ELSE XOFF)
    /\ ucState' = IF Ready THEN state \ {SEND_XON, SEND_XOFF} ELSE state
    /\ UNCHANGED <<queue, wake_task, out>>

(* A flow control character goes first, and stays due if it is refused.    *)
SendFlowControl(state) ==
    /\ fnTxByte(IF SEND_XON \in state THEN XON ELSE XOFF)
    /\ ucState' = IF Ready
                  THEN (state \ {SEND_XON, SEND_XOFF}) \cup {TX_ACTIVE}
                  ELSE state
    /\ UNCHANGED <<queue, wake_task, out>>

(* Faulty: the transmitter remains marked as active.                       *)
FinishActive(state) ==
    /\ ucState' = state
    /\ txInt' = FALSE
    /\ fnWakeBlockedTx(0, 0)
    /\ UNCHANGED <<queue, sending, out>>

(* Faulty: a task that waits is not told, as in builds without DMA.        *)
FinishUnannounced(state) ==
    /\ ucState' = state \ {TX_ACTIVE}
    /\ txInt' = FALSE
    /\ UNCHANGED <<queue, wake_task, sending, out>>

(* The queue is empty.  In builds with SERIAL_SUPPORT_DMA, as here, a task *)
(* that still waits is told.                                               *)
FinishTransmission(state) ==
    /\ ucState' = state \ {TX_ACTIVE}
    /\ txInt' = FALSE
    /\ fnWakeBlockedTx(0, 0)
    /\ UNCHANGED <<queue, sending, out>>

(* A byte is taken from the queue even if it is refused.                   *)
SendData(state) ==
    /\ fnTxByte(Head(queue))
    /\ out' = IF Ready THEN <<Head(queue)>> ELSE out
    /\ ucState' = state \cup {TX_ACTIVE}
    /\ queue' = Tail(queue)
    /\ fnWakeBlockedTx(Len(queue) - 1, LOW_WATER_MARK)

SuspendTransmission(state) ==
    /\ ucState' = state
    /\ txInt' = FALSE
    /\ UNCHANGED <<queue, wake_task, sending, out>>

(* Called with the flags "state" in ucState.                               *)
send_next_byte(state) ==
    IF {SEND_XON, SEND_XOFF} \cap state # {} THEN SendFlowControl(state)
    ELSE IF TX_WAIT \in state THEN SuspendTransmission(state)
    ELSE IF queue = <<>> THEN FinishTransmission(state)
    ELSE SendData(state)

LeaveTransmitter(state) ==
    /\ ucState' = state
    /\ UNCHANGED <<queue, wake_task, uart, out>>

(* The peer is timed by our bytes: one may arrive while one is being sent, *)
(* one more before the interrupt that ends it, any number in idle times.   *)
InTurn == (sending # <<>> \/ txInt) => slack > 0
Timing(arrived) ==
    slack' = IF sending = <<>> /\ sending' # <<>> THEN 1
             ELSE IF arrived /\ (sending # <<>> \/ txInt) THEN slack - 1
             ELSE slack
NoArrival == Timing(FALSE) /\ UNCHANGED peer

-----------------------------------------------------------------------------
(*                          Calls of the user task                         *)

Space == TxQueueSize - Len(queue)

Accepted(size) == IF size > Space THEN Space ELSE size

(* CALL_WRITE: fnFillBuf reserves what fits, copies it with interrupts     *)
(* enabled and counts it; then transmission starts if it has to.           *)
WriteBegin(v, size) ==
    /\ call = "idle" /\ ~wake_task
    /\ writing' = [i \in 1..Accepted(size) |-> v]
    /\ call' = "fill"
    /\ UNCHANGED <<flow, ucState, rxVars, queue, wake_task, loaded, uart, line, out>>

WriteCount ==
    /\ call = "fill"
    /\ queue' = queue \o writing
    /\ writing' = <<>>
    /\ call' = "start"
    /\ UNCHANGED <<flow, ucState, rxVars, wake_task, loaded, uart, line, out>>

WriteStart ==
    /\ call = "start"
    /\ IF {TX_WAIT, TX_ACTIVE} \cap ucState = {} THEN send_next_byte(ucState)
                                                 ELSE LeaveTransmitter(ucState)
    /\ call' = "idle"
    /\ NoArrival
    /\ UNCHANGED <<flow, rxVars, writing, loaded>>

(* CALL_WRITE without a buffer asks for space.  A task that is refused has *)
(* itself registered (CALL_DRIVER, MODIFY_WAKEUP) and returns.             *)
Query(size) ==
    /\ call = "idle" /\ ~wake_task
    /\ Space < size
    /\ call' = "refused"
    /\ UNCHANGED <<flow, ucState, rxVars, queue, wake_task, writing, loaded,
                   uart, line, out>>

Register ==
    /\ call = "refused"
    /\ wake_task' = TRUE
    /\ call' = "idle"
    /\ UNCHANGED <<flow, ucState, rxVars, queue, writing, loaded, uart, line, out>>

(* CALL_DRIVER with PAUSE_TX: TX_OFF sets, TX_ON clears TX_WAIT, whatever  *)
(* the transmitter does.                                                   *)
Pause ==
    /\ call = "idle" /\ ~flow
    /\ LeaveTransmitter(ucState \cup {TX_WAIT})
    /\ UNCHANGED <<flow, rxVars, userVars, line>>

Resume ==
    /\ call = "idle" /\ ~flow
    /\ LET state == ucState \ {TX_WAIT}
       IN  IF TX_ACTIVE \notin state THEN send_next_byte(state)
                                     ELSE LeaveTransmitter(state)
    /\ NoArrival
    /\ UNCHANGED <<flow, rxVars, userVars>>

(* CALL_READ: fnGetBuf, then, with interrupts enabled, the peer is let go  *)
(* if the queue is low.  ucState is loaded, changed and stored.            *)
Read(size) ==
    /\ call = "idle"
    /\ chars > 0
    /\ chars' = IF size > chars THEN 0 ELSE chars - size
    /\ call' = "got"
    /\ UNCHANGED <<flow, ucState, RX_HIGHWATER, queue, wake_task, writing,
                   loaded, uart, line, out>>

ReadTest ==
    /\ call = "got"
    /\ IF flow /\ RX_HIGHWATER /\ chars < LOW_WATER_MARK
       THEN RX_HIGHWATER' = FALSE /\ call' = "load"
       ELSE UNCHANGED RX_HIGHWATER /\ call' = "idle"
    /\ UNCHANGED <<flow, ucState, chars, queue, wake_task, writing, loaded,
                   uart, line, out>>

ReadLoad ==
    /\ call = "load"
    /\ loaded' = ucState
    /\ call' = "store"
    /\ UNCHANGED <<flow, ucState, rxVars, queue, wake_task, writing, uart, line, out>>

ReadStore ==
    /\ call = "store"
    /\ LeaveTransmitter(loaded \cup {SEND_XON})
    /\ loaded' = {}
    /\ call' = "send"
    /\ UNCHANGED <<flow, rxVars, writing, line>>

ReadSend ==
    /\ call = "send"
    /\ send_next_byte(ucState)
    /\ call' = "idle"
    /\ NoArrival
    /\ UNCHANGED <<flow, rxVars, writing, loaded>>

(* Faulty: the peer is forgotten.                                          *)
FlushRxSilently ==
    /\ call = "idle"
    /\ chars > 0
    /\ chars' = 0
    /\ RX_HIGHWATER' = FALSE
    /\ UNCHANGED <<flow, ucState, queue, wake_task, userVars, uart, line, out>>

(* CALL_FLUSH, wholly protected.                                           *)
FlushTx ==
    /\ call = "idle"
    /\ queue # <<>>
    /\ queue' = <<>>
    /\ UNCHANGED <<flow, ucState, rxVars, wake_task, userVars, uart, line, out>>

FlushRx ==
    /\ call = "idle"
    /\ chars > 0
    /\ chars' = 0
    /\ RX_HIGHWATER' = FALSE
    /\ IF RX_HIGHWATER /\ flow THEN send_next_byte(ucState \cup {SEND_XON})
                               ELSE LeaveTransmitter(ucState)
    /\ NoArrival
    /\ UNCHANGED <<flow, userVars>>

-----------------------------------------------------------------------------
(*                     Interrupts, the UART and the peer                   *)

Interruptible == Undisturbed => call \notin {"load", "store", "send"}

(* A character has been sent and reaches the peer.                         *)
ByteSent ==
    /\ sending # <<>>
    /\ sending' = Tail(sending)
    /\ peer' = CASE Head(sending) = XON  -> "sending"
                 [] Head(sending) = XOFF -> IF peer = "held" THEN "held" ELSE "stopping"
                 [] OTHER                -> peer
    /\ slack' = 1
    /\ UNCHANGED <<flow, ucState, rxVars, queue, wake_task, userVars, txInt, out>>

(* fnSciTxByte                                                             *)
TxInterrupt ==
    /\ Interruptible
    /\ Ready /\ txInt
    /\ send_next_byte(ucState)
    /\ NoArrival
    /\ UNCHANGED <<flow, rxVars, userVars>>

(* The peer sends data unless it is held, and one byte more while it stops.*)
PeerSends == InTurn /\ peer # "held"

(* Faulty: the peer is stopped when nothing more fits.                     *)
HighWhenFull(n) == n >= RxQueueSize

High(n) == n > RxQueueSize - HIGH_WATER_MARK

(* fnSciRxByte for data, which is dropped if the queue is full.            *)
RxByte ==
    /\ Interruptible
    /\ PeerSends
    /\ peer' = IF peer = "stopping" THEN "held" ELSE peer
    /\ chars' = IF chars < RxQueueSize THEN chars + 1 ELSE chars
    /\ LET stop == flow /\ ~RX_HIGHWATER /\ High(chars')
       IN  /\ RX_HIGHWATER' = (RX_HIGHWATER \/ stop)
           /\ IF stop THEN send_next_byte(ucState \cup {SEND_XOFF})
                      ELSE LeaveTransmitter(ucState)
    /\ Timing(TRUE)
    /\ UNCHANGED <<flow, userVars>>

(* fnSciRxByte for flow control: obeyed, and not put into the queue.       *)
RxXoff ==
    /\ Interruptible
    /\ flow /\ InTurn
    /\ LeaveTransmitter(ucState \cup {TX_WAIT})
    /\ Timing(TRUE)
    /\ UNCHANGED <<flow, rxVars, userVars, peer>>

RxXon ==
    /\ Interruptible
    /\ flow /\ InTurn
    /\ Undisturbed => Ready
    /\ IF TX_WAIT \in ucState THEN send_next_byte(ucState \ {TX_WAIT})
                              ELSE LeaveTransmitter(ucState)
    /\ Timing(TRUE)
    /\ UNCHANGED <<flow, rxVars, userVars, peer>>

-----------------------------------------------------------------------------
Call ==
    \/ WriteCount \/ WriteStart
    \/ Register
    \/ ReadTest \/ ReadLoad \/ ReadStore \/ ReadSend

Next ==
    \/ \E v \in Values, n \in Sizes : WriteBegin(v, n)
    \/ \E n \in Sizes : Query(n)
    \/ \E n \in Sizes : Read(n)
    \/ Call
    \/ Pause \/ Resume
    \/ FlushTx \/ FlushRx
    \/ ByteSent \/ TxInterrupt
    \/ RxByte \/ RxXoff \/ RxXon

Spec == Init /\ [][Next]_vars

(* Calls return, bytes are sent, interrupts served and what was received   *)
(* is read: the task finds time to, again and again.                       *)
FairSpec ==
    /\ Spec
    /\ WF_vars(Call)
    /\ WF_vars(ByteSent)
    /\ WF_vars(TxInterrupt)
    /\ SF_vars(\E n \in Sizes : Read(n))

-----------------------------------------------------------------------------
(*                               Properties                                *)

(* The transmitter is marked as active, but no interrupt is to come.       *)
Stalled == TX_ACTIVE \in ucState /\ TX_WAIT \notin ucState /\ ~txInt

(* Whatever starts transmission (a write, the peer's XON, the end of a     *)
(* pause, a flow control character) and whoever finds the queue empty in   *)
(* between, bytes that may be sent are never left without a transmit       *)
(* interrupt to come, nor is a flow control character.  One step breaks    *)
(* this: TX_ON with PAUSE_TX, when the pause came in the middle of a       *)
(* transmission and an interrupt has suspended it, which leaves TX_ACTIVE. *)
NeverStalls ==
    /\ [](call = "idle" =>
            /\ {SEND_XON, SEND_XOFF} \cap ucState # {} => txInt
            /\ queue # <<>> /\ TX_WAIT \notin ucState => txInt \/ Stalled)
    /\ [][~Stalled /\ Stalled' => Resume /\ TX_ACTIVE \in ucState]_vars

(* What the peer was told last agrees with RX_HIGHWATER: it is not held    *)
(* when the receiver has room again, and told to stop when it has not.     *)
PeerIsTold ==
    /\ call \notin {"load", "store", "send"}
    /\ {SEND_XON, SEND_XOFF} \cap ucState = {}
    /\ {XON, XOFF} \cap ToSet(sending) = {}
    => RX_HIGHWATER = (peer # "sending")

(* With flow control no received byte is lost: XOFF reaches the peer while *)
(* there is room for what it sends until then.                             *)
ReceiverHasRoom == flow /\ PeerSends => chars < RxQueueSize

(* The transmit queue is a FIFO (see CircularQueue) that nothing but a     *)
(* flush empties without handing each byte to the UART.                    *)
Fifo == INSTANCE ByteFifo WITH
    Length <- TxQueueSize, content <- queue, unpublished <- writing

ImplementsByteFifo == Fifo!FifoSpec

(* The task waits, and the driver has nothing left to send.                *)
Stranded ==
    wake_task /\ queue = <<>> /\ {TX_WAIT, TX_ACTIVE} \cap ucState = {}

(* From some time on the transmitter is neither stopped nor stalled.       *)
LeftToTransmit == <>[](TX_WAIT \notin ucState /\ ~Stalled)

(* A task that waits for TX_FREE is then told, although the driver tells   *)
(* it only when it takes a byte from the queue or finds it empty.  It may  *)
(* wait in vain only if it registers after the last byte has left, which   *)
(* its query still saw: MODIFY_WAKEUP does not look at the queue.          *)
BlockedWriterIsWoken ==
    /\ [][~Stranded /\ Stranded' => Register]_vars
    /\ LeftToTransmit => (wake_task ~> (~wake_task \/ Stranded))

(* A peer that we have stopped is let go, if our task reads: XON is sent   *)
(* even while the peer stops us.                                           *)
PeerIsReleased == peer = "held" ~> peer = "sending"

=============================================================================
