-------------------------------- MODULE Tcp ---------------------------------
(***************************************************************************)
(* One TCP socket (stack/tcp.c), its listener and its peer.  The listener  *)
(* sends one frame at a time and repeats it on request, as the SMTP, POP3, *)
(* FTP and MQTT ones do; usOpenCnt stays 0.  Options as in the repository's*)
(* configuration: ANNOUNCE_MAX_SEGMENT_SIZE, REUSE_TIME_WAIT_SOCKETS,      *)
(* TCP_CHECK_SYS_REPS and MJBC_TEST5, without out-of-order buffer, IPv6    *)
(* and secure sockets.  Buffered sockets, the peer's window, address       *)
(* resolution and the frames of other connections are left out.            *)
(*                                                                         *)
(* The network loses, repeats and reorders: a frame of the peer is any     *)
(* segment of what it has sent, with any acknowledgement it has given; a   *)
(* frame of ours may be received late or never; a RST may come any time.   *)
(* Sequence numbers count from the initial one of each side, whose SYN has *)
(* number 0.  Those of a socket that is closed are never read, and are 0.  *)
(***************************************************************************)
EXTENDS Integers, Sequences

CONSTANTS
    TCP_STANDARD_RETRY_TOUT, (* polls before a frame is repeated           *)
    TCP_SYN_RETRY_TOUT,      (* polls before a SYN is repeated again       *)
    TCP_FIN_WAIT_2_TIMEOUT,  (* polls the peer's FIN is waited for         *)
    TCP_MSL_TIMEOUT,         (* polls of half the final wait               *)
    TCP_DEF_RETRIES,         (* repetitions before giving up               *)
    LengthMod,               (* lengths are unsigned shorts: 2^16          *)
    MaxOut,                  (* bytes we send in a connection              *)
    MaxIn                    (* bytes the peer sends                       *)

ASSUME TcpAssumption ==
    /\ TCP_STANDARD_RETRY_TOUT \in Nat \ {0}
    /\ TCP_SYN_RETRY_TOUT \in Nat
    /\ TCP_FIN_WAIT_2_TIMEOUT \in Nat
    /\ TCP_MSL_TIMEOUT \in Nat
    /\ TCP_DEF_RETRIES \in Nat
    /\ MaxOut \in Nat /\ MaxIn \in Nat
    /\ LengthMod \in Nat /\ LengthMod > 2 * (MaxIn + 1)

VARIABLES
    st,           (* ucTCP_state                                           *)
    una, nxt,     (* ulSendUnackedNumber, ulNextTransmissionNumber         *)
    rcv,          (* ulNextReceptionNumber                                 *)
    finSeen,      (* ucSendFlags has TCP_FLAG_FIN_RECEIVED                 *)
    closePending, (* TCP_CLOSEPENDING                                      *)
    timer,        (* usTransmitTimer                                       *)
    retries,      (* ucRetransmissions                                     *)
    polling,      (* iTCP_timer_active: a timer event will call fnPollTCP  *)
    view,         (* what the listener was told last of its connection     *)
    taken,        (* the peer's bytes it has taken                         *)
    pSent,        (* the peer's next sequence number, 0 before its SYN     *)
    pFin,         (* has the peer sent its FIN?                            *)
    pGot,         (* its next reception number, 0 before our SYN           *)
    pFinGot,      (* has it received our FIN?                              *)
    pUna,         (* what it has been acknowledged                         *)
    ackAir        (* an acknowledgement on its way, 0 for none             *)

numbers == <<una, nxt, rcv, finSeen, closePending>>
timers == <<timer, retries>>
peer == <<pSent, pFin, pGot, pFinGot, pUna>>
vars == <<st, numbers, timers, polling, view, taken, peer, ackAir>>

(* States in which both sides may still exchange frames, and those in      *)
(* which our FIN has been sent.                                            *)
Opening == {"SYN_SENT", "SYN_RCVD"}
FinSent == {"FIN_WAIT_1", "FIN_WAIT_2", "CLOSING", "LAST_ACK", "TIME_WAIT"}
States == Opening \cup FinSent
             \cup {"CLOSED", "LISTEN", "ESTABLISHED", "CLOSE_WAIT"}

(* The peer is connected to an earlier sequence number of ours.            *)
Astray == -1

Higher(a, b) == IF a > b THEN a ELSE b

-----------------------------------------------------------------------------
(*                    The state of the connection                          *)

Init ==
    /\ st = "CLOSED"
    /\ una = 0 /\ nxt = 0 /\ rcv = 0
    /\ finSeen = FALSE /\ closePending = FALSE
    /\ timer = 0 /\ retries = 0
    /\ polling = FALSE
    /\ view = "none"
    /\ taken = <<>>
    /\ pSent = 0 /\ pFin = FALSE /\ pGot = 0 /\ pFinGot = FALSE /\ pUna = 0
    /\ ackAir = 0

(* Nothing is left of the connection.                                      *)
Forget ==
    /\ una' = 0 /\ nxt' = 0 /\ rcv' = 0
    /\ finSeen' = FALSE /\ closePending' = FALSE
    /\ timer' = 0 /\ retries' = 0
    /\ taken' = <<>>
    /\ pSent' = 0 /\ pFin' = FALSE /\ pGot' = 0 /\ pFinGot' = FALSE /\ pUna' = 0
    /\ ackAir' = 0

fnNewTCPState(next) ==
    /\ st' = next
    /\ retries' = CASE next \in {"CLOSE_WAIT", "LAST_ACK", "FIN_WAIT_1", "CLOSING"} -> 1
                    [] next = "FIN_WAIT_2" -> 0
                    [] OTHER -> TCP_DEF_RETRIES
    /\ timer' = CASE next = "TIME_WAIT"  -> 2 * TCP_MSL_TIMEOUT
                  [] next = "FIN_WAIT_2" -> TCP_FIN_WAIT_2_TIMEOUT
                  [] OTHER -> TCP_STANDARD_RETRY_TOUT

(* The listener hears of the end before the last wait, so that it can use  *)
(* the socket again.                                                       *)
EnterTimeWait ==
    /\ fnNewTCPState("TIME_WAIT")
    /\ view' = "closed"

(* The connection is over and the listener hears about it.                 *)
Ended(how) ==
    /\ st' = "CLOSED"
    /\ view' = how
    /\ Forget

(* Faulty: a connection that is given up is dropped without an event.      *)
AbortSilently == st' = "CLOSED" /\ Forget /\ UNCHANGED view

fnAbortTCPSession == Ended("aborted")

fnRestartTCP_timer == polling' = TRUE

(* A frame of ours acknowledges all bytes before n.                        *)
Acknowledge(n) == ackAir' = Higher(ackAir, n)

-----------------------------------------------------------------------------
(*                     Calls of the application                            *)

fnTCP_Listen ==
    /\ st \in {"CLOSED", "LISTEN", "TIME_WAIT"}
    /\ st' = "LISTEN"
    /\ Forget
    /\ UNCHANGED <<polling, view>>

(* A socket that waits for the peer's FIN is closed before it is used      *)
(* again; the listener is told, and that its next connection is open.      *)
fnTCP_Connect ==
    /\ st \in {"CLOSED", "LISTEN", "FIN_WAIT_2", "TIME_WAIT"}
    /\ fnRestartTCP_timer
    /\ st' = "SYN_SENT"
    /\ view' = "open"
    /\ una' = 0 /\ nxt' = 1 /\ rcv' = 0
    /\ finSeen' = FALSE /\ closePending' = FALSE
    /\ retries' = TCP_DEF_RETRIES
    /\ timer' = TCP_STANDARD_RETRY_TOUT
    /\ taken' = <<>>
    /\ pSent' = 0 /\ pFin' = FALSE /\ pGot' = 0 /\ pFinGot' = FALSE /\ pUna' = 0
    /\ ackAir' = 0

(* The FIN of a close without unacknowledged data: from and upto are what  *)
(* it finds in una and rcv.  A FIN of the peer in the frame being handled  *)
(* is acknowledged with it.                                                *)
SendFin(from, upto, simultaneous) ==
    /\ una' = from /\ nxt' = from + 1
    /\ rcv' = upto + (IF simultaneous THEN 1 ELSE 0)
    /\ Acknowledge(rcv')
    /\ finSeen' = FALSE
    /\ UNCHANGED <<closePending, polling, view, taken, peer>>

fnTCP_close ==
    \/ /\ st = "SYN_RCVD"
       /\ SendFin(una + 1, rcv, FALSE)
       /\ fnNewTCPState("FIN_WAIT_1")
    \/ st = "SYN_SENT" /\ Ended("closed") /\ UNCHANGED polling
    \/ /\ st = "LISTEN"
       /\ st' = "CLOSED"
       /\ Forget
       /\ UNCHANGED <<view, polling>>
    \/ /\ st = "ESTABLISHED" /\ una = nxt
       /\ SendFin(nxt, rcv, finSeen)
       /\ fnNewTCPState("FIN_WAIT_1")
    \/ /\ st = "ESTABLISHED" /\ una # nxt
       /\ closePending' = TRUE
       /\ UNCHANGED <<st, una, nxt, rcv, finSeen, timers, polling, view, taken,
                      peer, ackAir>>

(* What the listener may send next: it has one frame at a time on its way, *)
(* and sends no more when it has asked for the connection to be closed.    *)
Sendable == IF closePending THEN {} ELSE 1..(MaxOut + 1 - nxt)

fnSendTCP ==
    /\ st = "ESTABLISHED" /\ una = nxt
    /\ \E n \in Sendable : nxt' = nxt + n
    /\ IF finSeen THEN UNCHANGED ackAir ELSE Acknowledge(rcv)
    /\ retries' = TCP_DEF_RETRIES
    /\ timer' = TCP_STANDARD_RETRY_TOUT
    /\ UNCHANGED <<st, una, rcv, finSeen, closePending, polling, view, taken, peer>>

-----------------------------------------------------------------------------
(*                             fnPollTCP                                   *)

Polled == Opening \cup FinSent \cup {"ESTABLISHED"}

(* Faulty: repetitions are not counted.                                    *)
CountDownForEver(timeout) ==
    \/ /\ timer # 0
       /\ timer' = timer - 1
       /\ UNCHANGED <<st, numbers, retries, view, taken, peer, ackAir>>
    \/ /\ timer = 0 /\ retries # 0
       /\ timer' = timeout
       /\ IF st \in Opening THEN UNCHANGED ackAir ELSE Acknowledge(rcv)
       /\ UNCHANGED <<st, numbers, retries, view, taken, peer>>
    \/ timer = 0 /\ retries = 0 /\ fnAbortTCPSession

(* Counts down to a repetition, and to the end after the last of them.     *)
fnDoCountDown(timeout) ==
    \/ /\ timer # 0
       /\ timer' = timer - 1
       /\ UNCHANGED <<st, numbers, retries, view, taken, peer, ackAir>>
    \/ /\ timer = 0 /\ retries # 0
       /\ retries' = retries - 1
       /\ timer' = timeout
       /\ IF st \in Opening THEN UNCHANGED ackAir ELSE Acknowledge(rcv)
       /\ UNCHANGED <<st, numbers, view, taken, peer>>
    \/ timer = 0 /\ retries = 0 /\ fnAbortTCPSession

(* The queued close, once all data is acknowledged.                        *)
PollClose ==
    /\ una' = una /\ nxt' = nxt + 1 /\ rcv' = rcv
    /\ Acknowledge(rcv)
    /\ finSeen' = FALSE /\ closePending' = FALSE
    /\ fnNewTCPState("FIN_WAIT_1")
    /\ UNCHANGED <<view, taken, peer>>

(* The idle timeout, which is the application's choice.                    *)
PollIdle ==
    /\ nxt' = nxt + 1
    /\ Acknowledge(rcv)
    /\ finSeen' = FALSE
    /\ fnNewTCPState("FIN_WAIT_1")
    /\ UNCHANGED <<una, rcv, closePending, view, taken, peer>>

(* The listener repeats its frame (TCP_EVENT_REGENERATE), or gives up.     *)
PollData ==
    \/ /\ una # nxt /\ timer # 0
       /\ timer' = timer - 1
       /\ UNCHANGED <<st, numbers, retries, view, taken, peer, ackAir>>
    \/ /\ una # nxt /\ timer = 0 /\ retries # 0
       /\ timer' = TCP_STANDARD_RETRY_TOUT - 1
       /\ retries' = retries - 1
       /\ IF finSeen THEN UNCHANGED ackAir ELSE Acknowledge(rcv)
       /\ UNCHANGED <<st, numbers, view, taken, peer>>
    \/ una # nxt /\ timer = 0 /\ fnAbortTCPSession
    \/ una = nxt /\ UNCHANGED <<st, numbers, timers, view, taken, peer, ackAir>>

PollEstablished(idle) ==
    IF closePending /\ una = nxt THEN PollClose
    ELSE IF idle THEN PollIdle ELSE PollData

(* A timer event.  The timer goes on as long as there is a socket to poll. *)
fnPollTCP(idle) ==
    /\ polling
    /\ polling' = (st \in Polled)
    /\ \/ st = "ESTABLISHED" /\ PollEstablished(idle)
       \/ st = "SYN_SENT" /\ fnDoCountDown(TCP_SYN_RETRY_TOUT)
       \/ /\ st \in {"SYN_RCVD", "LAST_ACK", "FIN_WAIT_1", "CLOSING", "FIN_WAIT_2"}
          /\ fnDoCountDown(TCP_STANDARD_RETRY_TOUT)
       \/ /\ st = "TIME_WAIT" /\ timer # 0
          /\ timer' = timer - 1
          /\ UNCHANGED <<st, numbers, retries, view, taken, peer, ackAir>>
       \/ /\ st = "TIME_WAIT" /\ timer = 0
          /\ st' = "CLOSED"
          /\ Forget
          /\ UNCHANGED view
       \/ /\ st \notin Polled
          /\ UNCHANGED <<st, numbers, timers, view, taken, peer, ackAir>>

-----------------------------------------------------------------------------
(*                      Connections begin and break                        *)

(* A RST: the socket of a connection is closed, a FIN_WAIT one included.   *)
HearReset ==
    /\ st \notin {"CLOSED", "LISTEN"}
    /\ Ended("aborted")
    /\ UNCHANGED polling

(* Our answer to a SYN, with a new initial sequence number: a peer that    *)
(* has taken an earlier one will not take this.                            *)
Accept ==
    /\ fnNewTCPState("SYN_RCVD")
    /\ fnRestartTCP_timer
    /\ view' = "open"
    /\ una' = 0 /\ nxt' = 1 /\ rcv' = 1
    /\ finSeen' = FALSE /\ closePending' = FALSE
    /\ taken' = <<>>
    /\ pSent' = Higher(pSent, 1)
    /\ pGot' = IF pGot = 0 THEN 0 ELSE Astray
    /\ UNCHANGED <<pFin, pFinGot, pUna, ackAir>>

(* The peer's SYN.  One that is repeated before the handshake is over puts *)
(* the socket back to listening, where the listener is asked again; it may *)
(* also refuse (APP_REJECT) or take no decision yet (APP_WAIT).  On a      *)
(* connection it is taken for the loss of the peer.                        *)
HearSyn ==
    \/ st \in {"LISTEN", "SYN_RCVD"} /\ Accept
    \/ /\ st \in {"LISTEN", "SYN_RCVD"}
       /\ st' = "LISTEN"
       /\ view' = "none"
       /\ Forget
       /\ UNCHANGED polling
    \/ st = "ESTABLISHED" /\ Ended("aborted") /\ UNCHANGED polling

(* The peer's answer to our SYN; when it comes again ours has been lost.   *)
HearSynAck ==
    /\ pSent # 0 /\ pGot > 0
    /\ \/ /\ st = "SYN_SENT"
          /\ rcv' = 1 /\ una' = nxt
          /\ finSeen' = FALSE
          /\ Acknowledge(1)
          /\ fnNewTCPState("ESTABLISHED")
          /\ UNCHANGED <<nxt, closePending, view>>
       \/ /\ st = "ESTABLISHED" /\ rcv = 1 /\ nxt = 1
          /\ finSeen' = FALSE
          /\ Acknowledge(rcv)
          /\ UNCHANGED <<st, una, nxt, rcv, closePending, timers, view>>
    /\ UNCHANGED <<polling, taken, peer>>

(* Anything else acknowledges, so that a socket that waits for the answer  *)
(* to its SYN takes it for a frame of a connection that was not ended.     *)
HearOldSegment ==
    /\ st = "SYN_SENT"
    /\ fnAbortTCPSession
    /\ UNCHANGED polling

-----------------------------------------------------------------------------
(*                      Segments of the peer                               *)

(* A segment of len bytes from seq, with a FIN behind them if fin.         *)
Segments ==
    {f \in [seq : 1..(pSent + 1), len : 0..pSent, fin : BOOLEAN,
            ack : 0..Higher(pGot, 0)] :
        /\ f.seq + f.len <= pSent + (IF pFin /\ f.len = 0 THEN 1 ELSE 0)
        /\ f.fin => pFin /\ f.seq + f.len = pSent}

(* The last frame of the handshake; what else it holds is not looked at.   *)
HearEstablished(f) ==
    /\ st = "SYN_RCVD" /\ f.ack = nxt /\ f.seq = rcv
    /\ una' = nxt
    /\ finSeen' = FALSE
    /\ fnNewTCPState("ESTABLISHED")
    /\ UNCHANGED <<nxt, rcv, closePending, polling, view, taken, peer, ackAir>>

(* Does f acknowledge all we have sent?  Then the listener is told of it.  *)
AcksAll(f) == una # nxt /\ f.ack = nxt

(* The bytes of f that are new; in modular arithmetic a segment that lies  *)
(* before those taken, or after a gap, has more of them than bytes.        *)
Extra(f) == (f.len - (rcv - f.seq)) % LengthMod
IgnoredNever(f) == FALSE (* Faulty: a segment after a gap is taken *)
Ignored(f) == f.len # 0 /\ Extra(f) > f.len
NewBytes(f) == IF f.len = 0 THEN <<>>
               ELSE [i \in 1..Extra(f) |-> f.seq + f.len - Extra(f) + i - 1]

(* The connection after the acknowledgement in f: the listener may send    *)
(* its next frame when it is told of it, which takes f's bytes as received.*)
Connection == [una |-> una, nxt |-> nxt, rcv |-> rcv, flag |-> finSeen,
               air |-> ackAir, sent |-> FALSE]

AfterAck(f) ==
    IF ~AcksAll(f) THEN {Connection}
    ELSE LET flag == finSeen \/ f.fin
             told == [Connection EXCEPT !.una = nxt, !.flag = flag]
             seen == IF f.seq = rcv THEN rcv + f.len ELSE rcv
         IN  {told} \cup
             {[told EXCEPT !.nxt = nxt + n, !.sent = TRUE,
                           !.air = IF flag THEN ackAir ELSE Higher(ackAir, seen)] :
                 n \in Sendable}

(* Then after its new bytes, which the listener takes and may answer.      *)
AfterData(f, c) ==
    LET flag == c.flag /\ ~(f.len # 0 /\ f.seq = rcv)
        read == [c EXCEPT !.rcv = rcv + Len(NewBytes(f)), !.flag = flag]
    IN  IF NewBytes(f) = <<>> THEN {c}
        ELSE {read} \cup
             {[read EXCEPT !.nxt = c.nxt + n, !.sent = TRUE,
                           !.air = IF flag THEN c.air ELSE Higher(c.air, read.rcv)] :
                 n \in IF c.una = c.nxt THEN Sendable ELSE {}}

(* Faulty: only new bytes are acknowledged.                                *)
AfterReplyToNew(f, c) ==
    IF ~c.sent /\ NewBytes(f) # <<>>
    THEN [c EXCEPT !.flag = FALSE, !.air = Higher(c.air, c.rcv)] ELSE c

(* Then after the acknowledgement, which a frame of the listener makes     *)
(* unnecessary.                                                            *)
AfterReply(f, c) ==
    IF ~c.sent /\ (f.len # 0 \/ c.rcv # f.seq)
    THEN [c EXCEPT !.flag = FALSE, !.air = Higher(c.air, c.rcv)] ELSE c

Becomes(c) ==
    /\ una' = c.una /\ nxt' = c.nxt /\ rcv' = c.rcv
    /\ finSeen' = c.flag
    /\ ackAir' = c.air

(* ... in the same state; sending starts the timer.                        *)
Remains(c) ==
    /\ Becomes(c)
    /\ IF c.sent THEN /\ timer' = TCP_STANDARD_RETRY_TOUT
                      /\ retries' = TCP_DEF_RETRIES
                 ELSE UNCHANGED timers
    /\ UNCHANGED <<st, closePending, view>>

(* Told that its data is acknowledged the listener closes: of f only its   *)
(* bytes in order and its FIN are acknowledged.                            *)
CloseOnAck(f) ==
    /\ AcksAll(f)
    /\ SendFin(nxt, IF f.seq = rcv THEN rcv + f.len ELSE rcv, finSeen \/ f.fin)
    /\ fnNewTCPState(IF f.fin THEN "CLOSING" ELSE "FIN_WAIT_1")

(* The listener closes instead of taking the bytes, which are taken back   *)
(* after the FIN has gone out.                                             *)
CloseOnData(f, c) ==
    /\ NewBytes(f) # <<>>
    /\ LET flag == c.flag /\ f.seq # rcv
           upto == rcv + Len(NewBytes(f)) + (IF flag THEN 1 ELSE 0)
       IN  IF c.una = c.nxt
           THEN /\ Becomes([c EXCEPT !.nxt = c.nxt + 1, !.flag = FALSE,
                                     !.rcv = upto - Len(NewBytes(f)),
                                     !.air = Higher(c.air, upto)])
                /\ fnNewTCPState("FIN_WAIT_1")
                /\ UNCHANGED <<closePending, view>>
           ELSE /\ Becomes([c EXCEPT !.flag = flag])
                /\ closePending' = TRUE
                /\ IF c.sent THEN /\ timer' = TCP_STANDARD_RETRY_TOUT
                                  /\ retries' = TCP_DEF_RETRIES
                             ELSE UNCHANGED timers
                /\ UNCHANGED <<st, view>>
    /\ UNCHANGED taken

(* Faulty: bytes that are refused still count as received.                 *)
LeaveDataCounted(f, c) ==
    /\ \/ Ignored(f) /\ Remains(c)
       \/ /\ ~Ignored(f) /\ NewBytes(f) # <<>>
          /\ Remains([c EXCEPT !.flag = c.flag /\ f.seq # rcv,
                               !.rcv = rcv + Len(NewBytes(f))])
    /\ UNCHANGED taken

(* It refuses the bytes, or they are ignored.                              *)
LeaveData(f, c) ==
    /\ \/ Ignored(f) /\ Remains(c)
       \/ /\ ~Ignored(f) /\ NewBytes(f) # <<>>
          /\ Remains([c EXCEPT !.flag = c.flag /\ f.seq # rcv])
    /\ UNCHANGED taken

(* Faulty: a FIN counts wherever it comes.                                 *)
TakeFinEarly(f, c) ==
    \/ \E next \in {"LAST_ACK", "CLOSE_WAIT"} :
          /\ Becomes([c EXCEPT !.nxt = c.nxt + 1, !.rcv = c.rcv + 1, !.flag = FALSE,
                               !.air = Higher(c.air, c.rcv + 1)])
          /\ fnNewTCPState(next)
          /\ UNCHANGED <<closePending, view>>
    \/ Remains(c)

(* The peer's FIN counts when nothing before f is missing.  The listener   *)
(* agrees, keeps its side open, or refuses.                                *)
TakeFin(f, c) ==
    \/ \E next \in {"LAST_ACK", "CLOSE_WAIT"} :
          /\ f.seq = rcv
          /\ Becomes([c EXCEPT !.nxt = c.nxt + 1, !.rcv = c.rcv + 1, !.flag = FALSE,
                               !.air = Higher(c.air, c.rcv + 1)])
          /\ fnNewTCPState(next)
          /\ UNCHANGED <<closePending, view>>
    \/ Remains(c)

HearData(f) ==
    /\ st = "ESTABLISHED"
    /\ \/ CloseOnAck(f)
       \/ /\ \E c \in AfterAck(f) :
                \/ LeaveData(f, c)
                \/ ~Ignored(f) /\ CloseOnData(f, c)
                \/ /\ ~Ignored(f)
                   /\ \E d \in AfterData(f, c) :
                         IF f.fin THEN TakeFin(f, d) ELSE Remains(AfterReply(f, d))
                   /\ taken' = taken \o NewBytes(f)
          /\ UNCHANGED <<polling, peer>>

-----------------------------------------------------------------------------
(*                           Closing states                                *)

(* A FIN is acknowledged with everything before it, received or not.       *)
fnCheckFIN(f) ==
    /\ f.fin
    /\ rcv' = f.seq + f.len + 1
    /\ Acknowledge(rcv')
    /\ finSeen' = FALSE

AcksFinOrData(f) == f.ack >= una (* Faulty: any new acknowledgement will do *)
AcksFin(f) == f.ack = nxt

HearClosing(f) ==
    /\ \/ /\ st = "FIN_WAIT_1" /\ AcksFin(f) /\ fnCheckFIN(f)
          /\ una' = nxt
          /\ EnterTimeWait
       \/ /\ st = "FIN_WAIT_1" /\ ~AcksFin(f) /\ fnCheckFIN(f)
          /\ fnNewTCPState("CLOSING")
          /\ UNCHANGED <<una, view>>
       \/ /\ st = "FIN_WAIT_1" /\ AcksFin(f) /\ ~f.fin
          /\ una' = nxt
          /\ fnNewTCPState("FIN_WAIT_2")
          /\ UNCHANGED <<rcv, finSeen, ackAir, view>>
       \/ /\ st = "FIN_WAIT_2" /\ fnCheckFIN(f)
          /\ EnterTimeWait
          /\ UNCHANGED una
       \/ /\ st = "CLOSING" /\ AcksFin(f)
          /\ una' = nxt
          /\ EnterTimeWait
          /\ UNCHANGED <<rcv, finSeen, ackAir>>
       \/ /\ st = "TIME_WAIT" /\ fnCheckFIN(f)
          /\ UNCHANGED <<una, st, timers, view>>
    /\ UNCHANGED <<nxt, closePending, polling, taken, peer>>

HearLastAck(f) ==
    /\ st = "LAST_ACK" /\ AcksFin(f)
    /\ Ended("closed")
    /\ UNCHANGED polling

HearSegment(f) ==
    \/ HearEstablished(f)
    \/ HearData(f)
    \/ HearClosing(f)
    \/ HearLastAck(f)

-----------------------------------------------------------------------------
(*                     The peer and the network                            *)

(* Our SYN is received.  It acknowledges the one of a peer that has called *)
(* us, a peer that was called answers with its own.                        *)
PeerHearsSyn ==
    /\ st \notin {"CLOSED", "LISTEN"}
    /\ pGot = 0
    /\ pGot' = 1
    /\ pUna' = pSent
    /\ pSent' = 1
    /\ UNCHANGED <<st, numbers, timers, polling, view, taken, pFin, pFinGot, ackAir>>

(* The end of the data on its way: a FIN, also one we have only counted,   *)
(* has the number before nxt.                                              *)
DataEnd == IF st \in FinSent \cup {"CLOSE_WAIT"} THEN nxt - 1 ELSE nxt

PeerHearsData ==
    /\ st \notin {"CLOSED", "LISTEN"} /\ una > 0
    /\ ~pFinGot
    /\ una <= pGot /\ pGot < DataEnd
    /\ pGot' = DataEnd
    /\ UNCHANGED <<st, numbers, timers, polling, view, taken, pSent, pFin, pFinGot,
                   pUna, ackAir>>

(* Our FIN bears the number of the first byte that is not acknowledged.    *)
PeerHearsFin ==
    /\ st \in FinSent /\ una # nxt
    /\ ~pFinGot /\ pGot = una
    /\ pGot' = una + 1
    /\ pFinGot' = TRUE
    /\ UNCHANGED <<st, numbers, timers, polling, view, taken, pSent, pFin, pUna,
                   ackAir>>

PeerHearsAck ==
    /\ ackAir # 0
    /\ pUna' = Higher(pUna, ackAir)
    /\ ackAir' = 0
    /\ UNCHANGED <<st, numbers, timers, polling, view, taken, pSent, pFin, pGot,
                   pFinGot>>

AckIsLost ==
    /\ ackAir # 0
    /\ ackAir' = 0
    /\ UNCHANGED <<st, numbers, timers, polling, view, taken, peer>>

PeerSends ==
    /\ st \notin {"CLOSED", "LISTEN"}
    /\ pGot > 0 /\ pUna > 0 /\ ~pFin
    /\ \/ pSent <= MaxIn /\ pSent' = pSent + 1 /\ UNCHANGED pFin
       \/ pFin' = TRUE /\ UNCHANGED pSent
    /\ UNCHANGED <<st, numbers, timers, polling, view, taken, pGot, pFinGot, pUna,
                   ackAir>>

Peer == PeerHearsSyn \/ PeerHearsData \/ PeerHearsFin \/ PeerHearsAck \/ AckIsLost \/ PeerSends

Next ==
    \/ fnTCP_Listen \/ fnTCP_Connect \/ fnTCP_close \/ fnSendTCP
    \/ \E idle \in BOOLEAN : fnPollTCP(idle)
    \/ HearReset \/ HearSyn \/ HearSynAck \/ HearOldSegment
    \/ \E f \in Segments : HearSegment(f)
    \/ Peer

Spec == Init /\ [][Next]_vars

(* Timer events go on; nothing is assumed of the idle timeout, the network *)
(* and the peer.                                                           *)
FairSpec == Spec /\ WF_vars(fnPollTCP(FALSE))

-----------------------------------------------------------------------------
(*                              Properties                                 *)

TypeOK ==
    /\ st \in States
    /\ una \in Nat /\ nxt \in Nat /\ rcv \in Nat
    /\ finSeen \in BOOLEAN /\ closePending \in BOOLEAN
    /\ timer \in Nat /\ retries \in Nat
    /\ polling \in BOOLEAN
    /\ view \in {"none", "open", "closed", "aborted"}
    /\ taken \in Seq(Nat)
    /\ pSent \in Nat /\ pFin \in BOOLEAN
    /\ pGot \in Int /\ pFinGot \in BOOLEAN
    /\ pUna \in Nat /\ ackAir \in Nat

(* Whatever the network does, the listener takes the bytes of the peer in  *)
(* order, each once.                                                       *)
StreamInOrder == taken = [i \in 1..Len(taken) |-> i]

(* The listener answers the acknowledgement in a frame by sending, and     *)
(* then refuses the data of the frame.                                     *)
RefusesAfterSending ==
    \E f \in Segments : HearData(f) /\ f.len # 0 /\ nxt' > nxt /\ taken' = taken

(* The peer is not told that bytes have arrived which the listener has not *)
(* taken, as long as the listener has not asked to close; but a refusal    *)
(* comes too late for what the listener sent in answer to the same frame.  *)
Overacked ==
    st = "ESTABLISHED" /\ ~closePending /\ Higher(pUna, ackAir) > Len(taken) + 1
AckedIsTaken == [][~Overacked /\ Overacked' => RefusesAfterSending]_vars

(* The listener is told of the peer's close, and agrees to it, only when   *)
(* it has taken all that was sent before.                                  *)
CloseIsLast ==
    st \in {"LAST_ACK", "CLOSE_WAIT"} => pFin /\ Len(taken) = pSent - 1

(* When the listener is told that its connection is closed the peer has    *)
(* received everything, our FIN included.                                  *)
ClosedIsComplete ==
    [][view = "open" /\ view' = "closed" /\ st # "SYN_SENT"
          => pFinGot /\ pGot = nxt]_vars

(* The end of a connection is never kept from the listener.                *)
EndIsTold == st \in {"CLOSED", "LISTEN"} => view # "open"

(* Sockets that have something to repeat or to time out are polled.        *)
PollingGoesOn == st \in Polled => polling

(* A connection that is being opened or closed, data that is not           *)
(* acknowledged and a close that has been asked for come to an end, in     *)
(* whatever way, without any help of the peer.                             *)
EndsInTime ==
    /\ st = "SYN_SENT" ~> st # "SYN_SENT"
    /\ st \in FinSent ~> st \notin FinSent
    /\ st = "ESTABLISHED" /\ una # nxt ~> una = nxt \/ st # "ESTABLISHED"
    /\ closePending ~> ~closePending \/ st # "ESTABLISHED"

(* The peer repeats its oldest byte that is not acknowledged; repeated for *)
(* ever it is received again and again, and so are acknowledgements.       *)
Outstanding == st = "ESTABLISHED" /\ 0 < pUna /\ pUna < pSent /\ ~pFin
Oldest == [seq |-> pUna, len |-> 1, fin |-> FALSE, ack |-> pGot]
PeerRepeats ==
    /\ Outstanding
    /\ HearData(Oldest)
    /\ taken' # taken \/ Oldest.seq < rcv
FairNetwork == SF_vars(PeerRepeats) /\ SF_vars(PeerHearsAck)

(* Such a peer is acknowledged, unless what it repeats is ignored for ever *)
(* as if it came after a gap: it ends before the last byte that was taken, *)
(* or it does come after one, of bytes refused too late (RefusesAfter-     *)
(* Sending).                                                               *)
TakenForGap == Oldest.seq + 1 < rcv \/ Oldest.seq > rcv
PeerIsAcked == FairNetwork => (Outstanding ~> ~Outstanding) \/ <>[]TakenForGap
=============================================================================
