------------------------------ MODULE TcpProofs ------------------------------
(***************************************************************************)
(* What is proved of a TCP socket for any timeouts, retries and lengths:   *)
(* Tcp under TcpAssumption.                                                *)
(***************************************************************************)
EXTENDS Tcp, TLAPS

-----------------------------------------------------------------------------
(*                      The inductive invariant                            *)

(* What was taken are the first bytes of the peer, and rcv counts them as  *)
(* long as the connection is open.                                         *)
Stream ==
    /\ StreamInOrder
    /\ taken # <<>> => Len(taken) < pSent
    /\ pSent <= MaxIn + 1
    /\ pGot = 0 => taken = <<>> /\ pSent <= 1
    /\ st \in Opening \cup {"CLOSED", "LISTEN"} => taken = <<>>
    /\ st = "ESTABLISHED" => rcv = Len(taken) + 1
    /\ st = "SYN_RCVD" => rcv = 1

(* The peer has an open connection when its data or its FIN is accepted.   *)
Closes ==
    /\ CloseIsLast
    /\ st \in {"ESTABLISHED", "LAST_ACK", "CLOSE_WAIT"} => pGot > 0

(* The peer has received nothing that was not sent, and our FIN only after *)
(* it has been sent; it is known to have it in FIN_WAIT_2.                 *)
Sent ==
    /\ una <= nxt /\ pGot <= nxt
    /\ st \notin {"CLOSED", "LISTEN"} => nxt > 0
    /\ st = "SYN_RCVD" => una = 0 /\ nxt = 1
    /\ st \in FinSent => nxt > 1 /\ (pFinGot \/ pGot < nxt)
    /\ st = "FIN_WAIT_2" => pFinGot /\ pGot = nxt

Told ==
    /\ EndIsTold
    /\ st = "TIME_WAIT" => view # "open"
    /\ PollingGoesOn

IInv == TypeOK /\ Stream /\ Closes /\ Sent /\ Told

-----------------------------------------------------------------------------
(*                             Values                                      *)

LEMMA Bounds ==
    /\ TCP_STANDARD_RETRY_TOUT \in Nat \ {0} /\ TCP_STANDARD_RETRY_TOUT - 1 \in Nat
    /\ TCP_SYN_RETRY_TOUT \in Nat /\ TCP_FIN_WAIT_2_TIMEOUT \in Nat
    /\ 2 * TCP_MSL_TIMEOUT \in Nat /\ TCP_DEF_RETRIES \in Nat
    /\ MaxOut \in Nat /\ MaxIn \in Nat
    /\ LengthMod \in Nat /\ LengthMod > 2 * (MaxIn + 1)
  BY TcpAssumption

LEMMA HigherNat ==
    ASSUME NEW a \in Nat, NEW b \in Nat
    PROVE  /\ Higher(a, b) \in Nat
           /\ Higher(a, b) >= a /\ Higher(a, b) >= b
           /\ Higher(a, b) \in {a, b}
  BY DEF Higher

LEMMA EmptyOrder == <<>> = [i \in 1..Len(<<>>) |-> i] /\ Len(<<>>) = 0 /\ <<>> \in Seq(Nat)
  OBVIOUS

LEMMA NewStateTypes ==
    ASSUME NEW next \in States, fnNewTCPState(next)
    PROVE  st' = next /\ st' \in States /\ timer' \in Nat /\ retries' \in Nat
  BY Bounds DEF fnNewTCPState

LEMMA InitInv == Init => IInv
  <1> SUFFICES ASSUME Init PROVE IInv
    OBVIOUS
  <1>1. TypeOK
    <2>1. taken \in Seq(Nat)
      BY EmptyOrder DEF Init
    <2>2. finSeen \in BOOLEAN /\ closePending \in BOOLEAN /\ polling \in BOOLEAN
          /\ pFin \in BOOLEAN /\ pFinGot \in BOOLEAN
      BY DEF Init
    <2>3. st \in States /\ view \in {"none", "open", "closed", "aborted"}
      BY DEF Init, States
    <2>4. una \in Nat /\ nxt \in Nat /\ rcv \in Nat /\ timer \in Nat /\ retries \in Nat
          /\ pSent \in Nat /\ pGot \in Int /\ pUna \in Nat /\ ackAir \in Nat
      BY DEF Init
    <2> QED
      BY <2>1, <2>2, <2>3, <2>4 DEF TypeOK
  <1>2. Stream
    <2>1. StreamInOrder
      BY EmptyOrder DEF Init, StreamInOrder
    <2> QED
      BY <2>1, Bounds DEF Init, Stream, Opening
  <1>3. Closes /\ Sent /\ Told
    BY DEF Init, Closes, CloseIsLast, Sent, FinSent, Told, EndIsTold, PollingGoesOn,
           Polled, Opening
  <1> QED
    BY <1>1, <1>2, <1>3 DEF IInv

(* Nothing is left to be wrong about a connection that is over.            *)
LEMMA Forgotten ==
    ASSUME Forget, st' \in {"CLOSED", "LISTEN"}, polling' \in BOOLEAN,
           view' \in {"none", "closed", "aborted"}
    PROVE  IInv'
  <1>1. TypeOK'
    <2>1. taken' \in Seq(Nat)
      BY EmptyOrder DEF Forget
    <2>2. st' \in States /\ view' \in {"none", "open", "closed", "aborted"}
      BY DEF States
    <2>3. finSeen' \in BOOLEAN /\ closePending' \in BOOLEAN
          /\ pFin' \in BOOLEAN /\ pFinGot' \in BOOLEAN
      BY DEF Forget
    <2>4. una' \in Nat /\ nxt' \in Nat /\ rcv' \in Nat /\ timer' \in Nat /\ retries' \in Nat
          /\ pSent' \in Nat /\ pGot' \in Int /\ pUna' \in Nat /\ ackAir' \in Nat
      BY Bounds DEF Forget
    <2> QED
      BY <2>1, <2>2, <2>3, <2>4 DEF TypeOK
  <1>2. Stream'
    <2>1. StreamInOrder'
      BY EmptyOrder DEF Forget, StreamInOrder
    <2> QED
      BY <2>1, Bounds DEF Forget, Stream
  <1>3. Closes' /\ Sent' /\ Told'
    BY DEF Forget, Closes, CloseIsLast, Sent, FinSent, Told, EndIsTold,
           PollingGoesOn, Polled, Opening
  <1> QED
    BY <1>1, <1>2, <1>3 DEF IInv

LEMMA EndedStep ==
    ASSUME polling' \in BOOLEAN, NEW how \in {"closed", "aborted"}, Ended(how)
    PROVE  IInv'
  BY Forgotten DEF Ended

-----------------------------------------------------------------------------
(*                          Calls and polls                                *)

LEMMA ListenStep == ASSUME IInv, fnTCP_Listen PROVE IInv'
  <1>1. view \in {"none", "closed", "aborted"} /\ polling \in BOOLEAN
    BY DEF fnTCP_Listen, IInv, Told, EndIsTold, TypeOK
  <1> QED
    BY <1>1, Forgotten DEF fnTCP_Listen

LEMMA ConnectStep == ASSUME IInv, fnTCP_Connect PROVE IInv'
  <1>1. TypeOK'
    <2>1. taken' \in Seq(Nat)
      BY EmptyOrder DEF fnTCP_Connect
    <2>2. st' \in States
      BY DEF fnTCP_Connect, States, Opening
    <2>3. finSeen' \in BOOLEAN /\ closePending' \in BOOLEAN /\ polling' \in BOOLEAN
          /\ pFin' \in BOOLEAN /\ pFinGot' \in BOOLEAN
      BY DEF fnTCP_Connect, fnRestartTCP_timer
    <2>4. una' \in Nat /\ nxt' \in Nat /\ rcv' \in Nat /\ timer' \in Nat /\ retries' \in Nat
          /\ pSent' \in Nat /\ pGot' \in Int /\ pUna' \in Nat /\ ackAir' \in Nat
      BY Bounds DEF fnTCP_Connect
    <2>5. view' \in {"none", "open", "closed", "aborted"}
      BY DEF fnTCP_Connect
    <2> QED
      BY <2>1, <2>2, <2>3, <2>4, <2>5 DEF TypeOK
  <1>2. Stream'
    <2>1. StreamInOrder'
      BY EmptyOrder DEF fnTCP_Connect, StreamInOrder
    <2> QED
      BY <2>1, Bounds DEF fnTCP_Connect, Stream
  <1>3. Closes' /\ Sent' /\ Told'
    BY DEF fnTCP_Connect, fnRestartTCP_timer, Closes, CloseIsLast, Sent, FinSent, Told,
           EndIsTold, PollingGoesOn, Polled, Opening
  <1> QED
    BY <1>1, <1>2, <1>3 DEF IInv

(* A FIN of ours with the number before nxt'.                              *)
LEMMA FinStep ==
    ASSUME IInv, st \in {"SYN_RCVD", "ESTABLISHED"},
           NEW next \in {"FIN_WAIT_1", "CLOSING"}, fnNewTCPState(next),
           una' \in Nat, nxt' \in Nat, una' <= nxt', nxt' > nxt, rcv' \in Nat,
           finSeen' \in BOOLEAN, closePending' \in BOOLEAN, ackAir' \in Nat,
           polling' = polling, view' = view, taken' = taken, peer' = peer
    PROVE  IInv'
  <1>1. next \in States /\ next \in FinSent /\ next \notin {"FIN_WAIT_2", "TIME_WAIT", "LAST_ACK"}
        /\ st' = next /\ timer' \in Nat /\ retries' \in Nat
    BY NewStateTypes DEF States, FinSent
  <1>2. TypeOK'
    BY <1>1 DEF IInv, TypeOK, peer
  <1>3. Stream'
    BY <1>1 DEF IInv, Stream, StreamInOrder, peer, FinSent, Opening
  <1>4. Closes' /\ Sent'
    BY <1>1 DEF IInv, TypeOK, Closes, CloseIsLast, Sent, peer
  <1>5. Told'
    BY <1>1 DEF IInv, Told, EndIsTold, PollingGoesOn, Polled, Opening
  <1> QED
    BY <1>2, <1>3, <1>4, <1>5 DEF IInv

(* A step that leaves the state of the connection, what was taken and the  *)
(* peer, sends only beyond nxt, and acknowledges what was received.        *)
LEMMA QuietStep ==
    ASSUME IInv, st' = st, view' = view, taken' = taken, peer' = peer,
           polling' \in BOOLEAN, st \in Polled => polling',
           una' = una \/ (una' = nxt' /\ st # "SYN_RCVD"), nxt' \in Nat, nxt' >= nxt,
           nxt' = nxt \/ st = "ESTABLISHED",
           rcv' = rcv \/ (rcv' \in Nat /\ st \in FinSent),
           finSeen' \in BOOLEAN, closePending' \in BOOLEAN,
           timer' \in Nat, retries' \in Nat, ackAir' \in Nat
    PROVE  IInv'
  <1>1. TypeOK'
    BY DEF IInv, TypeOK, peer
  <1>2. Stream'
    BY DEF IInv, Stream, StreamInOrder, peer, FinSent, Opening
  <1>3. Closes' /\ Sent'
    BY DEF IInv, TypeOK, Closes, CloseIsLast, Sent, peer, FinSent
  <1>4. Told'
    BY DEF IInv, Told, EndIsTold, PollingGoesOn
  <1> QED
    BY <1>1, <1>2, <1>3, <1>4 DEF IInv

LEMMA CloseStep == ASSUME IInv, fnTCP_close PROVE IInv'
  <1>1. polling \in BOOLEAN /\ view \in {"none", "open", "closed", "aborted"}
        /\ una \in Nat /\ nxt \in Nat /\ rcv \in Nat /\ ackAir \in Nat
        /\ finSeen \in BOOLEAN /\ closePending \in BOOLEAN
        /\ timer \in Nat /\ retries \in Nat /\ una <= nxt
    BY DEF IInv, TypeOK, Sent
  <1>2. ASSUME st = "SYN_RCVD", SendFin(una + 1, rcv, FALSE), fnNewTCPState("FIN_WAIT_1")
        PROVE  IInv'
    <2>1. una = 0 /\ nxt = 1
      BY <1>2 DEF IInv, Sent
    <2>2. /\ una' = 1 /\ nxt' = 2 /\ rcv' = rcv /\ finSeen' = FALSE
          /\ ackAir' = Higher(ackAir, rcv')
          /\ closePending' = closePending /\ polling' = polling /\ view' = view
          /\ taken' = taken /\ peer' = peer
      BY <1>1, <1>2, <2>1 DEF SendFin, Acknowledge
    <2>3. ackAir' \in Nat /\ una' \in Nat /\ nxt' \in Nat /\ una' <= nxt' /\ nxt' > nxt
          /\ rcv' \in Nat
      BY <1>1, <2>1, <2>2, HigherNat
    <2> QED
      BY <1>1, <1>2, <2>2, <2>3, FinStep
  <1>3. ASSUME st = "ESTABLISHED", SendFin(nxt, rcv, finSeen), fnNewTCPState("FIN_WAIT_1")
        PROVE  IInv'
    <2>1. /\ una' = nxt /\ nxt' = nxt + 1 /\ rcv' \in Nat /\ finSeen' = FALSE
          /\ ackAir' = Higher(ackAir, rcv')
          /\ closePending' = closePending /\ polling' = polling /\ view' = view
          /\ taken' = taken /\ peer' = peer
      BY <1>1, <1>3 DEF SendFin, Acknowledge
    <2>2. ackAir' \in Nat /\ una' \in Nat /\ nxt' \in Nat /\ una' <= nxt' /\ nxt' > nxt
      BY <1>1, <2>1, HigherNat
    <2> QED
      BY <1>1, <1>3, <2>1, <2>2, FinStep
  <1>4. ASSUME st = "SYN_SENT", Ended("closed"), UNCHANGED polling
        PROVE  IInv'
    BY <1>1, <1>4, EndedStep
  <1>5. ASSUME st = "LISTEN", st' = "CLOSED", Forget, UNCHANGED <<view, polling>>
        PROVE  IInv'
    <2>1. view # "open"
      BY <1>5 DEF IInv, Told, EndIsTold
    <2> QED
      BY <1>1, <1>5, <2>1, Forgotten
  <1>6. ASSUME closePending' = TRUE,
               UNCHANGED <<st, una, nxt, rcv, finSeen, timers, polling, view, taken,
                           peer, ackAir>>
        PROVE  IInv'
    <2>1. st \in Polled => polling
      BY DEF IInv, Told, PollingGoesOn
    <2>2. /\ st' = st /\ una' = una /\ nxt' = nxt /\ rcv' = rcv /\ finSeen' = finSeen
          /\ timer' = timer /\ retries' = retries /\ polling' = polling /\ view' = view
          /\ taken' = taken /\ peer' = peer /\ ackAir' = ackAir
      BY <1>6 DEF timers
    <2> QED
      BY <1>1, <1>6, <2>1, <2>2, QuietStep
  <1> QED
    BY <1>2, <1>3, <1>4, <1>5, <1>6 DEF fnTCP_close

LEMMA SendStep == ASSUME IInv, fnSendTCP PROVE IInv'
  <1>1. /\ una \in Nat /\ nxt \in Nat /\ rcv \in Nat /\ ackAir \in Nat /\ polling \in BOOLEAN
        /\ finSeen \in BOOLEAN /\ closePending \in BOOLEAN
        /\ st \in Polled => polling
    BY DEF IInv, TypeOK, Told, PollingGoesOn
  <1>2. PICK n \in Sendable : nxt' = nxt + n
    BY DEF fnSendTCP
  <1>3. n \in Nat
    BY <1>1, <1>2, Bounds DEF Sendable
  <1>4. ackAir' \in Nat
    BY <1>1, HigherNat DEF fnSendTCP, Acknowledge
  <1>5. /\ st = "ESTABLISHED" /\ st' = st /\ una' = una /\ rcv' = rcv
        /\ finSeen' = finSeen /\ closePending' = closePending /\ polling' = polling
        /\ view' = view /\ taken' = taken /\ peer' = peer
        /\ timer' \in Nat /\ retries' \in Nat
    BY Bounds DEF fnSendTCP
  <1>6. nxt' \in Nat /\ nxt' >= nxt
    BY <1>1, <1>2, <1>3
  <1> QED
    BY <1>1, <1>4, <1>5, <1>6, QuietStep

(* Nothing changes but the timer and what is acknowledged.                 *)
LEMMA TimerStep ==
    ASSUME IInv, st' = st, numbers' = numbers, view' = view, taken' = taken, peer' = peer,
           polling' \in BOOLEAN, st \in Polled => polling',
           timer' \in Nat, retries' \in Nat, ackAir' \in Nat
    PROVE  IInv'
  <1>1. /\ una' = una /\ nxt' = nxt /\ rcv' = rcv
        /\ finSeen' = finSeen /\ closePending' = closePending
    BY DEF numbers
  <1>2. nxt' \in Nat /\ nxt' >= nxt /\ finSeen' \in BOOLEAN /\ closePending' \in BOOLEAN
    BY <1>1 DEF IInv, TypeOK
  <1> QED
    BY <1>1, <1>2, QuietStep

LEMMA CountDownStep ==
    ASSUME IInv, NEW timeout \in Nat, fnDoCountDown(timeout), st \in Polled, polling' = TRUE
    PROVE  IInv'
  <1>1. /\ timer \in Nat /\ retries \in Nat /\ rcv \in Nat /\ ackAir \in Nat
    BY DEF IInv, TypeOK
  <1>2. CASE fnAbortTCPSession
    BY <1>2, EndedStep DEF fnAbortTCPSession
  <1>3. CASE ~fnAbortTCPSession
    <2>1. /\ st' = st /\ numbers' = numbers /\ view' = view /\ taken' = taken /\ peer' = peer
      BY <1>3 DEF fnDoCountDown
    <2>2. timer' \in Nat /\ retries' \in Nat
      BY <1>1, <1>3 DEF fnDoCountDown
    <2>3. ackAir' = ackAir \/ ackAir' = Higher(ackAir, rcv)
      BY <1>3 DEF fnDoCountDown, Acknowledge
    <2>4. ackAir' \in Nat
      BY <1>1, <2>3, HigherNat
    <2> QED
      BY <2>1, <2>2, <2>4, TimerStep
  <1> QED
    BY <1>2, <1>3

LEMMA PollEstablishedStep ==
    ASSUME IInv, NEW idle \in BOOLEAN, PollEstablished(idle), st = "ESTABLISHED",
           polling' = TRUE, polling = TRUE
    PROVE  IInv'
  <1>1. /\ timer \in Nat /\ retries \in Nat /\ rcv \in Nat /\ ackAir \in Nat /\ una \in Nat
        /\ nxt \in Nat /\ finSeen \in BOOLEAN /\ closePending \in BOOLEAN /\ una <= nxt
    BY DEF IInv, TypeOK, Sent
  <1>2. CASE PollClose \/ PollIdle
    <2>1. /\ una' = una /\ nxt' = nxt + 1 /\ rcv' = rcv
          /\ finSeen' \in BOOLEAN /\ closePending' \in BOOLEAN
          /\ ackAir' = Higher(ackAir, rcv)
          /\ fnNewTCPState("FIN_WAIT_1")
          /\ view' = view /\ taken' = taken /\ peer' = peer
      BY <1>1, <1>2 DEF PollClose, PollIdle, Acknowledge
    <2>2. ackAir' \in Nat /\ una' \in Nat /\ nxt' \in Nat /\ una' <= nxt' /\ nxt' > nxt
          /\ rcv' \in Nat
      BY <1>1, <2>1, HigherNat
    <2> QED
      BY <2>1, <2>2, FinStep
  <1>3. CASE PollData
    <2>1. CASE fnAbortTCPSession
      BY <2>1, EndedStep DEF fnAbortTCPSession
    <2>2. CASE ~fnAbortTCPSession
      <3>1. /\ st' = st /\ numbers' = numbers /\ view' = view /\ taken' = taken /\ peer' = peer
        BY <1>3, <2>2 DEF PollData
      <3>2. timer' \in Nat /\ retries' \in Nat
        BY <1>1, <1>3, <2>2, Bounds DEF PollData, timers
      <3>3. ackAir' = ackAir \/ ackAir' = Higher(ackAir, rcv)
        BY <1>3, <2>2 DEF PollData, Acknowledge
      <3>4. ackAir' \in Nat
        BY <1>1, <3>3, HigherNat
      <3> QED
        BY <3>1, <3>2, <3>4, TimerStep
    <2> QED
      BY <2>1, <2>2
  <1> QED
    BY <1>2, <1>3 DEF PollEstablished

LEMMA PollStep == ASSUME IInv, NEW idle \in BOOLEAN, fnPollTCP(idle) PROVE IInv'
  <1>1. /\ timer \in Nat /\ retries \in Nat /\ ackAir \in Nat
        /\ polling = TRUE /\ polling' \in BOOLEAN
        /\ polling' = (st \in Polled)
    BY DEF IInv, TypeOK, fnPollTCP
  <1>2. CASE st = "ESTABLISHED" /\ PollEstablished(idle)
    <2>1. polling' = TRUE
      BY <1>1, <1>2 DEF Polled
    <2> QED
      BY <1>1, <1>2, <2>1, PollEstablishedStep
  <1>3. CASE st = "SYN_SENT" /\ fnDoCountDown(TCP_SYN_RETRY_TOUT)
    <2>1. st \in Polled /\ polling' = TRUE
      BY <1>1, <1>3 DEF Polled, Opening
    <2> QED
      BY <1>3, <2>1, CountDownStep, Bounds
  <1>4. CASE /\ st \in {"SYN_RCVD", "LAST_ACK", "FIN_WAIT_1", "CLOSING", "FIN_WAIT_2"}
             /\ fnDoCountDown(TCP_STANDARD_RETRY_TOUT)
    <2>1. st \in Polled /\ polling' = TRUE
      BY <1>1, <1>4 DEF Polled, Opening, FinSent
    <2> QED
      BY <1>4, <2>1, CountDownStep, Bounds
  <1>5. CASE /\ st = "TIME_WAIT" /\ timer # 0 /\ timer' = timer - 1
             /\ UNCHANGED <<st, numbers, retries, view, taken, peer, ackAir>>
    <2>1. /\ st' = st /\ numbers' = numbers /\ view' = view /\ taken' = taken /\ peer' = peer
          /\ timer' \in Nat /\ retries' \in Nat /\ ackAir' \in Nat
      BY <1>1, <1>5
    <2> QED
      BY <1>1, <2>1, TimerStep
  <1>6. CASE st = "TIME_WAIT" /\ st' = "CLOSED" /\ Forget /\ UNCHANGED view
    <2>1. view' \in {"none", "closed", "aborted"}
      BY <1>6 DEF IInv, TypeOK, Told
    <2> QED
      BY <1>1, <1>6, <2>1, Forgotten
  <1>7. CASE st \notin Polled /\ UNCHANGED <<st, numbers, timers, view, taken, peer, ackAir>>
    <2>1. /\ st' = st /\ numbers' = numbers /\ view' = view /\ taken' = taken /\ peer' = peer
          /\ timer' \in Nat /\ retries' \in Nat /\ ackAir' \in Nat
      BY <1>1, <1>7 DEF timers
    <2> QED
      BY <1>1, <1>7, <2>1, TimerStep
  <1> QED
    BY <1>2, <1>3, <1>4, <1>5, <1>6, <1>7 DEF fnPollTCP

-----------------------------------------------------------------------------
(*                     Connections begin and break                         *)

LEMMA ResetStep == ASSUME IInv, HearReset \/ HearOldSegment PROVE IInv'
  <1>1. polling' \in BOOLEAN
    BY DEF IInv, TypeOK, HearReset, HearOldSegment
  <1>2. Ended("aborted")
    BY DEF HearReset, HearOldSegment, fnAbortTCPSession
  <1> QED
    BY <1>1, <1>2, EndedStep

LEMMA AcceptStep == ASSUME IInv, Accept PROVE IInv'
  <1>1. /\ st' = "SYN_RCVD" /\ st' \in States /\ timer' \in Nat /\ retries' \in Nat
    BY NewStateTypes DEF Accept, States, Opening
  <1>2. /\ polling' = TRUE /\ view' = "open" /\ una' = 0 /\ nxt' = 1 /\ rcv' = 1
        /\ finSeen' = FALSE /\ closePending' = FALSE /\ taken' = <<>>
        /\ pSent' = Higher(pSent, 1) /\ pGot' \in {0, -1} /\ (pGot' = 0 => pGot = 0)
        /\ pFin' = pFin /\ pFinGot' = pFinGot /\ pUna' = pUna /\ ackAir' = ackAir
    BY DEF Accept, fnRestartTCP_timer, Astray
  <1>3. pSent' \in Nat /\ pSent' <= MaxIn + 1 /\ (pGot = 0 => pSent' <= 1)
    <2>1. pSent \in Nat /\ pSent <= MaxIn + 1 /\ (pGot = 0 => pSent <= 1)
      BY DEF IInv, TypeOK, Stream
    <2> QED
      BY <1>2, <2>1, Bounds DEF Higher
  <1>4. TypeOK'
    <2>1. taken' \in Seq(Nat)
      BY <1>2, EmptyOrder
    <2>2. /\ finSeen' \in BOOLEAN /\ closePending' \in BOOLEAN /\ polling' \in BOOLEAN
          /\ pFin' \in BOOLEAN /\ pFinGot' \in BOOLEAN
      BY <1>2 DEF IInv, TypeOK
    <2>3. una' \in Nat /\ nxt' \in Nat /\ rcv' \in Nat /\ pGot' \in Int /\ pUna' \in Nat
          /\ ackAir' \in Nat
      BY <1>2 DEF IInv, TypeOK
    <2>4. view' \in {"none", "open", "closed", "aborted"}
      BY <1>2
    <2> QED
      BY <1>1, <1>3, <2>1, <2>2, <2>3, <2>4 DEF TypeOK
  <1>5. Stream'
    <2>1. StreamInOrder'
      BY <1>2, EmptyOrder DEF StreamInOrder
    <2> QED
      BY <1>1, <1>2, <1>3, <2>1 DEF Stream
  <1>6. Closes' /\ Sent'
    BY <1>1, <1>2 DEF Closes, CloseIsLast, Sent, FinSent
  <1>7. Told'
    BY <1>1, <1>2 DEF Told, EndIsTold, PollingGoesOn
  <1> QED
    BY <1>4, <1>5, <1>6, <1>7 DEF IInv

LEMMA SynStep == ASSUME IInv, HearSyn PROVE IInv'
  <1>1. polling \in BOOLEAN
    BY DEF IInv, TypeOK
  <1>2. CASE Accept
    BY <1>2, AcceptStep
  <1>3. CASE st' = "LISTEN" /\ view' = "none" /\ Forget /\ UNCHANGED polling
    BY <1>1, <1>3, Forgotten
  <1>4. CASE Ended("aborted") /\ UNCHANGED polling
    BY <1>1, <1>4, EndedStep
  <1> QED
    BY <1>2, <1>3, <1>4 DEF HearSyn

(* The handshake is over; nothing of the peer has been taken yet.          *)
LEMMA EstablishStep ==
    ASSUME IInv, st \in Opening, pGot > 0, fnNewTCPState("ESTABLISHED"),
           una' = nxt, nxt' = nxt, rcv' = 1, finSeen' \in BOOLEAN, closePending' = closePending,
           polling' = polling, view' = view, taken' = taken, peer' = peer, ackAir' \in Nat
    PROVE  IInv'
  <1>1. st' = "ESTABLISHED" /\ st' \in States /\ timer' \in Nat /\ retries' \in Nat
    BY NewStateTypes DEF States
  <1>2. st \in Polled
    BY DEF Polled
  <1>3. taken = <<>> /\ taken' = <<>> /\ Len(taken') = 0
    BY EmptyOrder DEF IInv, Stream
  <1>4. TypeOK'
    BY <1>1 DEF IInv, TypeOK, peer
  <1>5. Stream'
    BY <1>1, <1>3 DEF IInv, Stream, StreamInOrder, peer, Opening
  <1>6. Closes' /\ Sent'
    BY <1>1 DEF IInv, TypeOK, Closes, CloseIsLast, Sent, peer, FinSent, Opening
  <1>7. Told'
    BY <1>1, <1>2 DEF IInv, Told, EndIsTold, PollingGoesOn, Polled
  <1> QED
    BY <1>4, <1>5, <1>6, <1>7 DEF IInv

LEMMA SynAckStep == ASSUME IInv, HearSynAck PROVE IInv'
  <1>1. /\ timer \in Nat /\ retries \in Nat /\ rcv \in Nat /\ ackAir \in Nat /\ una \in Nat
        /\ nxt \in Nat /\ finSeen \in BOOLEAN /\ closePending \in BOOLEAN /\ una <= nxt
        /\ polling \in BOOLEAN /\ (st \in Polled => polling)
    BY DEF IInv, TypeOK, Sent, Told, PollingGoesOn
  <1>2. /\ pGot > 0 /\ polling' = polling /\ taken' = taken /\ peer' = peer
        /\ closePending' = closePending /\ view' = view /\ nxt' = nxt /\ finSeen' = FALSE
    BY DEF HearSynAck
  <1>3. CASE /\ st = "SYN_SENT" /\ rcv' = 1 /\ una' = nxt /\ Acknowledge(1)
             /\ fnNewTCPState("ESTABLISHED")
    <2>1. ackAir' \in Nat
      BY <1>1, <1>3, HigherNat DEF Acknowledge
    <2>2. st \in Opening
      BY <1>3 DEF Opening
    <2> QED
      BY <1>1, <1>2, <1>3, <2>1, <2>2, EstablishStep
  <1>4. CASE /\ Acknowledge(rcv) /\ UNCHANGED <<st, una, nxt, rcv, closePending, timers, view>>
    <2>1. ackAir' \in Nat
      BY <1>1, <1>4, HigherNat DEF Acknowledge
    <2>2. /\ st' = st /\ una' = una /\ nxt' = nxt /\ rcv' = rcv
          /\ timer' = timer /\ retries' = retries
      BY <1>4 DEF timers
    <2>3. finSeen' \in BOOLEAN
      BY <1>2
    <2> QED
      BY <1>1, <1>2, <2>1, <2>2, <2>3, QuietStep
  <1> QED
    BY <1>3, <1>4 DEF HearSynAck

-----------------------------------------------------------------------------
(*                               Segments                                  *)

LEMMA SegmentFacts ==
    ASSUME IInv, NEW f \in Segments
    PROVE  /\ f.seq \in Nat /\ f.seq >= 1 /\ f.len \in Nat /\ f.fin \in BOOLEAN /\ f.ack \in Nat
           /\ f.ack > 0 => f.ack <= pGot
           /\ f.len # 0 => f.seq + f.len <= pSent
           /\ f.len = 0 => f.seq <= pSent + 1
           /\ f.fin => pFin /\ f.seq + f.len = pSent
  <1>1. pSent \in Nat /\ pGot \in Int
    BY DEF IInv, TypeOK
  <1>2. Higher(pGot, 0) \in Nat /\ (Higher(pGot, 0) > 0 => Higher(pGot, 0) = pGot)
    BY <1>1 DEF Higher
  <1>3. f \in [seq : 1..(pSent + 1), len : 0..pSent, fin : BOOLEAN, ack : 0..Higher(pGot, 0)]
    BY DEF Segments
  <1>4. f.seq \in 1..(pSent + 1) /\ f.len \in 0..pSent /\ f.fin \in BOOLEAN
        /\ f.ack \in 0..Higher(pGot, 0)
    BY <1>3
  <1>5. /\ f.seq + f.len <= pSent + (IF pFin /\ f.len = 0 THEN 1 ELSE 0)
        /\ f.fin => pFin /\ f.seq + f.len = pSent
    BY DEF Segments
  <1>6. f.len # 0 => f.seq + f.len <= pSent
    BY <1>1, <1>4, <1>5
  <1> QED
    BY <1>1, <1>2, <1>4, <1>5, <1>6

LEMMA HandshakeStep ==
    ASSUME IInv, NEW f \in Segments, HearEstablished(f)
    PROVE  IInv'
  <1>1. st \in Opening /\ nxt = 1 /\ rcv = 1
    BY DEF IInv, Stream, Sent, HearEstablished, Opening
  <1>2. pGot > 0
    <2>1. f.ack \in Nat /\ (f.ack > 0 => f.ack <= pGot) /\ pGot \in Int
      BY SegmentFacts DEF IInv, TypeOK
    <2> QED
      BY <1>1, <2>1 DEF HearEstablished
  <1>3. /\ fnNewTCPState("ESTABLISHED") /\ una' = nxt /\ nxt' = nxt /\ rcv' = 1
        /\ closePending' = closePending /\ polling' = polling /\ view' = view
        /\ taken' = taken /\ peer' = peer
    BY <1>1 DEF HearEstablished
  <1>4. finSeen' \in BOOLEAN /\ ackAir' \in Nat
    BY DEF HearEstablished, IInv, TypeOK
  <1> QED
    BY <1>1, <1>2, <1>3, <1>4, EstablishStep

(* The difference of two numbers, in modular arithmetic.                   *)
LEMMA ModFacts ==
    ASSUME NEW d \in Int, NEW M \in Nat, -M < d, d < M
    PROVE  d % M = IF d >= 0 THEN d ELSE d + M
  OBVIOUS

(* What has been received in order never exceeds what was sent.            *)
LEMMA Received ==
    ASSUME IInv, st = "ESTABLISHED"
    PROVE  /\ Len(taken) \in Nat /\ rcv = Len(taken) + 1
           /\ rcv <= pSent \/ rcv = 1
           /\ pSent \in Nat /\ pSent <= MaxIn + 1
  <1>1. taken \in Seq(Nat) /\ pSent \in Nat /\ rcv = Len(taken) + 1 /\ pSent <= MaxIn + 1
    BY DEF IInv, TypeOK, Stream
  <1>2. Len(taken) \in Nat
    BY <1>1
  <1>3. CASE taken = <<>>
    BY <1>1, <1>3, EmptyOrder
  <1>4. CASE taken # <<>>
    <2>1. Len(taken) < pSent
      BY <1>4 DEF IInv, Stream
    <2> QED
      BY <1>1, <1>2, <2>1
  <1> QED
    BY <1>3, <1>4

(* Which of a segment's bytes are new: those from rcv on.                  *)
LEMMA ExtraFacts ==
    ASSUME IInv, st = "ESTABLISHED", NEW f \in Segments, f.len # 0, ~Ignored(f)
    PROVE  /\ Extra(f) = f.seq + f.len - rcv /\ Extra(f) \in Nat
           /\ rcv + Extra(f) <= pSent
           /\ f.seq = rcv => Extra(f) = f.len
  <1>1. f.seq \in Nat /\ f.len \in Nat /\ f.seq >= 1 /\ f.seq + f.len <= pSent
    BY SegmentFacts
  <1>2. /\ rcv \in Nat /\ rcv >= 1 /\ pSent \in Nat /\ pSent <= MaxIn + 1
        /\ rcv <= pSent \/ rcv = 1
    BY Received
  <1>3. rcv <= MaxIn + 1
    BY <1>2, Bounds
  <1> DEFINE d == f.len - (rcv - f.seq)
  <1>4. d \in Int /\ d = f.seq + f.len - rcv /\ -LengthMod < d /\ d < LengthMod
    BY <1>1, <1>2, <1>3, Bounds
  <1>5. Extra(f) = IF d >= 0 THEN d ELSE d + LengthMod
    BY <1>4, ModFacts, Bounds DEF Extra
  <1>6. Extra(f) <= f.len
    <2> HIDE DEF d
    <2>1. Extra(f) \in Int
      BY <1>4, <1>5, Bounds
    <2> QED
      BY <1>1, <2>1 DEF Ignored
  <1>7. d >= 0
    <2>1. SUFFICES ASSUME d < 0 PROVE FALSE
      BY <1>4
    <2>2. d + LengthMod <= f.len
      BY <1>4, <1>5, <1>6, <2>1
    <2> QED
      BY <1>1, <1>2, <1>3, <1>4, <2>2, Bounds
  <1>8. Extra(f) = d
    BY <1>4, <1>5, <1>7
  <1> HIDE DEF d
  <1> QED
    BY <1>1, <1>2, <1>4, <1>7, <1>8

LEMMA NewBytesFacts ==
    ASSUME IInv, st = "ESTABLISHED", NEW f \in Segments, ~Ignored(f)
    PROVE  /\ NewBytes(f) \in Seq(Nat) /\ Len(NewBytes(f)) \in Nat
           /\ \A i \in 1..Len(NewBytes(f)) : NewBytes(f)[i] = rcv + i - 1
           /\ NewBytes(f) # <<>> => f.len # 0 /\ rcv + Len(NewBytes(f)) <= pSent
           /\ f.seq = rcv => Len(NewBytes(f)) = f.len
  <1>0. f.len \in Nat /\ f.seq \in Nat /\ rcv \in Nat
    BY SegmentFacts DEF IInv, TypeOK
  <1>1. CASE f.len = 0
    <2>1. NewBytes(f) = <<>>
      BY <1>1 DEF NewBytes
    <2>2. Len(NewBytes(f)) = 0 /\ NewBytes(f) \in Seq(Nat)
      BY <2>1, EmptyOrder
    <2> QED
      BY <1>1, <2>1, <2>2
  <1>2. CASE f.len # 0
    <2>1. /\ Extra(f) = f.seq + f.len - rcv /\ Extra(f) \in Nat
          /\ rcv + Extra(f) <= pSent
          /\ f.seq = rcv => Extra(f) = f.len
      BY <1>2, ExtraFacts
    <2>2. NewBytes(f) = [i \in 1..Extra(f) |-> f.seq + f.len - Extra(f) + i - 1]
      BY <1>2 DEF NewBytes
    <2>3. \A i \in 1..Extra(f) : f.seq + f.len - Extra(f) + i - 1 = rcv + i - 1
                                 /\ rcv + i - 1 \in Nat
      BY <1>0, <2>1
    <2>4. NewBytes(f) = [i \in 1..Extra(f) |-> rcv + i - 1]
      BY <2>2, <2>3
    <2>5. NewBytes(f) \in Seq(Nat) /\ Len(NewBytes(f)) = Extra(f)
      BY <2>1, <2>3, <2>4
    <2> QED
      BY <1>2, <2>1, <2>4, <2>5
  <1> QED
    BY <1>1, <1>2

LEMMA SeqAsFunction == ASSUME NEW s \in Seq(Nat) PROVE s = [i \in 1..Len(s) |-> s[i]]
  OBVIOUS

(* With them the bytes that were taken are still those the peer has sent,  *)
(* in order.                                                               *)
LEMMA TakenFacts ==
    ASSUME IInv, st = "ESTABLISHED", NEW f \in Segments, ~Ignored(f),
           taken' = taken \o NewBytes(f), pSent' = pSent
    PROVE  /\ taken' \in Seq(Nat) /\ StreamInOrder'
           /\ Len(taken') = Len(taken) + Len(NewBytes(f))
           /\ taken' # <<>> => Len(taken') < pSent'
  <1> DEFINE new == NewBytes(f)
  <1>1. /\ new \in Seq(Nat) /\ Len(new) \in Nat
        /\ \A i \in 1..Len(new) : new[i] = rcv + i - 1
        /\ new # <<>> => rcv + Len(new) <= pSent
    BY NewBytesFacts
  <1>2. /\ taken \in Seq(Nat) /\ Len(taken) \in Nat /\ rcv = Len(taken) + 1
        /\ taken = [i \in 1..Len(taken) |-> i]
        /\ pSent \in Nat
    BY Received DEF IInv, TypeOK, Stream, StreamInOrder
  <1> HIDE DEF new
  <1>3. taken' = taken \o new
    BY DEF new
  <1>4. taken' \in Seq(Nat) /\ Len(taken') = Len(taken) + Len(new)
    BY <1>1, <1>2, <1>3
  <1>5. \A i \in 1..Len(taken') : taken'[i] = i
    <2> SUFFICES ASSUME NEW i \in 1..Len(taken') PROVE taken'[i] = i
      OBVIOUS
    <2>1. CASE i <= Len(taken)
      <3>1. taken'[i] = taken[i] /\ i \in 1..Len(taken)
        BY <1>1, <1>2, <1>3, <1>4, <2>1
      <3> QED
        BY <1>2, <3>1
    <2>2. CASE i > Len(taken)
      <3>1. taken'[i] = new[i - Len(taken)] /\ i - Len(taken) \in 1..Len(new)
        BY <1>1, <1>2, <1>3, <1>4, <2>2
      <3>2. new[i - Len(taken)] = rcv + (i - Len(taken)) - 1
        BY <1>1, <3>1
      <3> QED
        BY <1>2, <3>1, <3>2
    <2> QED
      BY <1>2, <1>4, <2>1, <2>2
  <1>6. StreamInOrder'
    <2>1. taken' = [i \in 1..Len(taken') |-> taken'[i]]
      BY <1>4, SeqAsFunction
    <2>2. taken' = [i \in 1..Len(taken') |-> i]
      BY <1>5, <2>1
    <2> QED
      BY <2>2 DEF StreamInOrder
  <1>7. ASSUME taken' # <<>> PROVE Len(taken') < pSent
    <2>1. CASE new = <<>>
      <3>1. taken' = taken
        BY <1>2, <1>3, <2>1
      <3>2. Len(taken) < pSent
        BY <1>7, <3>1 DEF IInv, Stream
      <3> QED
        BY <3>1, <3>2
    <2>2. CASE new # <<>>
      BY <1>1, <1>2, <1>4, <2>2
    <2> QED
      BY <2>1, <2>2
  <1> QED
    BY <1>4, <1>6, <1>7 DEF new

-----------------------------------------------------------------------------
(*                     Data on an open connection                          *)

(* A step that stays on the connection.                                    *)
LEMMA StayStep ==
    ASSUME IInv, st = "ESTABLISHED", st' = st, view' = view, peer' = peer, polling' = polling,
           una' \in Nat, nxt' \in Nat, una' <= nxt', nxt' >= nxt,
           taken' \in Seq(Nat), StreamInOrder', taken' # <<>> => Len(taken') < pSent',
           taken' # <<>> \/ taken' = taken,
           rcv' = Len(taken') + 1,
           finSeen' \in BOOLEAN, closePending' \in BOOLEAN,
           timer' \in Nat, retries' \in Nat, ackAir' \in Nat
    PROVE  IInv'
  <1>1. rcv' \in Nat
    <2>1. Len(taken') \in Nat
      OBVIOUS
    <2> QED
      BY <2>1
  <1>2. TypeOK'
    BY <1>1 DEF IInv, TypeOK, peer
  <1>3. pGot > 0 /\ pGot \in Int
    BY DEF IInv, Closes, TypeOK
  <1>4. Stream'
    BY <1>3 DEF IInv, Stream, peer, Opening
  <1>5. Closes' /\ Sent'
    BY <1>3 DEF IInv, TypeOK, Closes, CloseIsLast, Sent, peer, FinSent
  <1>6. Told'
    BY DEF IInv, Told, EndIsTold, PollingGoesOn
  <1> QED
    BY <1>2, <1>4, <1>5, <1>6 DEF IInv

(* The peer's FIN is counted: everything it has sent has been taken.       *)
LEMMA PeerFinStep ==
    ASSUME IInv, st = "ESTABLISHED", NEW next \in {"LAST_ACK", "CLOSE_WAIT"},
           fnNewTCPState(next), view' = view, peer' = peer, polling' = polling,
           una' \in Nat, nxt' \in Nat, una' <= nxt', nxt' > nxt, rcv' \in Nat,
           taken' \in Seq(Nat), StreamInOrder', pFin, Len(taken') = pSent - 1,
           finSeen' \in BOOLEAN, closePending' \in BOOLEAN, ackAir' \in Nat
    PROVE  IInv'
  <1>1. st' = next /\ st' \in States /\ timer' \in Nat /\ retries' \in Nat
    BY NewStateTypes DEF States, FinSent
  <1>2. TypeOK'
    BY <1>1 DEF IInv, TypeOK, peer
  <1>3. pGot > 0 /\ pGot \in Int /\ pGot <= nxt /\ nxt \in Nat /\ pSent \in Nat
    BY DEF IInv, Closes, TypeOK, Sent
  <1>4. Len(taken') < pSent
    BY <1>3
  <1>5. Stream'
    BY <1>1, <1>3, <1>4 DEF IInv, Stream, peer, Opening
  <1>6. Closes' /\ Sent'
    BY <1>1, <1>3 DEF IInv, TypeOK, Closes, CloseIsLast, Sent, peer, FinSent
  <1>7. Told'
    BY <1>1 DEF IInv, Told, EndIsTold, PollingGoesOn, Polled
  <1> QED
    BY <1>2, <1>5, <1>6, <1>7 DEF IInv

(* The connections a segment leads through: numbers never go back, and what*)
(* has been received is counted in rcv.                                    *)
Connections == [una : Nat, nxt : Nat, rcv : Nat, flag : BOOLEAN, air : Nat, sent : BOOLEAN]
Onward(c) == c \in Connections /\ c.una <= c.nxt /\ nxt <= c.nxt

Sending(c, n, air) == [c EXCEPT !.nxt = n, !.sent = TRUE, !.air = air]
Reading(c, n, flag) == [c EXCEPT !.rcv = n, !.flag = flag]

LEMMA SendingFacts ==
    ASSUME NEW c \in Connections, NEW n \in Nat, NEW air \in Nat
    PROVE  LET e == Sending(c, n, air)
           IN  /\ e \in Connections
               /\ e.una = c.una /\ e.nxt = n /\ e.rcv = c.rcv /\ e.air = air
  <1> DEFINE e == Sending(c, n, air)
  <1>1. e \in Connections
    BY DEF Connections, Sending
  <1>2. e.una = c.una /\ e.nxt = n /\ e.rcv = c.rcv /\ e.air = air
    BY DEF Connections, Sending
  <1> QED
    BY <1>1, <1>2

LEMMA ReadingFacts ==
    ASSUME NEW c \in Connections, NEW n \in Nat, NEW flag \in BOOLEAN
    PROVE  LET e == Reading(c, n, flag)
           IN  /\ e \in Connections
               /\ e.una = c.una /\ e.nxt = c.nxt /\ e.rcv = n /\ e.air = c.air
  <1> DEFINE e == Reading(c, n, flag)
  <1>1. e \in Connections
    BY DEF Connections, Reading
  <1>2. e.una = c.una /\ e.nxt = c.nxt /\ e.rcv = n /\ e.air = c.air
    BY DEF Connections, Reading
  <1> QED
    BY <1>1, <1>2

LEMMA SendableNat == ASSUME nxt \in Nat, NEW n \in Sendable PROVE n \in Nat
  BY Bounds DEF Sendable

LEMMA AfterAckFacts ==
    ASSUME IInv, NEW f \in Segments, NEW c \in AfterAck(f)
    PROVE  Onward(c) /\ c.rcv = rcv /\ (c.sent => c.nxt > nxt)
  <1>1. /\ una \in Nat /\ nxt \in Nat /\ una <= nxt /\ rcv \in Nat /\ finSeen \in BOOLEAN
        /\ ackAir \in Nat
    BY DEF IInv, TypeOK, Sent
  <1>2. f.len \in Nat /\ f.seq \in Nat /\ f.fin \in BOOLEAN
    BY SegmentFacts
  <1>3. Connection \in Connections /\ Connection.rcv = rcv /\ Connection.nxt = nxt
        /\ Connection.una = una /\ ~Connection.sent
    BY <1>1 DEF Connection, Connections
  <1>4. CASE ~AcksAll(f)
    <2>1. c = Connection
      BY <1>4 DEF AfterAck
    <2> QED
      BY <1>1, <1>3, <2>1 DEF Onward
  <1>5. CASE AcksAll(f)
    <2> DEFINE flag == finSeen \/ f.fin
               told == [Connection EXCEPT !.una = nxt, !.flag = flag]
               seen == IF f.seq = rcv THEN rcv + f.len ELSE rcv
               air == IF flag THEN ackAir ELSE Higher(ackAir, seen)
               more(n) == Sending(told, nxt + n, air)
    <2>1. told \in Connections /\ told.rcv = rcv /\ told.nxt = nxt /\ told.una = nxt
          /\ ~told.sent
      BY <1>1, <1>2, <1>3 DEF Connections
    <2>2. seen \in Nat
      BY <1>1, <1>2
    <2>3. air \in Nat
      BY <1>1, <2>2, HigherNat
    <2>4. c = told \/ \E n \in Sendable : c = more(n)
      BY <1>5 DEF AfterAck, Sending
    <2>5. CASE c = told
      BY <1>1, <2>1, <2>5 DEF Onward
    <2>6. ASSUME NEW n \in Sendable, c = more(n)
          PROVE  Onward(c) /\ c.rcv = rcv /\ c.nxt > nxt
      <3> HIDE DEF told, air
      <3>1. n \in Nat /\ n > 0
        BY <1>1, SendableNat DEF Sendable
      <3>2. /\ c \in Connections /\ c.rcv = rcv /\ c.nxt = nxt + n /\ c.una = nxt
        <4> DEFINE m == nxt + n
        <4>1. m \in Nat
          BY <1>1, <3>1
        <4>2. c = Sending(told, m, air)
          BY <2>6
        <4>3. m = nxt + n
          OBVIOUS
        <4> HIDE DEF m
        <4>4. /\ c \in Connections
              /\ c.una = told.una /\ c.nxt = m /\ c.rcv = told.rcv
          BY <2>1, <2>3, <4>1, <4>2, SendingFacts
        <4> QED
          BY <2>1, <4>3, <4>4
      <3> QED
        BY <1>1, <3>1, <3>2 DEF Onward
    <2> QED
      BY <2>4, <2>5, <2>6
  <1> QED
    BY <1>4, <1>5

LEMMA AfterDataFacts ==
    ASSUME IInv, st = "ESTABLISHED", NEW f \in Segments, ~Ignored(f),
           NEW c, Onward(c), c.rcv = rcv, NEW d \in AfterData(f, c)
    PROVE  Onward(d) /\ d.rcv = rcv + Len(NewBytes(f))
  <1>1. rcv \in Nat /\ nxt \in Nat /\ Len(NewBytes(f)) \in Nat
    BY NewBytesFacts DEF IInv, TypeOK
  <1>2. c \in Connections /\ c.una \in Nat /\ c.nxt \in Nat /\ c.una <= c.nxt /\ nxt <= c.nxt
        /\ c.air \in Nat
    BY DEF Onward, Connections
  <1>3. CASE NewBytes(f) = <<>>
    <2>1. d = c /\ Len(NewBytes(f)) = 0
      BY <1>3, EmptyOrder DEF AfterData
    <2> QED
      BY <1>1, <2>1
  <1>4. CASE NewBytes(f) # <<>>
    <2> DEFINE flag == c.flag /\ ~(f.len # 0 /\ f.seq = rcv)
               read == Reading(c, rcv + Len(NewBytes(f)), flag)
               air == IF flag THEN c.air ELSE Higher(c.air, read.rcv)
               more(n) == Sending(read, c.nxt + n, air)
    <2>1. /\ read \in Connections /\ read.rcv = rcv + Len(NewBytes(f)) /\ read.nxt = c.nxt
          /\ read.una = c.una
      <3>1. rcv + Len(NewBytes(f)) \in Nat /\ flag \in BOOLEAN
        BY <1>1
      <3> HIDE DEF flag
      <3> QED
        BY <1>2, <3>1, ReadingFacts
    <2>2. air \in Nat
      <3>1. read.rcv \in Nat
        BY <1>1, <2>1
      <3> HIDE DEF read
      <3> QED
        BY <1>2, <3>1, HigherNat
    <2>3. d = read \/ \E n \in Sendable : d = more(n)
      BY <1>4 DEF AfterData, Sending, Reading
    <2>4. CASE d = read
      BY <1>1, <1>2, <2>1, <2>4 DEF Onward
    <2>5. ASSUME NEW n \in Sendable, d = more(n)
          PROVE  Onward(d) /\ d.rcv = rcv + Len(NewBytes(f))
      <3> HIDE DEF read, air
      <3>1. n \in Nat
        BY <1>1, SendableNat
      <3>2. /\ d \in Connections /\ d.rcv = rcv + Len(NewBytes(f))
            /\ d.nxt = c.nxt + n /\ d.una = c.una
        <4> DEFINE m == c.nxt + n
        <4>1. m \in Nat /\ d = Sending(read, m, air)
          BY <1>2, <3>1, <2>5
        <4>2. m = c.nxt + n
          OBVIOUS
        <4> HIDE DEF m
        <4> QED
          BY <2>1, <2>2, <4>1, <4>2, SendingFacts
      <3> QED
        BY <1>1, <1>2, <3>1, <3>2 DEF Onward
    <2> QED
      BY <2>3, <2>4, <2>5
  <1> QED
    BY <1>3, <1>4

LEMMA AfterReplyFacts ==
    ASSUME NEW f, NEW c, Onward(c)
    PROVE  Onward(AfterReply(f, c)) /\ AfterReply(f, c).rcv = c.rcv
  <1>1. c \in Connections /\ c.air \in Nat /\ c.rcv \in Nat /\ Higher(c.air, c.rcv) \in Nat
    BY HigherNat DEF Onward, Connections
  <1> DEFINE e == [c EXCEPT !.flag = FALSE, !.air = Higher(c.air, c.rcv)]
  <1>2. e \in Connections /\ e.una = c.una /\ e.nxt = c.nxt /\ e.rcv = c.rcv
    BY <1>1 DEF Connections
  <1>3. AfterReply(f, c) \in {e, c}
    BY DEF AfterReply
  <1> HIDE DEF e
  <1> QED
    BY <1>2, <1>3 DEF Onward

(* The connection goes on with the numbers in c.                           *)
LEMMA RemainStep ==
    ASSUME IInv, st = "ESTABLISHED", NEW c, Onward(c), Remains(c), peer' = peer,
           polling' = polling, taken' \in Seq(Nat), StreamInOrder', c.rcv = Len(taken') + 1,
           taken' # <<>> => Len(taken') < pSent', taken' # <<>> \/ taken' = taken
    PROVE  IInv'
  <1>1. /\ c.una \in Nat /\ c.nxt \in Nat /\ c.una <= c.nxt /\ nxt <= c.nxt /\ c.air \in Nat
        /\ c.flag \in BOOLEAN
    BY DEF Onward, Connections
  <1>2. /\ una' = c.una /\ nxt' = c.nxt /\ rcv' = c.rcv /\ finSeen' = c.flag /\ ackAir' = c.air
        /\ st' = st /\ closePending' = closePending /\ view' = view
    BY DEF Remains, Becomes
  <1>3. timer' \in Nat /\ retries' \in Nat
    BY Bounds DEF Remains, timers, IInv, TypeOK
  <1>4. closePending' \in BOOLEAN
    BY <1>2 DEF IInv, TypeOK
  <1> QED
    BY <1>1, <1>2, <1>3, <1>4, StayStep

LEMMA CloseOnAckStep ==
    ASSUME IInv, st = "ESTABLISHED", NEW f \in Segments, CloseOnAck(f)
    PROVE  IInv'
  <1>1. /\ nxt \in Nat /\ rcv \in Nat /\ ackAir \in Nat /\ closePending \in BOOLEAN
        /\ f.len \in Nat
    BY SegmentFacts DEF IInv, TypeOK
  <1> DEFINE upto == IF f.seq = rcv THEN rcv + f.len ELSE rcv
             next == IF f.fin THEN "CLOSING" ELSE "FIN_WAIT_1"
  <1>2. upto \in Nat
    BY <1>1
  <1>3. /\ una' = nxt /\ nxt' = nxt + 1 /\ finSeen' = FALSE
        /\ rcv' = upto \/ rcv' = upto + 1
        /\ ackAir' = Higher(ackAir, rcv')
        /\ closePending' = closePending /\ polling' = polling /\ view' = view
        /\ taken' = taken /\ peer' = peer
    <2>1. SendFin(nxt, upto, finSeen \/ f.fin)
      BY DEF CloseOnAck
    <2>2. rcv' = upto + (IF finSeen \/ f.fin THEN 1 ELSE 0)
      BY <2>1 DEF SendFin
    <2>3. rcv' = upto \/ rcv' = upto + 1
      BY <1>2, <2>2
    <2> QED
      BY <2>1, <2>3 DEF SendFin, Acknowledge
  <1>4. next \in {"FIN_WAIT_1", "CLOSING"} /\ fnNewTCPState(next)
    BY DEF CloseOnAck
  <1> HIDE DEF upto, next
  <1>5. rcv' \in Nat
    BY <1>2, <1>3
  <1>6. una' \in Nat /\ nxt' \in Nat /\ una' <= nxt' /\ nxt' > nxt
    BY <1>1, <1>3
  <1>7. ackAir' \in Nat
    BY <1>1, <1>3, <1>5, HigherNat
  <1>8. finSeen' \in BOOLEAN /\ closePending' \in BOOLEAN
    BY <1>1, <1>3
  <1> QED
    BY <1>3, <1>4, <1>5, <1>6, <1>7, <1>8, FinStep

(* The numbers of the connection are as they were before.                  *)
LEMMA UntakenFacts ==
    ASSUME IInv, st = "ESTABLISHED", taken' = taken, peer' = peer
    PROVE  /\ taken' \in Seq(Nat) /\ StreamInOrder' /\ rcv = Len(taken') + 1
           /\ taken' # <<>> => Len(taken') < pSent'
  BY DEF IInv, TypeOK, Stream, StreamInOrder, peer

LEMMA LeaveDataStep ==
    ASSUME IInv, st = "ESTABLISHED", NEW f \in Segments, NEW c, Onward(c), c.rcv = rcv,
           LeaveData(f, c), polling' = polling, peer' = peer
    PROVE  IInv'
  <1>1. taken' = taken
    BY DEF LeaveData
  <1>2. CASE Remains(c)
    BY <1>1, <1>2, UntakenFacts, RemainStep
  <1>3. CASE Remains([c EXCEPT !.flag = c.flag /\ f.seq # rcv])
    <2> DEFINE flag == c.flag /\ f.seq # rcv
               d == [c EXCEPT !.flag = flag]
    <2>1. c \in Connections /\ flag \in BOOLEAN
      BY DEF Onward
    <2> HIDE DEF flag
    <2>2. d \in Connections
      BY <2>1 DEF Connections
    <2>3. d.una = c.una /\ d.nxt = c.nxt /\ d.rcv = c.rcv
      BY <2>1 DEF Connections
    <2>4. Remains(d)
      BY <1>3 DEF flag
    <2> HIDE DEF d
    <2>5. Onward(d)
      BY <2>2, <2>3 DEF Onward
    <2> QED
      BY <1>1, <2>3, <2>4, <2>5, UntakenFacts, RemainStep
  <1> QED
    BY <1>2, <1>3 DEF LeaveData

LEMMA CloseOnDataStep ==
    ASSUME IInv, st = "ESTABLISHED", NEW f \in Segments, ~Ignored(f), NEW c, Onward(c),
           c.rcv = rcv, CloseOnData(f, c), polling' = polling, peer' = peer
    PROVE  IInv'
  <1>1. /\ c.una \in Nat /\ c.nxt \in Nat /\ c.una <= c.nxt /\ nxt <= c.nxt /\ c.air \in Nat
        /\ nxt \in Nat /\ rcv \in Nat /\ Len(NewBytes(f)) \in Nat /\ c \in Connections
    BY NewBytesFacts DEF Onward, Connections, IInv, TypeOK
  <1>2. taken' = taken
    BY DEF CloseOnData
  <1> DEFINE flag == c.flag /\ f.seq # rcv
             upto == rcv + Len(NewBytes(f)) + (IF flag THEN 1 ELSE 0)
             back == upto - Len(NewBytes(f))
             air == Higher(c.air, upto)
             d == [c EXCEPT !.nxt = c.nxt + 1, !.flag = FALSE, !.rcv = back, !.air = air]
             e == [c EXCEPT !.flag = flag]
  <1>3. upto \in Nat /\ back \in Nat
    BY <1>1
  <1>4. flag \in BOOLEAN
    BY <1>1 DEF Connections
  <1>5. CASE /\ Becomes(d)
             /\ fnNewTCPState("FIN_WAIT_1")
             /\ UNCHANGED <<closePending, view>>
    <2> HIDE DEF upto, back
    <2>1. air \in Nat
      BY <1>1, <1>3, HigherNat
    <2> HIDE DEF air
    <2>2. d.una = c.una /\ d.nxt = c.nxt + 1 /\ d.rcv = back /\ d.air = air
      BY <1>1 DEF Connections
    <2>3. d.flag = FALSE
      BY <1>1 DEF Connections
    <2>4. Becomes(d)
      BY <1>5
    <2> HIDE DEF d
    <2>5. /\ una' \in Nat /\ nxt' \in Nat /\ una' <= nxt' /\ nxt' > nxt /\ rcv' \in Nat
          /\ ackAir' \in Nat
      BY <1>1, <1>3, <2>1, <2>2, <2>4 DEF Becomes
    <2>6. finSeen' \in BOOLEAN
      BY <2>3, <2>4 DEF Becomes
    <2>7. closePending' \in BOOLEAN
      BY <1>5 DEF IInv, TypeOK
    <2> QED
      BY <1>2, <1>5, <2>5, <2>6, <2>7, FinStep
  <1>6. CASE /\ Becomes(e) /\ closePending' = TRUE
             /\ IF c.sent THEN /\ timer' = TCP_STANDARD_RETRY_TOUT
                               /\ retries' = TCP_DEF_RETRIES
                          ELSE UNCHANGED timers
             /\ UNCHANGED <<st, view>>
    <2> HIDE DEF flag
    <2>1. e.una = c.una /\ e.nxt = c.nxt /\ e.rcv = c.rcv /\ e.air = c.air
      BY <1>1 DEF Connections
    <2>2. e.flag \in BOOLEAN
      BY <1>1, <1>4 DEF Connections
    <2>3. Becomes(e)
      BY <1>6
    <2> HIDE DEF e
    <2>4. /\ una' = c.una /\ nxt' = c.nxt /\ rcv' = rcv /\ ackAir' = c.air
          /\ finSeen' \in BOOLEAN
      BY <2>1, <2>2, <2>3 DEF Becomes
    <2>5. timer' \in Nat /\ retries' \in Nat
      BY <1>6, Bounds DEF timers, IInv, TypeOK
    <2>6. closePending' \in BOOLEAN
      BY <1>6
    <2> QED
      BY <1>1, <1>2, <1>6, <2>4, <2>5, <2>6, UntakenFacts, StayStep
  <1> QED
    <2>1. CASE c.una = c.nxt
      BY <1>5, <2>1 DEF CloseOnData
    <2>2. CASE c.una # c.nxt
      BY <1>6, <2>2 DEF CloseOnData
    <2> QED
      BY <2>1, <2>2

LEMMA TakeFinStep ==
    ASSUME IInv, st = "ESTABLISHED", NEW f \in Segments, ~Ignored(f), f.fin, f.seq = rcv,
           NEW next \in {"LAST_ACK", "CLOSE_WAIT"}, fnNewTCPState(next), NEW c, Onward(c),
           Becomes([c EXCEPT !.nxt = c.nxt + 1, !.rcv = c.rcv + 1, !.flag = FALSE,
                             !.air = Higher(c.air, c.rcv + 1)]),
           UNCHANGED <<closePending, view>>, taken' = taken \o NewBytes(f),
           polling' = polling, peer' = peer
    PROVE  IInv'
  <1>1. /\ c.una \in Nat /\ c.nxt \in Nat /\ c.una <= c.nxt /\ nxt <= c.nxt /\ c.air \in Nat
        /\ nxt \in Nat /\ c.rcv \in Nat /\ c \in Connections
    BY DEF Onward, Connections, IInv, TypeOK
  <1> DEFINE air == Higher(c.air, c.rcv + 1)
             d == [c EXCEPT !.nxt = c.nxt + 1, !.rcv = c.rcv + 1, !.flag = FALSE, !.air = air]
  <1>2. air \in Nat
    <2>1. c.rcv + 1 \in Nat
      BY <1>1
    <2> QED
      BY <1>1, <2>1, HigherNat
  <1>3. Becomes(d)
    OBVIOUS
  <1> HIDE DEF air
  <1>4. d.una = c.una /\ d.nxt = c.nxt + 1 /\ d.rcv = c.rcv + 1 /\ d.air = air
    BY <1>1 DEF Connections
  <1>5. d.flag = FALSE
    BY <1>1 DEF Connections
  <1> HIDE DEF d
  <1>6. /\ una' \in Nat /\ nxt' \in Nat /\ una' <= nxt' /\ nxt' > nxt /\ rcv' \in Nat
        /\ ackAir' \in Nat
    BY <1>1, <1>2, <1>3, <1>4 DEF Becomes
  <1>7. finSeen' \in BOOLEAN
    BY <1>3, <1>5 DEF Becomes
  <1>8. closePending' \in BOOLEAN
    BY DEF IInv, TypeOK
  <1>9. pFin /\ Len(taken') = pSent - 1
    <2>1. pFin /\ f.seq + f.len = pSent /\ f.len \in Nat /\ pSent \in Nat
      BY SegmentFacts DEF IInv, TypeOK
    <2>2. Len(NewBytes(f)) = f.len
      BY NewBytesFacts
    <2>3. Len(taken') = Len(taken) + Len(NewBytes(f)) /\ Len(taken) \in Nat /\ rcv = Len(taken) + 1
      BY TakenFacts, Received DEF peer
    <2> QED
      BY <2>1, <2>2, <2>3
  <1>10. taken' \in Seq(Nat) /\ StreamInOrder'
    BY TakenFacts DEF peer
  <1>11. view' = view
    OBVIOUS
  <1> QED
    BY <1>6, <1>7, <1>8, <1>9, <1>10, <1>11, PeerFinStep

LEMMA DataStep == ASSUME IInv, NEW f \in Segments, HearData(f) PROVE IInv'
  <1>1. st = "ESTABLISHED"
    BY DEF HearData
  <1>2. CASE CloseOnAck(f)
    BY <1>1, <1>2, CloseOnAckStep
  <1>3. CASE ~CloseOnAck(f)
    <2>1. /\ polling' = polling /\ peer' = peer
          /\ \E c \in AfterAck(f) :
                \/ LeaveData(f, c)
                \/ ~Ignored(f) /\ CloseOnData(f, c)
                \/ /\ ~Ignored(f)
                   /\ \E d \in AfterData(f, c) :
                         IF f.fin THEN TakeFin(f, d) ELSE Remains(AfterReply(f, d))
                   /\ taken' = taken \o NewBytes(f)
      BY <1>3 DEF HearData
    <2>2. PICK c \in AfterAck(f) :
             \/ LeaveData(f, c)
             \/ ~Ignored(f) /\ CloseOnData(f, c)
             \/ /\ ~Ignored(f)
                /\ \E d \in AfterData(f, c) :
                      IF f.fin THEN TakeFin(f, d) ELSE Remains(AfterReply(f, d))
                /\ taken' = taken \o NewBytes(f)
      BY <2>1
    <2>3. Onward(c) /\ c.rcv = rcv
      BY AfterAckFacts
    <2>4. CASE LeaveData(f, c)
      BY <1>1, <2>1, <2>3, <2>4, LeaveDataStep
    <2>5. CASE ~Ignored(f) /\ CloseOnData(f, c)
      BY <1>1, <2>1, <2>3, <2>5, CloseOnDataStep
    <2>6. ASSUME ~Ignored(f), taken' = taken \o NewBytes(f), NEW d \in AfterData(f, c),
                 IF f.fin THEN TakeFin(f, d) ELSE Remains(AfterReply(f, d))
          PROVE  IInv'
      <3>1. Onward(d) /\ d.rcv = rcv + Len(NewBytes(f))
        BY <1>1, <2>3, <2>6, AfterDataFacts
      <3>2. /\ taken' \in Seq(Nat) /\ StreamInOrder'
            /\ Len(taken') = Len(taken) + Len(NewBytes(f))
            /\ taken' # <<>> => Len(taken') < pSent'
        BY <1>1, <2>1, <2>6, TakenFacts DEF peer
      <3>3. /\ Len(taken) \in Nat /\ rcv = Len(taken) + 1 /\ Len(NewBytes(f)) \in Nat
            /\ taken \in Seq(Nat) /\ NewBytes(f) \in Seq(Nat)
        BY <1>1, <2>6, Received, NewBytesFacts DEF IInv, TypeOK
      <3>4. d.rcv = Len(taken') + 1
        BY <3>1, <3>2, <3>3
      <3>5. taken' # <<>> \/ taken' = taken
        BY <2>6, <3>3
      <3>6. CASE Remains(d)
        BY <1>1, <2>1, <3>1, <3>2, <3>4, <3>5, <3>6, RemainStep
      <3>7. CASE Remains(AfterReply(f, d))
        BY <1>1, <2>1, <3>1, <3>2, <3>4, <3>5, <3>7, RemainStep, AfterReplyFacts
      <3>8. ASSUME f.fin, f.seq = rcv, NEW next \in {"LAST_ACK", "CLOSE_WAIT"},
                   fnNewTCPState(next),
                   Becomes([d EXCEPT !.nxt = d.nxt + 1, !.rcv = d.rcv + 1, !.flag = FALSE,
                                     !.air = Higher(d.air, d.rcv + 1)]),
                   UNCHANGED <<closePending, view>>
            PROVE  IInv'
        BY <1>1, <2>1, <2>6, <3>1, <3>8, TakeFinStep
      <3> QED
        <4>1. CASE f.fin
          BY <2>6, <3>6, <3>8, <4>1 DEF TakeFin
        <4>2. CASE ~f.fin
          BY <2>6, <3>7, <4>2
        <4> QED
          BY <4>1, <4>2
    <2> QED
      BY <2>2, <2>4, <2>5, <2>6
  <1> QED
    BY <1>2, <1>3

-----------------------------------------------------------------------------
(*                           Closing states                                *)

(* Our FIN is acknowledged only by a peer that has received it.            *)
LEMMA FinAcked ==
    ASSUME IInv, NEW f \in Segments, st \in FinSent, AcksFin(f)
    PROVE  pFinGot /\ pGot = nxt
  <1>1. f.ack \in Nat /\ (f.ack > 0 => f.ack <= pGot)
    BY SegmentFacts
  <1>2. nxt \in Nat /\ nxt > 1 /\ pGot \in Int /\ pGot <= nxt /\ (pFinGot \/ pGot < nxt)
    BY DEF IInv, TypeOK, Sent
  <1>3. pGot = nxt
    BY <1>1, <1>2 DEF AcksFin
  <1> QED
    BY <1>2, <1>3

LEMMA FinSentStep ==
    ASSUME IInv, st \in FinSent, st' \in FinSent \ {"LAST_ACK"}, timer' \in Nat, retries' \in Nat,
           st' = "FIN_WAIT_2" => pFinGot /\ pGot = nxt,
           view' \in {"none", "open", "closed", "aborted"}, st' = "TIME_WAIT" => view' # "open",
           una' \in Nat, una' <= nxt, nxt' = nxt, rcv' \in Nat, finSeen' \in BOOLEAN,
           closePending' = closePending, polling' = polling, taken' = taken, peer' = peer,
           ackAir' \in Nat
    PROVE  IInv'
  <1>1. st' \in States /\ st \in Polled
    BY DEF States, Polled
  <1>2. TypeOK'
    BY <1>1 DEF IInv, TypeOK, peer
  <1>3. Stream'
    BY DEF IInv, Stream, StreamInOrder, peer, FinSent, Opening
  <1>4. Closes' /\ Sent'
    BY DEF IInv, TypeOK, Closes, CloseIsLast, Sent, peer, FinSent
  <1>5. Told'
    BY <1>1 DEF IInv, Told, EndIsTold, PollingGoesOn, FinSent
  <1> QED
    BY <1>2, <1>3, <1>4, <1>5 DEF IInv

LEMMA ClosingStep == ASSUME IInv, NEW f \in Segments, HearClosing(f) PROVE IInv'
  <1>1. st \in FinSent
    BY DEF HearClosing, FinSent
  <1>2. AcksFin(f) => pFinGot /\ pGot = nxt
    BY <1>1, FinAcked
  <1>3. /\ nxt' = nxt /\ closePending' = closePending /\ polling' = polling
        /\ taken' = taken /\ peer' = peer /\ (una' = nxt \/ una' = una)
    BY DEF HearClosing
  <1>4. una' \in Nat /\ una' <= nxt
    BY <1>3 DEF IInv, TypeOK, Sent
  <1>5. ASSUME fnCheckFIN(f) PROVE rcv' \in Nat /\ ackAir' \in Nat /\ finSeen' = FALSE
    <2>1. rcv' = f.seq + f.len + 1 /\ f.seq \in Nat /\ f.len \in Nat
      BY <1>5, SegmentFacts DEF fnCheckFIN
    <2>2. rcv' \in Nat
      BY <2>1
    <2>3. ackAir' = Higher(ackAir, rcv') /\ ackAir \in Nat
      BY <1>5 DEF fnCheckFIN, Acknowledge, IInv, TypeOK
    <2> QED
      BY <1>5, <2>2, <2>3, HigherNat DEF fnCheckFIN
  <1>6. rcv' \in Nat /\ ackAir' \in Nat /\ finSeen' \in BOOLEAN
    <2>1. CASE fnCheckFIN(f)
      BY <1>5, <2>1
    <2>2. CASE UNCHANGED <<rcv, finSeen, ackAir>>
      BY <2>2 DEF IInv, TypeOK
    <2> QED
      BY <2>1, <2>2 DEF HearClosing
  <1>7. ASSUME EnterTimeWait PROVE IInv'
    <2>1. st' = "TIME_WAIT" /\ timer' \in Nat /\ retries' \in Nat /\ view' = "closed"
      BY <1>7, NewStateTypes DEF EnterTimeWait, States, FinSent
    <2> QED
      BY <1>1, <1>3, <1>4, <1>6, <2>1, FinSentStep DEF FinSent
  <1>8. view \in {"none", "open", "closed", "aborted"}
    BY DEF IInv, TypeOK
  <1>9. ASSUME fnNewTCPState("CLOSING"), view' = view PROVE IInv'
    <2>1. st' = "CLOSING" /\ timer' \in Nat /\ retries' \in Nat
      BY <1>9, NewStateTypes DEF States, FinSent
    <2> QED
      BY <1>1, <1>3, <1>4, <1>6, <1>8, <1>9, <2>1, FinSentStep DEF FinSent
  <1>10. ASSUME AcksFin(f), fnNewTCPState("FIN_WAIT_2"), view' = view PROVE IInv'
    <2>1. st' = "FIN_WAIT_2" /\ timer' \in Nat /\ retries' \in Nat
      BY <1>10, NewStateTypes DEF States, FinSent
    <2> QED
      BY <1>1, <1>2, <1>3, <1>4, <1>6, <1>8, <1>10, <2>1, FinSentStep DEF FinSent
  <1>11. ASSUME st = "TIME_WAIT", UNCHANGED <<una, st, timers, view>> PROVE IInv'
    <2>1. st' = "TIME_WAIT" /\ timer' \in Nat /\ retries' \in Nat /\ view' = view
          /\ view # "open"
      BY <1>11 DEF timers, IInv, TypeOK, Told
    <2> QED
      BY <1>1, <1>3, <1>4, <1>6, <1>8, <2>1, FinSentStep DEF FinSent
  <1> QED
    BY <1>7, <1>9, <1>10, <1>11 DEF HearClosing

LEMMA LastAckStep == ASSUME IInv, NEW f \in Segments, HearLastAck(f) PROVE IInv'
  <1>1. Ended("closed") /\ polling' \in BOOLEAN
    BY DEF HearLastAck, IInv, TypeOK
  <1> QED
    BY <1>1, EndedStep

LEMMA SegmentStep == ASSUME IInv, NEW f \in Segments, HearSegment(f) PROVE IInv'
  BY HandshakeStep, DataStep, ClosingStep, LastAckStep DEF HearSegment

-----------------------------------------------------------------------------
(*                     The peer and the network                            *)

(* What the peer receives leaves our side alone.                           *)
LEMMA PeerReceivesStep ==
    ASSUME IInv, UNCHANGED <<st, numbers, timers, polling, view, taken, pFin>>,
           st \notin {"CLOSED", "LISTEN"}, pSent' \in Nat, pSent' <= MaxIn + 1, pSent <= pSent',
           pGot' \in Int, pGot' > 0, pGot' <= nxt, pFinGot' \in BOOLEAN,
           st \in FinSent => pFinGot' \/ pGot' < nxt,
           st \in {"FIN_WAIT_2"} => pFinGot' /\ pGot' = nxt,
           st \in {"LAST_ACK", "CLOSE_WAIT"} => pSent' = pSent,
           pUna' \in Nat, ackAir' \in Nat
    PROVE  IInv'
  <1>1. /\ st' = st /\ una' = una /\ nxt' = nxt /\ rcv' = rcv /\ finSeen' = finSeen
        /\ closePending' = closePending /\ timer' = timer /\ retries' = retries
        /\ polling' = polling /\ view' = view /\ taken' = taken /\ pFin' = pFin
    BY DEF numbers, timers
  <1>2. TypeOK'
    BY <1>1 DEF IInv, TypeOK
  <1>3. Stream'
    <2>1. StreamInOrder' /\ (taken # <<>> => Len(taken) < pSent) /\ taken \in Seq(Nat)
      BY <1>1 DEF IInv, Stream, StreamInOrder, TypeOK
    <2>2. taken # <<>> => Len(taken) < pSent'
      <3>1. Len(taken) \in Nat /\ pSent \in Nat
        BY <2>1 DEF IInv, TypeOK
      <3> QED
        BY <2>1, <3>1
    <2> QED
      BY <1>1, <2>1, <2>2 DEF IInv, Stream
  <1>4. Closes'
    <2>1. ASSUME st \in {"LAST_ACK", "CLOSE_WAIT"}
          PROVE  pFin' /\ Len(taken') = pSent' - 1
      <3>1. pFin /\ Len(taken) = pSent - 1
        BY <2>1 DEF IInv, Closes, CloseIsLast
      <3>2. pFin'
        BY <1>1, <3>1
      <3> QED
        BY <1>1, <2>1, <3>1, <3>2
    <2>2. CloseIsLast'
      BY <1>1, <2>1 DEF CloseIsLast
    <2> QED
      BY <2>2 DEF Closes
  <1>5. Sent'
    BY <1>1 DEF IInv, Sent
  <1>6. Told'
    BY <1>1 DEF IInv, Told, EndIsTold, PollingGoesOn
  <1> QED
    BY <1>2, <1>3, <1>4, <1>5, <1>6 DEF IInv

LEMMA PeerHearsSynStep == ASSUME IInv, PeerHearsSyn PROVE IInv'
  <1>1. /\ st \notin {"CLOSED", "LISTEN"} /\ pGot = 0 /\ pGot' = 1 /\ pUna' = pSent /\ pSent' = 1
        /\ pFinGot' = pFinGot /\ ackAir' = ackAir
        /\ UNCHANGED <<st, numbers, timers, polling, view, taken, pFin>>
    BY DEF PeerHearsSyn
  <1>2. /\ pSent \in Nat /\ pSent <= 1 /\ pFinGot \in BOOLEAN /\ ackAir \in Nat /\ nxt \in Nat
        /\ nxt > 0
    BY <1>1 DEF IInv, TypeOK, Stream, Sent
  <1>3. st # "FIN_WAIT_2" /\ st \notin {"LAST_ACK", "CLOSE_WAIT"} /\ (st \in FinSent => nxt > 1)
    BY <1>1, <1>2 DEF IInv, Sent, Closes
  <1>4. /\ pSent' \in Nat /\ pSent' <= MaxIn + 1 /\ pSent <= pSent' /\ pGot' \in Int /\ pGot' > 0
        /\ pGot' <= nxt /\ (st \in FinSent => pGot' < nxt) /\ pUna' \in Nat
    BY <1>1, <1>2, <1>3, Bounds
  <1>5. pFinGot' \in BOOLEAN /\ ackAir' \in Nat
    BY <1>1, <1>2
  <1> QED
    BY <1>1, <1>3, <1>4, <1>5, PeerReceivesStep

LEMMA PeerHearsDataStep == ASSUME IInv, PeerHearsData PROVE IInv'
  <1>1. /\ st \notin {"CLOSED", "LISTEN"} /\ una > 0 /\ ~pFinGot /\ una <= pGot
        /\ pGot < DataEnd /\ pGot' = DataEnd
        /\ pSent' = pSent /\ pFinGot' = pFinGot /\ pUna' = pUna /\ ackAir' = ackAir
        /\ UNCHANGED <<st, numbers, timers, polling, view, taken, pFin>>
    BY DEF PeerHearsData
  <1>2. /\ una \in Nat /\ pGot \in Int /\ nxt \in Nat /\ pSent \in Nat /\ pSent <= MaxIn + 1
        /\ pUna \in Nat /\ ackAir \in Nat
    BY DEF IInv, TypeOK, Stream
  <1>3. /\ pGot' \in Int /\ pGot' > 0 /\ pGot' <= nxt /\ (st \in FinSent => pGot' < nxt)
    BY <1>1, <1>2 DEF DataEnd
  <1>4. st # "FIN_WAIT_2"
    BY <1>1 DEF IInv, Sent
  <1>5. pFinGot' \in BOOLEAN
    BY <1>1 DEF IInv, TypeOK
  <1>6. pSent' \in Nat /\ pSent' <= MaxIn + 1 /\ pSent <= pSent' /\ pUna' \in Nat /\ ackAir' \in Nat
    BY <1>1, <1>2
  <1> QED
    BY <1>1, <1>3, <1>4, <1>5, <1>6, PeerReceivesStep

LEMMA PeerHearsFinStep == ASSUME IInv, PeerHearsFin PROVE IInv'
  <1>1. /\ st \in FinSent /\ una # nxt /\ ~pFinGot /\ pGot = una /\ pGot' = una + 1
        /\ pFinGot' = TRUE /\ pSent' = pSent /\ pUna' = pUna /\ ackAir' = ackAir
        /\ UNCHANGED <<st, numbers, timers, polling, view, taken, pFin>>
    BY DEF PeerHearsFin
  <1>2. /\ una \in Nat /\ nxt \in Nat /\ una <= nxt /\ pSent \in Nat /\ pSent <= MaxIn + 1
        /\ pUna \in Nat /\ ackAir \in Nat
    BY DEF IInv, TypeOK, Stream, Sent
  <1>3. pGot' \in Int /\ pGot' > 0 /\ pGot' <= nxt
    BY <1>1, <1>2
  <1>4. st # "FIN_WAIT_2" /\ st \notin {"CLOSED", "LISTEN"}
    BY <1>1 DEF IInv, Sent, FinSent
  <1>5. pFinGot' \in BOOLEAN
    BY <1>1
  <1>6. pSent' \in Nat /\ pSent' <= MaxIn + 1 /\ pSent <= pSent' /\ pUna' \in Nat /\ ackAir' \in Nat
    BY <1>1, <1>2
  <1> QED
    BY <1>1, <1>3, <1>4, <1>5, <1>6, PeerReceivesStep

LEMMA PeerAckStep == ASSUME IInv, PeerHearsAck \/ AckIsLost PROVE IInv'
  <1>1. pUna \in Nat /\ ackAir \in Nat
    BY DEF IInv, TypeOK
  <1>2. (pUna' = Higher(pUna, ackAir) \/ pUna' = pUna) /\ ackAir' = 0
    BY DEF PeerHearsAck, AckIsLost, peer
  <1>3. pUna' \in Nat /\ ackAir' \in Nat
    BY <1>1, <1>2, HigherNat
  <1>4. /\ st' = st /\ una' = una /\ nxt' = nxt /\ rcv' = rcv /\ finSeen' = finSeen
        /\ closePending' = closePending /\ timer' = timer /\ retries' = retries
        /\ polling' = polling /\ view' = view /\ taken' = taken /\ pFin' = pFin
        /\ pSent' = pSent /\ pGot' = pGot /\ pFinGot' = pFinGot
    BY DEF PeerHearsAck, AckIsLost, peer, numbers, timers
  <1>5. TypeOK'
    BY <1>3, <1>4 DEF IInv, TypeOK
  <1>6. Stream'
    BY <1>4 DEF IInv, Stream, StreamInOrder
  <1>7. Closes' /\ Sent' /\ Told'
    BY <1>4 DEF IInv, Closes, CloseIsLast, Sent, Told, EndIsTold, PollingGoesOn
  <1> QED
    BY <1>5, <1>6, <1>7 DEF IInv

LEMMA PeerSendsStep == ASSUME IInv, PeerSends PROVE IInv'
  <1>1. /\ st \notin {"CLOSED", "LISTEN"} /\ pGot > 0 /\ ~pFin
        /\ \/ pSent <= MaxIn /\ pSent' = pSent + 1 /\ pFin' = pFin
           \/ pFin' = TRUE /\ pSent' = pSent
        /\ st' = st /\ una' = una /\ nxt' = nxt /\ rcv' = rcv /\ finSeen' = finSeen
        /\ closePending' = closePending /\ timer' = timer /\ retries' = retries
        /\ polling' = polling /\ view' = view /\ taken' = taken
        /\ pGot' = pGot /\ pFinGot' = pFinGot /\ pUna' = pUna /\ ackAir' = ackAir
    BY DEF PeerSends, numbers, timers
  <1>2. pSent \in Nat /\ pSent <= MaxIn + 1 /\ pFin \in BOOLEAN
    BY DEF IInv, TypeOK, Stream
  <1>3. pSent' \in Nat /\ pSent' <= MaxIn + 1 /\ pSent <= pSent'
    BY <1>1, <1>2, Bounds
  <1>4. pFin' \in BOOLEAN
    BY <1>1, <1>2
  <1>5. TypeOK'
    BY <1>1, <1>3, <1>4 DEF IInv, TypeOK
  <1>6. Stream'
    <2>1. StreamInOrder' /\ (taken # <<>> => Len(taken) < pSent) /\ Len(taken) \in Nat
      BY <1>1 DEF IInv, Stream, StreamInOrder, TypeOK
    <2>2. taken # <<>> => Len(taken) < pSent'
      BY <1>2, <1>3, <2>1
    <2> QED
      BY <1>1, <1>3, <2>1, <2>2 DEF IInv, Stream
  <1>7. Closes' /\ Sent' /\ Told'
    BY <1>1 DEF IInv, Closes, CloseIsLast, Sent, Told, EndIsTold, PollingGoesOn
  <1> QED
    BY <1>5, <1>6, <1>7 DEF IInv

-----------------------------------------------------------------------------
(*                              Theorems                                   *)

LEMMA NextInv == ASSUME IInv, [Next]_vars PROVE IInv'
  <1>1. ASSUME Next PROVE IInv'
    BY <1>1, ListenStep, ConnectStep, CloseStep, SendStep, PollStep, ResetStep, SynStep,
       SynAckStep, SegmentStep, PeerHearsSynStep, PeerHearsDataStep, PeerHearsFinStep,
       PeerAckStep, PeerSendsStep
       DEF Next, Peer
  <1>2. ASSUME UNCHANGED vars PROVE IInv'
    BY <1>2 DEF vars, numbers, timers, peer, IInv, TypeOK, Stream, StreamInOrder, Closes,
                CloseIsLast, Sent, Told, EndIsTold, PollingGoesOn
  <1> QED
    BY <1>1, <1>2

LEMMA Invariance == Spec => []IInv
  BY InitInv, NextInv, PTL DEF Spec

(* The socket's variables keep their types.                                *)
THEOREM TypesHold == Spec => []TypeOK
  <1>1. IInv => TypeOK
    BY DEF IInv
  <1> QED
    BY <1>1, Invariance, PTL

(* The listener takes the bytes of the peer in order, each once, whatever  *)
(* segments the network repeats, loses or delivers late.                   *)
THEOREM StreamStaysInOrder == Spec => []StreamInOrder
  <1>1. IInv => StreamInOrder
    BY DEF IInv, Stream
  <1> QED
    BY <1>1, Invariance, PTL

(* The listener is told of the peer's close only behind its last byte.     *)
THEOREM CloseComesLast == Spec => []CloseIsLast
  <1>1. IInv => CloseIsLast
    BY DEF IInv, Closes
  <1> QED
    BY <1>1, Invariance, PTL

(* No end of a connection is kept from the listener.                       *)
THEOREM EndsAreTold == Spec => []EndIsTold
  <1>1. IInv => EndIsTold
    BY DEF IInv, Told
  <1> QED
    BY <1>1, Invariance, PTL

(* The timer task goes on polling every socket that has something to wait  *)
(* for.                                                                    *)
THEOREM SocketsArePolled == Spec => []PollingGoesOn
  <1>1. IInv => PollingGoesOn
    BY DEF IInv, Told
  <1> QED
    BY <1>1, Invariance, PTL

-----------------------------------------------------------------------------
(*                    What the listener is told of a close                 *)

LEMMA DataKeepsView == ASSUME NEW f \in Segments, HearData(f) PROVE view' = view
  <1>1. CASE CloseOnAck(f)
    BY <1>1 DEF CloseOnAck, SendFin
  <1>2. CASE ~CloseOnAck(f)
    <2>1. PICK c \in AfterAck(f) :
             \/ LeaveData(f, c)
             \/ ~Ignored(f) /\ CloseOnData(f, c)
             \/ \E d \in AfterData(f, c) :
                   IF f.fin THEN TakeFin(f, d) ELSE Remains(AfterReply(f, d))
      BY <1>2 DEF HearData
    <2>2. CASE LeaveData(f, c)
      BY <2>2 DEF LeaveData, Remains
    <2>3. CASE CloseOnData(f, c)
      BY <2>3 DEF CloseOnData
    <2>4. ASSUME NEW d \in AfterData(f, c), TakeFin(f, d) \/ Remains(AfterReply(f, d))
          PROVE  view' = view
      BY <2>4 DEF TakeFin, Remains
    <2> QED
      BY <2>1, <2>2, <2>3, <2>4
  <1> QED
    BY <1>1, <1>2

LEMMA ToldWhenComplete ==
    ASSUME IInv, Next, view = "open", view' = "closed", st # "SYN_SENT"
    PROVE  pFinGot /\ pGot = nxt
  <1>1. CASE fnTCP_Listen \/ fnTCP_Connect \/ fnSendTCP
    BY <1>1 DEF fnTCP_Listen, fnTCP_Connect, fnSendTCP
  <1>2. CASE fnTCP_close
    BY <1>2 DEF fnTCP_close, SendFin
  <1>3. ASSUME NEW idle \in BOOLEAN, fnPollTCP(idle) PROVE FALSE
    <2>1. view' = view \/ view' = "aborted"
      BY <1>3 DEF fnPollTCP, PollEstablished, PollClose, PollIdle, PollData, fnDoCountDown,
                  fnAbortTCPSession, Ended
    <2> QED
      BY <2>1
  <1>4. CASE HearReset \/ HearSyn \/ HearSynAck \/ HearOldSegment
    BY <1>4 DEF HearReset, HearSyn, HearSynAck, HearOldSegment, Accept, Ended,
                fnAbortTCPSession
  <1>5. ASSUME NEW f \in Segments, HearSegment(f) PROVE pFinGot /\ pGot = nxt
    <2>1. CASE HearEstablished(f)
      BY <2>1 DEF HearEstablished
    <2>2. CASE HearData(f)
      BY <2>2, DataKeepsView
    <2>3. CASE HearClosing(f)
      <3>1. CASE st = "FIN_WAIT_2"
        BY <3>1 DEF IInv, Sent
      <3>2. CASE st # "FIN_WAIT_2"
        <4>1. st \in FinSent /\ AcksFin(f)
          BY <2>3, <3>2 DEF HearClosing, FinSent
        <4> QED
          BY <4>1, FinAcked
      <3> QED
        BY <3>1, <3>2
    <2>4. CASE HearLastAck(f)
      BY <2>4, FinAcked DEF HearLastAck, FinSent
    <2> QED
      BY <1>5, <2>1, <2>2, <2>3, <2>4 DEF HearSegment
  <1>6. CASE Peer
    BY <1>6 DEF Peer, PeerHearsSyn, PeerHearsData, PeerHearsFin, PeerHearsAck, AckIsLost,
                PeerSends
  <1> QED
    BY <1>1, <1>2, <1>3, <1>4, <1>5, <1>6 DEF Next

(* The listener is told that its connection is closed only when the peer   *)
(* has received everything, our FIN included.                              *)
THEOREM ClosedWhenComplete == Spec => ClosedIsComplete
  <1>1. IInv /\ [Next]_vars
        => [view = "open" /\ view' = "closed" /\ st # "SYN_SENT" => pFinGot /\ pGot = nxt]_vars
    BY ToldWhenComplete
  <1> QED
    BY <1>1, Invariance, PTL DEF Spec, ClosedIsComplete

-----------------------------------------------------------------------------
(*                    What the peer is told of its data                    *)

(* No acknowledgement is ahead of what was taken, and none but that of the *)
(* peer's SYN is given before the connection is open.                      *)
NotAhead ==
    st = "ESTABLISHED" /\ ~closePending => Higher(pUna, ackAir) <= Len(taken) + 1
NoneEarly == st \in Opening \cup {"CLOSED", "LISTEN"} => pUna <= 1 /\ ackAir <= 1
Acked == NotAhead /\ NoneEarly

LEMMA AheadIsOveracked == TypeOK => (NotAhead <=> ~Overacked)
  <1> SUFFICES ASSUME TypeOK PROVE NotAhead <=> ~Overacked
    OBVIOUS
  <1>1. Higher(pUna, ackAir) \in Nat /\ Len(taken) \in Nat
    BY DEF TypeOK, Higher
  <1> QED
    BY <1>1 DEF NotAhead, Overacked

LEMMA HigherBound ==
    ASSUME NEW a \in Nat, NEW b \in Nat, NEW n \in Nat, a <= n, b <= n
    PROVE  Higher(a, b) <= n
  BY DEF Higher

(* What the acknowledgements are compared with.                            *)
LEMMA AckNumbers ==
    ASSUME IInv, Acked, st = "ESTABLISHED", ~closePending
    PROVE  /\ pUna \in Nat /\ ackAir \in Nat /\ rcv \in Nat /\ Len(taken) \in Nat
           /\ rcv = Len(taken) + 1 /\ pUna <= rcv /\ ackAir <= rcv
  <1>1. pUna \in Nat /\ ackAir \in Nat /\ rcv \in Nat
    BY DEF IInv, TypeOK
  <1>2. Len(taken) \in Nat /\ rcv = Len(taken) + 1
    BY Received
  <1>3. Higher(pUna, ackAir) <= Len(taken) + 1
    BY DEF Acked, NotAhead, NoneEarly
  <1>4. Higher(pUna, ackAir) \in Nat /\ Higher(pUna, ackAir) >= pUna
        /\ Higher(pUna, ackAir) >= ackAir
    BY <1>1, HigherNat
  <1> QED
    BY <1>1, <1>2, <1>3, <1>4

(* A step after which nothing is acknowledged beyond what was taken.       *)
LEMMA AckedOpen ==
    ASSUME st' = "ESTABLISHED", pUna' \in Nat, ackAir' \in Nat, NEW n \in Nat,
           Len(taken') + 1 = n, pUna' <= n, ackAir' <= n
    PROVE  Acked'
  <1>1. Higher(pUna', ackAir') <= Len(taken') + 1
    BY HigherBound
  <1>2. NotAhead'
    BY <1>1 DEF NotAhead
  <1> QED
    BY <1>2 DEF Acked, NoneEarly, Opening

LEMMA AckedElsewhere ==
    ASSUME st' \in States,
           st' = "ESTABLISHED" => closePending',
           st' \in Opening \cup {"CLOSED", "LISTEN"} => pUna' <= 1 /\ ackAir' <= 1
    PROVE  Acked'
  BY DEF Acked, NotAhead, NoneEarly

(* A step that stays on the connection and acknowledges what was taken.    *)
LEMMA AckedStays ==
    ASSUME IInv, Acked, st = "ESTABLISHED", st' = st, closePending' = closePending,
           taken' = taken, pUna' = pUna, ackAir' = ackAir \/ ackAir' = Higher(ackAir, rcv)
    PROVE  Acked'
  <1>1. CASE closePending
    BY <1>1 DEF Acked, NotAhead, NoneEarly, Opening
  <1>2. CASE ~closePending
    <2>1. /\ pUna \in Nat /\ ackAir \in Nat /\ rcv \in Nat /\ rcv = Len(taken) + 1
          /\ pUna <= rcv /\ ackAir <= rcv
      BY <1>2, AckNumbers
    <2>2. ackAir' \in Nat /\ ackAir' <= rcv
      BY <2>1 DEF Higher
    <2> QED
      BY <2>1, <2>2, AckedOpen
  <1> QED
    BY <1>1, <1>2

(* A segment that is in order is never ignored.                            *)
LEMMA InOrderCounts ==
    ASSUME IInv, st = "ESTABLISHED", NEW f \in Segments, f.seq = rcv
    PROVE  ~Ignored(f)
  <1>1. f.len \in Nat /\ f.seq \in Nat /\ f.seq >= 1 /\ (f.len # 0 => f.seq + f.len <= pSent)
    BY SegmentFacts
  <1>2. pSent \in Nat /\ pSent <= MaxIn + 1 /\ rcv \in Nat
    BY Received DEF IInv, TypeOK
  <1>3. CASE f.len # 0
    <2>1. f.len - (rcv - f.seq) = f.len
      BY <1>1, <1>2
    <2>2. -LengthMod < f.len /\ f.len < LengthMod
      BY <1>1, <1>2, <1>3, Bounds
    <2>3. f.len % LengthMod = f.len
      BY <1>1, <2>2, Bounds, ModFacts
    <2>4. Extra(f) = f.len
      BY <2>1, <2>3 DEF Extra
    <2> QED
      BY <1>1, <2>4 DEF Ignored
  <1> QED
    BY <1>3 DEF Ignored

LEMMA SendingIsSent ==
    ASSUME NEW c \in Connections, NEW n, NEW air
    PROVE  Sending(c, n, air).sent
  BY DEF Connections, Sending

(* What is acknowledged when the acknowledgement of f has been handled:    *)
(* f's bytes in order, when the listener has answered it.                  *)
LEMMA AfterAckAir ==
    ASSUME IInv, NEW f \in Segments, ackAir <= rcv, NEW c \in AfterAck(f)
    PROVE  \/ c.air <= rcv
           \/ c.sent /\ f.seq = rcv /\ f.len # 0 /\ c.air <= rcv + f.len
  <1>1. /\ nxt \in Nat /\ rcv \in Nat /\ finSeen \in BOOLEAN /\ ackAir \in Nat /\ una \in Nat
        /\ f.len \in Nat /\ f.seq \in Nat /\ f.fin \in BOOLEAN
    BY SegmentFacts DEF IInv, TypeOK
  <1>2. Connection \in Connections /\ Connection.air = ackAir
    BY <1>1 DEF Connection, Connections
  <1>3. CASE ~AcksAll(f)
    <2>1. c = Connection
      BY <1>3 DEF AfterAck
    <2> QED
      BY <1>2, <2>1
  <1>4. CASE AcksAll(f)
    <2> DEFINE flag == finSeen \/ f.fin
               told == [Connection EXCEPT !.una = nxt, !.flag = flag]
               seen == IF f.seq = rcv THEN rcv + f.len ELSE rcv
               air == IF flag THEN ackAir ELSE Higher(ackAir, seen)
    <2>1. told \in Connections /\ told.air = ackAir
      BY <1>1, <1>2 DEF Connections
    <2>2. c = told \/ \E n \in Sendable : c = Sending(told, nxt + n, air)
      BY <1>4 DEF AfterAck, Sending
    <2>3. seen \in Nat /\ seen >= rcv /\ (seen = rcv \/ (f.seq = rcv /\ f.len # 0 /\ seen = rcv + f.len))
      BY <1>1
    <2> HIDE DEF seen, told
    <2>4. air \in Nat /\ air <= seen
      <3>1. Higher(ackAir, seen) \in Nat
        BY <1>1, <2>3, HigherNat
      <3>2. ackAir <= seen
        BY <1>1, <2>3
      <3>3. Higher(ackAir, seen) <= seen
        BY <1>1, <2>3, <3>2, HigherBound
      <3> QED
        BY <1>1, <3>1, <3>2, <3>3
    <2> HIDE DEF air
    <2>5. CASE c = told
      BY <2>1, <2>5
    <2>6. ASSUME NEW n \in Sendable, c = Sending(told, nxt + n, air)
          PROVE  c.sent /\ c.air = air
      <3> DEFINE m == nxt + n
      <3>1. m \in Nat
        BY <1>1, SendableNat
      <3>2. c = Sending(told, m, air)
        BY <2>6
      <3> HIDE DEF m
      <3>3. c.air = air
        BY <2>1, <2>4, <3>1, <3>2, SendingFacts
      <3>4. c.sent
        BY <2>1, <3>2, SendingIsSent
      <3> QED
        BY <3>3, <3>4
    <2>7. CASE c.sent /\ c.air = air
      <3>1. CASE seen = rcv
        BY <2>4, <2>7, <3>1
      <3>2. CASE f.seq = rcv /\ f.len # 0 /\ seen = rcv + f.len
        BY <2>4, <2>7, <3>2
      <3> QED
        BY <2>3, <3>1, <3>2
    <2> QED
      BY <2>2, <2>5, <2>6, <2>7
  <1> QED
    BY <1>3, <1>4

LEMMA AfterDataAir ==
    ASSUME IInv, st = "ESTABLISHED", NEW f \in Segments, ~Ignored(f),
           NEW c, Onward(c), c.rcv = rcv, c.air <= rcv + Len(NewBytes(f)),
           NEW d \in AfterData(f, c)
    PROVE  d.air <= rcv + Len(NewBytes(f))
  <1>1. rcv \in Nat /\ nxt \in Nat /\ Len(NewBytes(f)) \in Nat
    BY NewBytesFacts DEF IInv, TypeOK
  <1>2. c \in Connections /\ c.nxt \in Nat /\ c.air \in Nat
    BY DEF Onward, Connections
  <1> DEFINE flag == c.flag /\ ~(f.len # 0 /\ f.seq = rcv)
             upto == rcv + Len(NewBytes(f))
             read == Reading(c, upto, flag)
             air == IF flag THEN c.air ELSE Higher(c.air, read.rcv)
  <1>3. upto \in Nat /\ flag \in BOOLEAN /\ c.air <= upto
    BY <1>1
  <1>4. d = c \/ d = read \/ \E n \in Sendable : d = Sending(read, c.nxt + n, air)
    BY DEF AfterData, Sending, Reading
  <1> HIDE DEF upto, flag
  <1>5. read \in Connections /\ read.rcv = upto /\ read.air = c.air
    BY <1>2, <1>3, ReadingFacts
  <1> HIDE DEF read
  <1>6. Higher(c.air, read.rcv) \in Nat /\ Higher(c.air, read.rcv) <= upto
    BY <1>2, <1>3, <1>5 DEF Higher
  <1>7. air \in Nat /\ air <= upto
    BY <1>2, <1>3, <1>6
  <1> HIDE DEF air
  <1>8. ASSUME NEW n \in Sendable, d = Sending(read, c.nxt + n, air) PROVE d.air = air
    <2> DEFINE m == c.nxt + n
    <2>1. m \in Nat
      BY <1>1, <1>2, SendableNat
    <2>2. d = Sending(read, m, air)
      BY <1>8
    <2> HIDE DEF m
    <2> QED
      BY <1>5, <1>7, <2>1, <2>2, SendingFacts
  <1>9. d.air <= upto
    BY <1>3, <1>4, <1>5, <1>7, <1>8
  <1> QED
    BY <1>9 DEF upto

(* A connection that goes on with the numbers in c.                        *)
LEMMA AckedRemains ==
    ASSUME IInv, Acked, st = "ESTABLISHED", ~closePending, NEW c, Onward(c), Remains(c),
           peer' = peer, taken' \in Seq(Nat), Len(taken') >= Len(taken),
           c.air <= Len(taken') + 1
    PROVE  Acked'
  <1>1. /\ pUna \in Nat /\ Len(taken) \in Nat /\ pUna <= Len(taken) + 1
    BY AckNumbers
  <1>2. st' = "ESTABLISHED" /\ ackAir' = c.air /\ c.air \in Nat /\ pUna' = pUna
    BY DEF Remains, Becomes, Onward, Connections, peer
  <1>3. Len(taken') \in Nat
    OBVIOUS
  <1> DEFINE n == Len(taken') + 1
  <1>4. n \in Nat /\ pUna' \in Nat /\ pUna' <= n /\ ackAir' <= n /\ ackAir' \in Nat
    BY <1>1, <1>2, <1>3
  <1>5. Len(taken') + 1 = n
    OBVIOUS
  <1> HIDE DEF n
  <1> QED
    BY <1>2, <1>4, <1>5, AckedOpen

LEMMA AckedPending ==
    ASSUME IInv, st = "ESTABLISHED", closePending, NEW c, Remains(c)
    PROVE  Acked'
  <1>1. st' = "ESTABLISHED" /\ st' \in States /\ closePending'
    BY DEF Remains, States
  <1> QED
    BY <1>1, AckedElsewhere DEF Opening

LEMMA AckedFin ==
    ASSUME NEW next \in {"FIN_WAIT_1", "CLOSING", "LAST_ACK", "CLOSE_WAIT"}, fnNewTCPState(next)
    PROVE  Acked'
  <1>1. next \in States
    BY DEF States, FinSent
  <1>2. st' = next /\ st' \in States
    BY <1>1, NewStateTypes
  <1> QED
    BY <1>2, AckedElsewhere DEF Opening

LEMMA LeaveDataAcked ==
    ASSUME IInv, Acked, st = "ESTABLISHED", ~closePending,
           NEW f \in Segments, HearData(f), ~RefusesAfterSending,
           NEW c, Onward(c), c.sent => c.nxt > nxt, LeaveData(f, c), peer' = peer,
           \/ c.air <= rcv
           \/ c.sent /\ f.seq = rcv /\ f.len # 0 /\ c.air <= rcv + f.len
    PROVE  Acked'
  <1>1. /\ taken' = taken /\ taken' \in Seq(Nat) /\ rcv = Len(taken') + 1
        /\ Len(taken) \in Nat /\ Len(taken') >= Len(taken)
    BY Received DEF LeaveData, IInv, TypeOK
  <1>2. CASE Ignored(f) /\ Remains(c)
    <2>1. c.air <= Len(taken') + 1
      BY <1>1, <1>2, InOrderCounts
    <2> QED
      BY <1>1, <1>2, <2>1, AckedRemains
  <1>3. CASE /\ ~c.sent
             /\ Remains([c EXCEPT !.flag = c.flag /\ f.seq # rcv])
    <2> DEFINE flag == c.flag /\ f.seq # rcv
               d == [c EXCEPT !.flag = flag]
    <2>1. c \in Connections /\ flag \in BOOLEAN
      BY DEF Onward
    <2> HIDE DEF flag
    <2>2. d \in Connections /\ d.una = c.una /\ d.nxt = c.nxt /\ d.air = c.air
      BY <2>1 DEF Connections
    <2>3. Remains(d)
      BY <1>3 DEF flag
    <2> HIDE DEF d
    <2>4. Onward(d)
      BY <2>2 DEF Onward
    <2>5. d.air <= Len(taken') + 1
      BY <1>1, <1>3, <2>2
    <2> QED
      BY <1>1, <2>3, <2>4, <2>5, AckedRemains
  <1>4. CASE /\ c.sent /\ NewBytes(f) # <<>>
             /\ Remains([c EXCEPT !.flag = c.flag /\ f.seq # rcv])
    <2>1. f.len # 0
      BY <1>4 DEF NewBytes
    <2>2. nxt' = c.nxt
      BY <1>4 DEF Remains, Becomes, Onward, Connections
    <2> QED
      BY <1>1, <1>4, <2>1, <2>2 DEF RefusesAfterSending
  <1> QED
    BY <1>2, <1>3, <1>4 DEF LeaveData

LEMMA CloseOnDataAcked ==
    ASSUME IInv, st = "ESTABLISHED", NEW f, NEW c, CloseOnData(f, c)
    PROVE  Acked'
  <1>1. CASE c.una = c.nxt
    <2>1. fnNewTCPState("FIN_WAIT_1")
      BY <1>1 DEF CloseOnData
    <2> QED
      BY <2>1, AckedFin
  <1>2. CASE c.una # c.nxt
    <2>1. st' = "ESTABLISHED" /\ st' \in States /\ closePending'
      BY <1>2 DEF CloseOnData, States
    <2> QED
      BY <2>1, AckedElsewhere DEF Opening
  <1> QED
    BY <1>1, <1>2

(* The bytes are taken; what is acknowledged after them are at most these. *)
LEMMA TakenAcked ==
    ASSUME IInv, Acked, st = "ESTABLISHED", ~closePending, NEW f \in Segments, ~Ignored(f),
           NEW c, Onward(c), c.rcv = rcv, peer' = peer,
           \/ c.air <= rcv
           \/ f.seq = rcv /\ c.air <= rcv + f.len,
           taken' = taken \o NewBytes(f), NEW d \in AfterData(f, c),
           Remains(d) \/ Remains(AfterReply(f, d))
    PROVE  Acked'
  <1>1. /\ Len(taken) \in Nat /\ rcv = Len(taken) + 1 /\ Len(NewBytes(f)) \in Nat
        /\ (f.seq = rcv => Len(NewBytes(f)) = f.len) /\ rcv \in Nat
    BY Received, NewBytesFacts DEF IInv, TypeOK
  <1>2. c.air \in Nat
    BY DEF Onward, Connections
  <1>3. c.air <= rcv + Len(NewBytes(f))
    BY <1>1, <1>2
  <1>4. d.air <= rcv + Len(NewBytes(f))
    BY <1>3, AfterDataAir
  <1>5. Onward(d) /\ d.rcv = rcv + Len(NewBytes(f))
    BY AfterDataFacts
  <1>6. /\ taken' \in Seq(Nat) /\ Len(taken') = Len(taken) + Len(NewBytes(f))
    BY TakenFacts DEF peer
  <1>7. /\ Len(taken') >= Len(taken)
        /\ d.air <= Len(taken') + 1 /\ d.rcv = Len(taken') + 1
    BY <1>1, <1>4, <1>5, <1>6
  <1>8. CASE Remains(d)
    BY <1>5, <1>6, <1>7, <1>8, AckedRemains
  <1>9. CASE Remains(AfterReply(f, d))
    <2> DEFINE e == AfterReply(f, d)
               answer == [d EXCEPT !.flag = FALSE, !.air = Higher(d.air, d.rcv)]
    <2>1. d \in Connections /\ d.air \in Nat /\ d.rcv \in Nat
      BY <1>5 DEF Onward, Connections
    <2>2. answer.air = Higher(d.air, d.rcv)
      BY <2>1 DEF Connections
    <2>3. e = d \/ e = answer
      BY DEF AfterReply
    <2>4. Onward(e)
      BY <1>5, AfterReplyFacts
    <2> HIDE DEF e, answer
    <2>5. e.air <= Len(taken') + 1
      BY <1>7, <2>1, <2>2, <2>3 DEF Higher
    <2>6. Remains(e)
      BY <1>9 DEF e
    <2> QED
      BY <1>6, <1>7, <2>4, <2>5, <2>6, AckedRemains
  <1> QED
    BY <1>8, <1>9

LEMMA DataAcked ==
    ASSUME ~RefusesAfterSending, IInv, Acked, NEW f \in Segments, HearData(f)
    PROVE  Acked'
  <1>1. st = "ESTABLISHED"
    BY DEF HearData
  <1>2. CASE CloseOnAck(f)
    <2> DEFINE next == IF f.fin THEN "CLOSING" ELSE "FIN_WAIT_1"
    <2>1. next \in {"FIN_WAIT_1", "CLOSING", "LAST_ACK", "CLOSE_WAIT"} /\ fnNewTCPState(next)
      BY <1>2 DEF CloseOnAck
    <2> HIDE DEF next
    <2> QED
      BY <2>1, AckedFin
  <1>3. CASE ~CloseOnAck(f)
    <2>1. peer' = peer
      BY <1>3 DEF HearData
    <2>2. PICK c \in AfterAck(f) :
             \/ LeaveData(f, c)
             \/ ~Ignored(f) /\ CloseOnData(f, c)
             \/ /\ ~Ignored(f)
                /\ \E d \in AfterData(f, c) :
                      IF f.fin THEN TakeFin(f, d) ELSE Remains(AfterReply(f, d))
                /\ taken' = taken \o NewBytes(f)
      BY <1>3 DEF HearData
    <2>3. Onward(c) /\ c.rcv = rcv /\ (c.sent => c.nxt > nxt)
      BY AfterAckFacts
    <2>4. ASSUME ~closePending
          PROVE  \/ c.air <= rcv
                 \/ c.sent /\ f.seq = rcv /\ f.len # 0 /\ c.air <= rcv + f.len
      <3>1. ackAir <= rcv
        BY <1>1, <2>4, AckNumbers
      <3> QED
        BY <3>1, AfterAckAir
    <2>5. CASE LeaveData(f, c)
      <3>1. CASE closePending
        <4>1. PICK e : Remains(e)
          BY <2>5 DEF LeaveData
        <4> QED
          BY <1>1, <3>1, <4>1, AckedPending
      <3>2. CASE ~closePending
        BY <1>1, <2>1, <2>3, <2>4, <2>5, <3>2, LeaveDataAcked
      <3> QED
        BY <3>1, <3>2
    <2>6. CASE CloseOnData(f, c)
      BY <1>1, <2>6, CloseOnDataAcked
    <2>7. ASSUME ~Ignored(f), taken' = taken \o NewBytes(f), NEW d \in AfterData(f, c),
                 Remains(d) \/ Remains(AfterReply(f, d))
          PROVE  Acked'
      <3>1. CASE closePending
        BY <1>1, <2>7, <3>1, AckedPending
      <3>2. CASE ~closePending
        <4>1. c.air <= rcv \/ (f.seq = rcv /\ c.air <= rcv + f.len)
          BY <2>4, <3>2
        <4> QED
          BY <1>1, <2>1, <2>3, <2>7, <3>2, <4>1, TakenAcked
      <3> QED
        BY <3>1, <3>2
    <2>8. ASSUME NEW next \in {"LAST_ACK", "CLOSE_WAIT"}, fnNewTCPState(next) PROVE Acked'
      BY <2>8, AckedFin
    <2>9. ASSUME ~Ignored(f), taken' = taken \o NewBytes(f), NEW d \in AfterData(f, c),
                 IF f.fin THEN TakeFin(f, d) ELSE Remains(AfterReply(f, d))
          PROVE  Acked'
      <3>1. CASE f.fin
        BY <2>7, <2>8, <2>9, <3>1 DEF TakeFin
      <3>2. CASE ~f.fin
        BY <2>7, <2>9, <3>2
      <3> QED
        BY <3>1, <3>2
    <2> QED
      BY <2>2, <2>5, <2>6, <2>9
  <1> QED
    BY <1>2, <1>3

(* A step that leaves a state other than the open connection.              *)
LEMMA AckedKept ==
    ASSUME IInv, Acked, st # "ESTABLISHED", st' = st,
           \/ pUna' = pUna /\ ackAir' = ackAir
           \/ st \notin Opening \cup {"CLOSED", "LISTEN"}
    PROVE  Acked'
  <1>1. st' \in States /\ st' # "ESTABLISHED"
    BY DEF IInv, TypeOK
  <1>2. st' \in Opening \cup {"CLOSED", "LISTEN"} => pUna' <= 1 /\ ackAir' <= 1
    BY DEF Acked, NoneEarly
  <1> QED
    BY <1>1, <1>2, AckedElsewhere

LEMMA AckedForgotten == ASSUME st' \in States \ {"ESTABLISHED"}, Forget PROVE Acked'
  BY AckedElsewhere DEF Forget

LEMMA AckedEnded == ASSUME NEW how, Ended(how) PROVE Acked'
  <1>1. st' \in States \ {"ESTABLISHED"} /\ Forget
    BY DEF Ended, States
  <1> QED
    BY <1>1, AckedForgotten

LEMMA CountDownAcked ==
    ASSUME IInv, Acked, NEW timeout, fnDoCountDown(timeout), st \in Opening \cup FinSent
    PROVE  Acked'
  <1>1. CASE fnAbortTCPSession
    BY <1>1, AckedEnded DEF fnAbortTCPSession
  <1>2. CASE ~fnAbortTCPSession
    <2>1. st' = st /\ pUna' = pUna /\ (ackAir' = ackAir \/ st \notin Opening)
      BY <1>2 DEF fnDoCountDown, peer
    <2>2. st # "ESTABLISHED" /\ st \notin {"CLOSED", "LISTEN"}
      BY DEF Opening, FinSent
    <2> QED
      BY <2>1, <2>2, AckedKept
  <1> QED
    BY <1>1, <1>2

LEMMA PollAcked ==
    ASSUME IInv, Acked, NEW idle \in BOOLEAN, fnPollTCP(idle)
    PROVE  Acked'
  <1>1. CASE st = "ESTABLISHED" /\ PollEstablished(idle)
    <2>1. CASE PollClose \/ PollIdle
      <3>1. fnNewTCPState("FIN_WAIT_1")
        BY <2>1 DEF PollClose, PollIdle
      <3> QED
        BY <3>1, AckedFin
    <2>2. CASE PollData /\ ~fnAbortTCPSession
      <3>1. /\ st' = st /\ closePending' = closePending /\ taken' = taken /\ pUna' = pUna
            /\ (ackAir' = ackAir \/ ackAir' = Higher(ackAir, rcv))
        BY <2>2 DEF PollData, numbers, peer, Acknowledge
      <3> QED
        BY <1>1, <3>1, AckedStays
    <2>3. CASE fnAbortTCPSession
      BY <2>3, AckedEnded DEF fnAbortTCPSession
    <2> QED
      BY <1>1, <2>1, <2>2, <2>3 DEF PollEstablished
  <1>2. ASSUME NEW timeout, fnDoCountDown(timeout), st \in Opening \cup FinSent PROVE Acked'
    BY <1>2, CountDownAcked
  <1>3. CASE st # "ESTABLISHED" /\ UNCHANGED <<st, peer, ackAir>>
    BY <1>3, AckedKept DEF peer
  <1>4. CASE st' = "CLOSED" /\ Forget
    <2>1. st' \in States \ {"ESTABLISHED"}
      BY <1>4 DEF States
    <2> QED
      BY <1>4, <2>1, AckedForgotten
  <1> QED
    <2>1. CASE st = "ESTABLISHED" /\ PollEstablished(idle)
      BY <1>1, <2>1
    <2>2. CASE st = "SYN_SENT" /\ fnDoCountDown(TCP_SYN_RETRY_TOUT)
      BY <1>2, <2>2 DEF Opening
    <2>3. CASE /\ st \in {"SYN_RCVD", "LAST_ACK", "FIN_WAIT_1", "CLOSING", "FIN_WAIT_2"}
               /\ fnDoCountDown(TCP_STANDARD_RETRY_TOUT)
      BY <1>2, <2>3 DEF Opening, FinSent
    <2>4. CASE st = "TIME_WAIT" /\ UNCHANGED <<st, peer, ackAir>>
      BY <1>3, <2>4
    <2>5. CASE st \notin Polled /\ UNCHANGED <<st, peer, ackAir>>
      BY <1>3, <2>5 DEF Polled
    <2> QED
      BY <1>4, <2>1, <2>2, <2>3, <2>4, <2>5 DEF fnPollTCP

LEMMA SegmentAcked ==
    ASSUME ~RefusesAfterSending, IInv, Acked, NEW f \in Segments, HearSegment(f)
    PROVE  Acked'
  <1>1. CASE HearEstablished(f)
    <2>1. /\ st = "SYN_RCVD" /\ taken' = taken /\ pUna' = pUna /\ ackAir' = ackAir
          /\ st' = "ESTABLISHED"
      BY <1>1 DEF HearEstablished, peer, fnNewTCPState
    <2>2. taken = <<>> /\ pUna \in Nat /\ ackAir \in Nat /\ pUna <= 1 /\ ackAir <= 1
      BY <2>1 DEF IInv, TypeOK, Stream, Acked, NoneEarly, Opening
    <2>3. Len(taken') + 1 = 1
      BY <2>1, <2>2, EmptyOrder
    <2> QED
      BY <2>1, <2>2, <2>3, AckedOpen
  <1>2. CASE HearData(f)
    BY <1>2, DataAcked
  <1>3. CASE HearClosing(f)
    <2>1. st' \in FinSent
      BY <1>3 DEF HearClosing, EnterTimeWait, fnNewTCPState, FinSent
    <2>2. st' \in States
      BY <2>1 DEF States
    <2> QED
      BY <2>1, <2>2, AckedElsewhere DEF FinSent, Opening
  <1>4. CASE HearLastAck(f)
    BY <1>4, AckedEnded DEF HearLastAck
  <1> QED
    BY <1>1, <1>2, <1>3, <1>4 DEF HearSegment

LEMMA SynAcked ==
    ASSUME IInv, Acked, HearSyn \/ HearSynAck
    PROVE  Acked'
  <1>1. CASE st \in {"LISTEN", "SYN_RCVD"} /\ Accept
    <2>1. st' = "SYN_RCVD" /\ st' \in States /\ pUna' = pUna /\ ackAir' = ackAir
      BY <1>1 DEF Accept, fnNewTCPState, States, Opening
    <2>2. pUna <= 1 /\ ackAir <= 1
      BY <1>1 DEF Acked, NoneEarly, Opening
    <2> QED
      BY <2>1, <2>2, AckedElsewhere
  <1>2. CASE st' = "LISTEN" /\ Forget
    <2>1. st' \in States \ {"ESTABLISHED"}
      BY <1>2 DEF States
    <2> QED
      BY <1>2, <2>1, AckedForgotten
  <1>3. CASE Ended("aborted")
    BY <1>3, AckedEnded
  <1>4. CASE HearSynAck /\ st = "SYN_SENT"
    <2>1. /\ st' = "ESTABLISHED" /\ taken' = taken /\ pUna' = pUna
          /\ ackAir' = Higher(ackAir, 1)
      BY <1>4 DEF HearSynAck, fnNewTCPState, Acknowledge, peer
    <2>2. taken = <<>> /\ pUna \in Nat /\ ackAir \in Nat /\ pUna <= 1 /\ ackAir <= 1
      BY <1>4 DEF IInv, TypeOK, Stream, Acked, NoneEarly, Opening
    <2>3. Len(taken') + 1 = 1
      BY <2>1, <2>2, EmptyOrder
    <2>4. ackAir' \in Nat /\ ackAir' <= 1
      BY <2>1, <2>2 DEF Higher
    <2> QED
      BY <2>1, <2>2, <2>3, <2>4, AckedOpen
  <1>5. CASE HearSynAck /\ st = "ESTABLISHED"
    <2>1. /\ st' = st /\ closePending' = closePending /\ taken' = taken /\ pUna' = pUna
          /\ ackAir' = Higher(ackAir, rcv)
      BY <1>5 DEF HearSynAck, Acknowledge, peer
    <2> QED
      BY <1>5, <2>1, AckedStays
  <1> QED
    BY <1>1, <1>2, <1>3, <1>4, <1>5 DEF HearSyn, HearSynAck

LEMMA CallAcked ==
    ASSUME IInv, Acked, fnTCP_Listen \/ fnTCP_Connect \/ fnTCP_close \/ fnSendTCP
    PROVE  Acked'
  <1>1. CASE fnTCP_Listen
    <2>1. st' \in States \ {"ESTABLISHED"} /\ Forget
      BY <1>1 DEF fnTCP_Listen, States
    <2> QED
      BY <2>1, AckedForgotten
  <1>2. CASE fnTCP_Connect
    <2>1. st' = "SYN_SENT" /\ st' \in States /\ pUna' = 0 /\ ackAir' = 0
      BY <1>2 DEF fnTCP_Connect, States, Opening
    <2> QED
      BY <2>1, AckedElsewhere
  <1>3. CASE fnTCP_close
    <2>1. CASE fnNewTCPState("FIN_WAIT_1")
      BY <2>1, AckedFin
    <2>2. CASE Ended("closed")
      BY <2>2, AckedEnded
    <2>3. CASE st' = "CLOSED" /\ Forget
      <3>1. st' \in States \ {"ESTABLISHED"}
        BY <2>3 DEF States
      <3> QED
        BY <2>3, <3>1, AckedForgotten
    <2>4. CASE st' = "ESTABLISHED" /\ closePending' = TRUE
      <3>1. st' \in States /\ closePending'
        BY <2>4 DEF States
      <3> QED
        BY <2>4, <3>1, AckedElsewhere DEF Opening
    <2> QED
      BY <1>3, <2>1, <2>2, <2>3, <2>4 DEF fnTCP_close
  <1>4. CASE fnSendTCP
    <2>1. /\ st = "ESTABLISHED" /\ st' = st /\ closePending' = closePending /\ taken' = taken
          /\ pUna' = pUna /\ (ackAir' = ackAir \/ ackAir' = Higher(ackAir, rcv))
      BY <1>4 DEF fnSendTCP, Acknowledge, peer
    <2> QED
      BY <2>1, AckedStays
  <1> QED
    BY <1>1, <1>2, <1>3, <1>4

LEMMA PeerAcked == ASSUME IInv, Acked, Peer PROVE Acked'
  <1>1. CASE PeerHearsSyn
    <2>1. /\ st' = st /\ pUna' = pSent /\ ackAir' = ackAir /\ pSent \in Nat /\ pSent <= 1
          /\ st # "ESTABLISHED" /\ st' \in States
      BY <1>1 DEF PeerHearsSyn, IInv, TypeOK, Stream, Closes
    <2>2. st' \in Opening \cup {"CLOSED", "LISTEN"} => pUna' <= 1 /\ ackAir' <= 1
      BY <2>1 DEF Acked, NoneEarly
    <2> QED
      BY <2>1, <2>2, AckedElsewhere
  <1>2. CASE PeerHearsAck \/ AckIsLost
    <2>1. /\ st' = st /\ closePending' = closePending /\ taken' = taken /\ ackAir' = 0
          /\ (pUna' = pUna \/ pUna' = Higher(pUna, ackAir)) /\ pUna \in Nat /\ ackAir \in Nat
          /\ st' \in States
      BY <1>2 DEF PeerHearsAck, AckIsLost, numbers, peer, IInv, TypeOK
    <2>2. CASE st = "ESTABLISHED" /\ ~closePending
      <3>1. rcv = Len(taken) + 1 /\ rcv \in Nat /\ pUna <= rcv /\ ackAir <= rcv
        BY <2>2, AckNumbers
      <3>2. pUna' \in Nat /\ pUna' <= rcv /\ ackAir' \in Nat /\ ackAir' <= rcv
        BY <2>1, <3>1 DEF Higher
      <3> QED
        BY <2>1, <2>2, <3>1, <3>2, AckedOpen
    <2>3. CASE st # "ESTABLISHED" \/ closePending
      <3>1. st' = "ESTABLISHED" => closePending'
        BY <2>1, <2>3
      <3>2. st' \in Opening \cup {"CLOSED", "LISTEN"} => pUna <= 1 /\ ackAir <= 1
        BY <2>1 DEF Acked, NoneEarly
      <3>3. st' \in Opening \cup {"CLOSED", "LISTEN"} => pUna' <= 1 /\ ackAir' <= 1
        BY <2>1, <3>2 DEF Higher
      <3> QED
        BY <2>1, <3>1, <3>3, AckedElsewhere
    <2> QED
      BY <2>2, <2>3
  <1>3. CASE PeerHearsData \/ PeerHearsFin \/ PeerSends
    <2>1. /\ st' = st /\ closePending' = closePending /\ taken' = taken /\ pUna' = pUna
          /\ ackAir' = ackAir
      BY <1>3 DEF PeerHearsData, PeerHearsFin, PeerSends, numbers
    <2> QED
      BY <2>1, AckedStays, AckedKept
  <1> QED
    BY <1>1, <1>2, <1>3 DEF Peer

LEMMA NextAcked ==
    ASSUME ~RefusesAfterSending, IInv, Acked, [Next]_vars
    PROVE  Acked'
  <1>1. CASE HearReset \/ HearOldSegment
    <2>1. Ended("aborted")
      BY <1>1 DEF HearReset, HearOldSegment, fnAbortTCPSession
    <2> QED
      BY <2>1, AckedEnded
  <1>2. CASE UNCHANGED vars
    BY <1>2 DEF vars, numbers, peer, Acked, NotAhead, NoneEarly
  <1> QED
    BY <1>1, <1>2, CallAcked, PollAcked, SynAcked, SegmentAcked, PeerAcked DEF Next

(* An open connection, overacked or not, leaves nothing acknowledged to a  *)
(* state in which none is open.                                            *)
LEMMA OpenLeavesNone == ASSUME st = "ESTABLISHED", [Next]_vars PROVE NoneEarly'
  <1> DEFINE Going == FinSent \cup {"ESTABLISHED", "CLOSE_WAIT"}
  <1>1. ASSUME st' \in Going PROVE NoneEarly'
    BY <1>1 DEF NoneEarly, Opening, FinSent
  <1>2. ASSUME Forget PROVE NoneEarly'
    BY <1>2 DEF Forget, NoneEarly
  <1>3. ASSUME NEW how, Ended(how) PROVE NoneEarly'
    BY <1>2, <1>3 DEF Ended
  <1>4. ASSUME NEW next \in Going, fnNewTCPState(next) PROVE NoneEarly'
    BY <1>1, <1>4 DEF fnNewTCPState
  <1>5. CASE fnTCP_close \/ fnSendTCP
    <2>1. st' \in Going \/ fnNewTCPState("FIN_WAIT_1")
      BY <1>5 DEF fnTCP_close, fnSendTCP
    <2> QED
      BY <1>1, <1>4, <2>1 DEF FinSent
  <1>6. ASSUME NEW idle \in BOOLEAN, fnPollTCP(idle) PROVE NoneEarly'
    <2>1. PollEstablished(idle)
      BY <1>6 DEF fnPollTCP, Polled
    <2>2. fnNewTCPState("FIN_WAIT_1") \/ st' \in Going \/ Ended("aborted")
      BY <2>1 DEF PollEstablished, PollClose, PollIdle, PollData, fnAbortTCPSession
    <2> QED
      BY <1>1, <1>3, <1>4, <2>2 DEF FinSent
  <1>7. CASE HearReset \/ HearSyn
    BY <1>3, <1>7 DEF HearReset, HearSyn
  <1>8. CASE HearSynAck
    <2>1. st' \in Going
      BY <1>8 DEF HearSynAck
    <2> QED
      BY <1>1, <2>1
  <1>9. ASSUME NEW f \in Segments, HearSegment(f) PROVE NoneEarly'
    <2>1. HearData(f)
      BY <1>9 DEF HearSegment, HearEstablished, HearClosing, HearLastAck
    <2>2. \/ st' \in Going
          \/ \E next \in Going : fnNewTCPState(next)
      <3>1. CASE CloseOnAck(f)
        BY <3>1 DEF CloseOnAck, FinSent
      <3>2. ASSUME NEW c, \/ Remains(c) \/ LeaveData(f, c) \/ CloseOnData(f, c)
                         \/ TakeFin(f, c)
            PROVE  \/ st' \in Going
                   \/ \E next \in Going : fnNewTCPState(next)
        BY <3>2 DEF LeaveData, CloseOnData, TakeFin, Remains, FinSent
      <3> QED
        BY <2>1, <3>1, <3>2 DEF HearData
    <2> QED
      BY <1>1, <1>4, <2>2
  <1>10. CASE Peer \/ UNCHANGED vars
    <2>1. st' = st
      BY <1>10 DEF Peer, PeerHearsSyn, PeerHearsData, PeerHearsFin, PeerHearsAck,
         AckIsLost, PeerSends, vars
    <2> QED
      BY <1>1, <2>1
  <1> QED
    BY <1>5, <1>6, <1>7, <1>8, <1>9, <1>10
    DEF Next, fnTCP_Listen, fnTCP_Connect, HearOldSegment

LEMMA NextNoneEarly == ASSUME IInv, NoneEarly, [Next]_vars PROVE NoneEarly'
  <1>1. CASE st # "ESTABLISHED"
    <2>1. Acked /\ ~RefusesAfterSending
      BY <1>1 DEF Acked, NotAhead, RefusesAfterSending, HearData
    <2> QED
      BY <2>1, NextAcked DEF Acked
  <1> QED
    BY <1>1, OpenLeavesNone

(* No byte is acknowledged that the listener has not taken, as long as it  *)
(* has not asked to close; but in the one step in which it refuses data    *)
(* that came with an acknowledgement which it has answered by sending.     *)
THEOREM AcksAreTaken == Spec => AckedIsTaken
  <1>1. Init => NoneEarly
    BY DEF Init, NoneEarly
  <1>2. IInv /\ NoneEarly /\ [Next]_vars => NoneEarly'
    BY NextNoneEarly
  <1>3. IInv /\ IInv' /\ NoneEarly /\ [Next]_vars
        => [~Overacked /\ Overacked' => RefusesAfterSending]_vars
    <2> SUFFICES ASSUME IInv, IInv', NoneEarly, [Next]_vars, ~Overacked, ~RefusesAfterSending
                 PROVE  ~Overacked'
      OBVIOUS
    <2>1. TypeOK /\ TypeOK'
      BY DEF IInv
    <2>2. Acked
      BY <2>1, AheadIsOveracked DEF Acked
    <2>3. NotAhead'
      BY <2>2, NextAcked DEF Acked
    <2>4. Higher(pUna', ackAir') \in Nat /\ Len(taken') \in Nat
      BY <2>1 DEF TypeOK, Higher
    <2> QED
      BY <2>3, <2>4 DEF NotAhead, Overacked
  <1> QED
    BY <1>1, <1>2, <1>3, Invariance, PTL DEF Spec, AckedIsTaken

=============================================================================
