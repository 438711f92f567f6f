----------------------------- MODULE DhcpProofs -----------------------------
(***************************************************************************)
(* Theorems about Dhcp, for any leases and constants that DhcpAssumption   *)
(* admits.                                                                 *)
(***************************************************************************)
EXTENDS Dhcp, TLAPS

(* The kernel timer of the task, in scalars.                               *)
Left == left[OWN_TASK]
Armed == armed[OWN_TASK]
Fired == pending[OWN_TASK]

(* The events that timers are started with.                                *)
TimerEvs == Events \ {E_DHCP_COLLISION, E_DHCP_BIND_NOW}

(* The queue never holds more than a result of ARP and a timer event, in   *)
(* this order.                                                             *)
Holding(r, e) ==
    IF r = 0 THEN IF e = 0 THEN <<>> ELSE <<e>>
             ELSE IF e = 0 THEN <<r>> ELSE <<r, e>>
ResultIn(q) == IF q # <<>> /\ q[1] \in ArpResults THEN q[1] ELSE 0
EventIn(q) == IF q = <<>> \/ q[Len(q)] \in ArpResults THEN 0 ELSE q[Len(q)]
Result == ResultIn(queue)
Event == EventIn(queue)

(* No event of the timer waits to be handled.                              *)
Quiet == Fired = 0 /\ Event = 0

MailOK ==
    /\ queue = Holding(Result, Event)
    /\ Result \in ArpResults \cup {0}
    /\ Event \in TimerEvs \cup {0}
    /\ Armed \in TimerEvs \cup {0}
    /\ Fired \in TimerEvs \cup {0}
    /\ ~handling => Event = 0
    /\ handling => Fired = 0
    /\ Left # 0 => Armed # 0
    /\ period[OWN_TASK] = 0
    /\ DHCPTimeout \in {0} \cup FIRST_TIMEOUT..LAST_TIMEOUT

Asking == {"REQUESTING", "REBOOTING"}

(* What a result of ARP will be taken for, and that timers are longer than *)
(* an ARP request.                                                         *)
ArpOK ==
    /\ Result # 0 => probe = "none"
    /\ ucDHCP_state \in {"INIT_REBOOT", "SELECTING", "BOUND", "REBINDING"} =>
           probe = "none" /\ Result = 0
    /\ ucDHCP_state = "RENEWING" => probe # "own"
    /\ ucDHCP_state \in Asking \cup {"INIT"} => probe # "server"
    /\ ucResendAfterArp => /\ ucDHCP_state \in {"RENEWING", "DHCP_INIT"}
                           /\ probe = "server" \/ Result # 0
    /\ ucDHCP_state = "RENEWING" /\ probe = "server" =>
           asked = "nothing" /\ Left + ulRenewalTime + probed > PROBE_TIME
    /\ ucDHCP_state = "INIT" /\ probe = "own" => Left + probed > PROBE_TIME /\ Quiet
    /\ ucDHCP_state \in Asking /\ probe = "own" =>
           \/ asked = "nothing" /\ Left = 0 /\ (Quiet \/ probed = 0)
           \/ Left + probed > PROBE_TIME /\ Quiet
    /\ ucDHCP_state \in Asking /\ Result = ARP_RESOLUTION_FAILED => Quiet
    /\ ucDHCP_state \in Asking \cup Bound \cup {"SELECTING"} => DHCPTimeout # 0

(* The events of a lease come from its own timer.                          *)
Expects(e) ==
    /\ Fired \in {0, e}
    /\ Event \in {0, e}
    /\ Left # 0 => Armed = e
    /\ Left # 0 \/ ~Quiet

TimerOK ==
    /\ ucDHCP_state # "DHCP_INIT" =>
           Left # 0 \/ Fired # 0 \/ Event # 0 \/ Result # 0 \/ probe # "none"
    /\ ucDHCP_state \in {"BOUND", "RENEWING"} => Expects(E_RENEW_NOW)
    /\ ucDHCP_state = "REBINDING" => Expects(E_REBIND_NOW)
    /\ ucDHCP_state \in {"RENEWING", "REBINDING"} => Left = 0 \/ Quiet

AddressOK ==
    /\ ucDHCP_state \in {"INIT_REBOOT", "INIT", "SELECTING"} => ~ucOurIP
    /\ ucDHCP_state \in Asking => (ucOurIP <=> (probe = "own" \/ Result # 0))
    /\ ucDHCP_state \in Bound => ucOurIP
    /\ ucDHCP_state \in Bound \cup Asking \cup {"INIT_REBOOT"} => ucDHCP_IP
    /\ up => ucOurIP /\ ucDHCP_state \in Bound \cup {"REQUESTING"}

GoodT2(t) == t \div 6 > PROBE_TIME /\ MARGIN <= t /\ t + MARGIN < TimeMod
GoodLease(t) == t \div 8 > PROBE_TIME /\ (t \div 4) * 3 >= MARGIN

(* What is left of a lease covers all times that are still to be counted,  *)
(* except for the time of the probe, which is shorter than the last of     *)
(* them.                                                                   *)
LeaseOK ==
    /\ granted \in 0..TimeMod-1
    /\ ucDHCP_state \in Bound => ucServerResponses = {}
    /\ ucDHCP_state \in Asking /\ ucOurIP =>
           /\ GoodLease(ulLeaseTime)
           /\ "T2" \in ucServerResponses => ulRebindingTime = 0 \/ GoodT2(ulRebindingTime)
           /\ granted + (IF probe = "own" THEN probed ELSE PROBE_TIME) >= ulLeaseTime
    /\ ucDHCP_state \in {"BOUND", "RENEWING"} =>
           /\ ulLeaseTime \div 2 > PROBE_TIME
           /\ granted + PROBE_TIME >= Left + ulRenewalTime + ulRebindingTime + ulLeaseTime
    /\ ucDHCP_state = "BOUND" => ulRebindingTime \div 2 > PROBE_TIME
    /\ ucDHCP_state = "REBINDING" =>
           /\ ulLeaseTime > PROBE_TIME
           /\ granted + PROBE_TIME >= Left + ulRenewalTime + ulLeaseTime

IInv == ClientTypeOK /\ MailOK /\ ArpOK /\ TimerOK /\ AddressOK /\ LeaseOK

-----------------------------------------------------------------------------
(*                            The constants                                *)

LEMMA Numbers ==
    /\ TimeMod \in Nat \ {0} /\ PROBE_TIME \in Nat \ {0} /\ MARGIN \in Nat
    /\ MARGIN > 2 * PROBE_TIME + 1
    /\ MAX_TIMER_DELAY \in Nat \ {0} /\ SPREAD \in Nat
    /\ FIRST_TIMEOUT \in Nat /\ FIRST_TIMEOUT > PROBE_TIME + 1
    /\ LAST_TIMEOUT \in Nat /\ LAST_TIMEOUT >= FIRST_TIMEOUT
    /\ RESTART_DELAY \in Nat /\ RESTART_DELAY > PROBE_TIME + 1
    /\ MIN_RETRANSMIT \in Nat /\ MIN_RETRANSMIT > PROBE_TIME
    /\ LongestTimer \in Nat /\ MAX_TIMER_DELAY <= LongestTimer
    /\ LAST_TIMEOUT + SPREAD <= LongestTimer
    /\ RESTART_DELAY + SPREAD <= LongestTimer
  BY DhcpAssumption DEF LongestTimer, Higher

LEMMA Granted ==
    ASSUME NEW g \in Leases
    PROVE  /\ g.lease \in 0..TimeMod-1 /\ g.t1 \in 0..TimeMod-1 /\ g.t2 \in 0..TimeMod-1
  BY DhcpAssumption

-----------------------------------------------------------------------------
(*                           The kernel timer                              *)

(* The type of the timer, and that it is no periodic one.                  *)
TimerType == Kernel!TimersTypeOK /\ period[OWN_TASK] = 0

LEMMA TimerScalars ==
    ASSUME TimerType
    PROVE  /\ Left \in 0..LongestTimer
           /\ Armed \in Events \cup {0}
           /\ Fired \in Events \cup {0}
  BY DEF TimerType, Kernel!TimersTypeOK, Kernel!NON_EVENT, Left, Armed, Fired

LEMMA TimerStarted ==
    ASSUME TimerType, NEW d \in 0..LongestTimer, NEW e \in Events,
           Kernel!Start(OWN_TASK, d, e)
    PROVE  /\ TimerType'
           /\ Left' = IF d = 0 THEN 1 ELSE d
           /\ Armed' = e /\ Fired' = Fired
  <1>1. /\ left \in [{OWN_TASK} -> 0..LongestTimer]
        /\ period \in [{OWN_TASK} -> 0..LongestTimer]
        /\ armed \in [{OWN_TASK} -> Events \cup {0}]
        /\ pending \in [{OWN_TASK} -> Events \cup {0}]
        /\ LongestTimer \in Nat /\ LongestTimer > 0
    BY Numbers DEF TimerType, Kernel!TimersTypeOK, Kernel!NON_EVENT
  <1>2. /\ left' = [left EXCEPT ![OWN_TASK] = IF d = 0 THEN 1 ELSE d]
        /\ armed' = [armed EXCEPT ![OWN_TASK] = e]
        /\ UNCHANGED <<period, pending>>
    BY DEF Kernel!Start
  <1>3. (IF d = 0 THEN 1 ELSE d) \in 0..LongestTimer
    BY <1>1
  <1> QED
    BY <1>1, <1>2, <1>3 DEF TimerType, Kernel!TimersTypeOK, Kernel!NON_EVENT, Left, Armed, Fired

LEMMA TimerStopped ==
    ASSUME TimerType, Kernel!Stop(OWN_TASK)
    PROVE  TimerType' /\ Left' = 0 /\ Armed' = 0 /\ Fired' = Fired
  BY Numbers DEF TimerType, Kernel!TimersTypeOK, Kernel!NON_EVENT, Kernel!Stop, Left, Armed, Fired

LEMMA TimerHandedOver ==
    ASSUME TimerType, Kernel!HandOver(OWN_TASK)
    PROVE  /\ TimerType' /\ Left' = Left /\ Armed' = Armed
           /\ Fired # 0 /\ Fired' = 0
  BY Numbers DEF TimerType, Kernel!TimersTypeOK, Kernel!NON_EVENT, Kernel!HandOver, Left, Armed, Fired

LEMMA TimerElapsed ==
    ASSUME TimerType, Kernel!Elapse
    PROVE  /\ TimerType' /\ Armed' = Armed
           /\ Left' = IF Left = 0 THEN 0 ELSE Left - 1
           /\ Fired' = IF Left = 1 THEN Armed ELSE Fired
  BY Numbers DEF TimerType, Kernel!TimersTypeOK, Kernel!NON_EVENT, Kernel!Elapse, Left, Armed, Fired

LEMMA TimerSame ==
    ASSUME TimerType, UNCHANGED kernelVars
    PROVE  TimerType' /\ Left' = Left /\ Armed' = Armed /\ Fired' = Fired
  BY DEF TimerType, Kernel!TimersTypeOK, kernelVars, Left, Armed, Fired

LEMMA TimerRandom ==
    ASSUME TimerType, NEW time \in Nat, time > PROBE_TIME + 1,
           time + SPREAD <= LongestTimer, NEW e \in Events, fnRandomise(time, e)
    PROVE  /\ TimerType' /\ Left' > PROBE_TIME /\ Armed' = e /\ Fired' = Fired
           /\ Left' \in Nat
  <1>1. PICK d \in time-1..time+SPREAD : Kernel!Start(OWN_TASK, d, e)
    BY DEF fnRandomise
  <1>2. d \in 0..LongestTimer /\ d > PROBE_TIME /\ d # 0
    BY <1>1, Numbers
  <1> QED
    BY <1>1, <1>2, TimerStarted

LEMMA TimerRun ==
    ASSUME TimerType, NEW time \in 0..TimeMod-1, time # 0, NEW e \in Events,
           RunTimer(time, e)
    PROVE  /\ TimerType' /\ Left' # 0 /\ Left' \in Nat
           /\ Left' + ulRenewalTime' = time
           /\ ulRenewalTime' \in 0..TimeMod-1
           /\ Armed' = e /\ Fired' = Fired
  <1> DEFINE d == Lower(time, MAX_TIMER_DELAY)
  <1>1. d \in 0..LongestTimer /\ d # 0 /\ d <= time
    BY Numbers DEF Lower
  <1>2. ulRenewalTime' = time - d /\ Kernel!Start(OWN_TASK, d, e)
    BY DEF RunTimer
  <1> HIDE DEF d
  <1>3. TimerType' /\ Left' = d /\ Armed' = e /\ Fired' = Fired
    BY <1>1, <1>2, TimerStarted
  <1> QED
    BY <1>1, <1>2, <1>3, Numbers

-----------------------------------------------------------------------------
(*                        The times of a lease                             *)

(* Times from which a lease can begin.                                     *)
CanBegin(s) ==
    /\ s.lease \in 0..TimeMod-1 /\ s.t1 \in 0..TimeMod-1 /\ s.t2 \in 0..TimeMod-1
    /\ GoodLease(s.lease)
    /\ "T2" \in s.from => s.t2 = 0 \/ GoodT2(s.t2)

(* What fnCheckTimerValidity makes of them: T1 before T2 before the end,   *)
(* with time for an ARP request between them.                              *)
LEMMA RebindingInTime ==
    ASSUME NEW s, CanBegin(s)
    PROVE  /\ Rebinding(s) \in Nat /\ Rebinding(s) >= MARGIN
           /\ Rebinding(s) \div 6 > PROBE_TIME
           /\ Rebinding(s) <= s.lease /\ (s.lease - Rebinding(s)) \div 2 > PROBE_TIME
  <1>1. /\ s.lease \in Nat /\ s.lease < TimeMod /\ s.t2 \in Nat
        /\ s.lease \div 8 > PROBE_TIME /\ (s.lease \div 4) * 3 >= MARGIN
    BY Numbers DEF CanBegin, GoodLease
  <1>2. CASE "T2" \notin s.from \/ s.t2 = 0 \/ s.lease <= Plus(s.t2, MARGIN)
    <2>1. Rebinding(s) = (s.lease \div 4) * 3
      BY <1>2 DEF Rebinding
    <2> QED
      BY <1>1, <2>1, Numbers
  <1>3. CASE ~("T2" \notin s.from \/ s.t2 = 0 \/ s.lease <= Plus(s.t2, MARGIN))
    <2>1. Rebinding(s) = s.t2 /\ GoodT2(s.t2)
      BY <1>3 DEF Rebinding, CanBegin
    <2>2. s.lease > s.t2 + MARGIN
      BY <1>1, <1>3, <2>1, Numbers DEF GoodT2, Plus
    <2> QED
      BY <1>1, <2>1, <2>2, Numbers DEF GoodT2
  <1> QED
    BY <1>2, <1>3

LEMMA RenewalInTime ==
    ASSUME NEW s, CanBegin(s)
    PROVE  /\ Renewal(s) \in Nat /\ Renewal(s) # 0 /\ Renewal(s) <= Rebinding(s)
           /\ (Rebinding(s) - Renewal(s)) \div 2 > PROBE_TIME
  <1>1. /\ Rebinding(s) \in Nat /\ Rebinding(s) >= MARGIN
        /\ Rebinding(s) \div 6 > PROBE_TIME /\ Rebinding(s) < TimeMod
        /\ s.t1 \in Nat
    BY RebindingInTime, Numbers DEF CanBegin
  <1>2. CASE "T1" \notin s.from \/ s.t1 = 0 \/ s.t1 >= Minus(Rebinding(s), MARGIN)
    <2>1. Renewal(s) = (Rebinding(s) \div 3) * 2
      BY <1>2 DEF Renewal
    <2> QED
      BY <1>1, <2>1, Numbers
  <1>3. CASE ~("T1" \notin s.from \/ s.t1 = 0 \/ s.t1 >= Minus(Rebinding(s), MARGIN))
    <2>1. Renewal(s) = s.t1 /\ s.t1 # 0
      BY <1>3 DEF Renewal
    <2>2. Minus(Rebinding(s), MARGIN) = Rebinding(s) - MARGIN
      BY <1>1, Numbers DEF Minus
    <2>3. s.t1 < Rebinding(s) - MARGIN
      BY <1>1, <1>3, <2>2, Numbers
    <2> QED
      BY <1>1, <2>1, <2>3, Numbers
  <1> QED
    BY <1>2, <1>3

(* A bound client counts the whole lease, and nothing more.                *)
LEMMA LeaseBegun ==
    ASSUME TimerType, NEW s, CanBegin(s), BeginLease(s)
    PROVE  /\ ucDHCP_state' = "BOUND"
           /\ TimerType' /\ Left' # 0 /\ Left' \in Nat
           /\ Armed' = E_RENEW_NOW /\ Fired' = Fired
           /\ ulLeaseTime' \in 0..TimeMod-1 /\ ulLeaseTime' \div 2 > PROBE_TIME
           /\ ulRebindingTime' \in 0..TimeMod-1 /\ ulRebindingTime' \div 2 > PROBE_TIME
           /\ ulRenewalTime' \in 0..TimeMod-1
           /\ Left' + ulRenewalTime' + ulRebindingTime' + ulLeaseTime' = s.lease
           /\ ucServerResponses' = {}
           /\ ucOurIP' = ucOurIP /\ ucDHCP_IP' = ucDHCP_IP
  <1> DEFINE t1 == Renewal(s)
             t2 == Rebinding(s)
  <1>1. /\ s.lease \in Nat /\ s.lease < TimeMod
        /\ t2 \in Nat /\ t2 <= s.lease /\ (s.lease - t2) \div 2 > PROBE_TIME
        /\ t1 \in Nat /\ t1 # 0 /\ t1 <= t2 /\ (t2 - t1) \div 2 > PROBE_TIME
    BY RebindingInTime, RenewalInTime, Numbers DEF CanBegin
  <1>2. Minus(s.lease, t2) = s.lease - t2 /\ Minus(t2, t1) = t2 - t1
    BY <1>1, Numbers DEF Minus
  <1>3. /\ ulLeaseTime' = s.lease - t2 /\ ulRebindingTime' = t2 - t1
        /\ ucServerResponses' = {} /\ StartRenewal(t1)
        /\ ucOurIP' = ucOurIP /\ ucDHCP_IP' = ucDHCP_IP
        /\ ucDHCP_state' = "BOUND"
    BY <1>2 DEF BeginLease
  <1> HIDE DEF t1, t2
  <1>4. t1 \in 0..TimeMod-1 /\ t1 # Infinite /\ E_RENEW_NOW \in Events
    BY <1>1, Numbers DEF Infinite, Events
  <1>5. RunTimer(t1, E_RENEW_NOW)
    BY <1>3, <1>4 DEF StartRenewal
  <1>6. /\ TimerType' /\ Left' # 0 /\ Left' \in Nat
        /\ Left' + ulRenewalTime' = t1 /\ ulRenewalTime' \in 0..TimeMod-1
        /\ Armed' = E_RENEW_NOW /\ Fired' = Fired
    BY <1>1, <1>4, <1>5, TimerRun
  <1>7. /\ ulLeaseTime' \in 0..TimeMod-1 /\ ulLeaseTime' \div 2 > PROBE_TIME
        /\ ulRebindingTime' \in 0..TimeMod-1 /\ ulRebindingTime' \div 2 > PROBE_TIME
        /\ t1 + ulRebindingTime' + ulLeaseTime' = s.lease
    BY <1>1, <1>3, Numbers
  <1>8. ulRebindingTime' \in Nat /\ ulLeaseTime' \in Nat /\ ulRenewalTime' \in Nat
    BY <1>6, <1>7, Numbers
  <1>9. Left' + ulRenewalTime' + ulRebindingTime' + ulLeaseTime' = s.lease
    BY <1>1, <1>6, <1>7, <1>8
  <1> QED
    BY <1>3, <1>6, <1>7, <1>9

-----------------------------------------------------------------------------
(*                             The queue                                   *)

LEMMA Codes ==
    /\ 0 \notin ArpResults /\ 0 \notin Events /\ ArpResults \cap Events = {}
    /\ TimerEvs \subseteq Events
    /\ ArpResults = {ARP_RESOLUTION_SUCCESS, ARP_RESOLUTION_FAILED}
    /\ ARP_RESOLUTION_SUCCESS # ARP_RESOLUTION_FAILED
    /\ {E_START_DHCP, E_DISCOVER_TIMEOUT, E_REQUEST_TIMEOUT, E_RENEW_NOW, E_REBIND_NOW}
           \subseteq TimerEvs
    /\ E_DHCP_COLLISION \notin TimerEvs /\ E_DHCP_BIND_NOW \notin TimerEvs
    /\ E_RENEW_NOW # E_REBIND_NOW
    /\ E_DHCP_COLLISION # E_DHCP_BIND_NOW
  BY DEF ArpResults, Events, TimerEvs, ARP_RESOLUTION_SUCCESS, ARP_RESOLUTION_FAILED,
         E_START_DHCP, E_DISCOVER_TIMEOUT, E_REQUEST_TIMEOUT, E_RENEW_NOW, E_REBIND_NOW,
         E_DHCP_COLLISION, E_DHCP_BIND_NOW

LEMMA QueueHolds ==
    ASSUME NEW r \in ArpResults \cup {0}, NEW e \in TimerEvs \cup {0}
    PROVE  /\ ResultIn(Holding(r, e)) = r /\ EventIn(Holding(r, e)) = e
           /\ Holding(r, e) \in Seq(Events \cup ArpResults)
           /\ Holding(r, e) = <<>> <=> r = 0 /\ e = 0
           /\ r # 0 => Head(Holding(r, e)) = r /\ Tail(Holding(r, e)) = Holding(0, e)
           /\ r = 0 /\ e # 0 => Head(Holding(r, e)) = e /\ Tail(Holding(r, e)) = Holding(0, 0)
           /\ r = 0 /\ e = 0 => \A x \in ArpResults : Append(Holding(r, e), x) = Holding(x, 0)
           /\ e = 0 => \A x \in TimerEvs : Append(Holding(r, e), x) = Holding(r, x)
  <1>1. CASE r = 0 /\ e = 0
    BY <1>1, Codes DEF Holding, ResultIn, EventIn
  <1>2. CASE r # 0 /\ e = 0
    BY <1>2, Codes DEF Holding, ResultIn, EventIn
  <1>3. CASE r = 0 /\ e # 0
    BY <1>3, Codes DEF Holding, ResultIn, EventIn
  <1>4. CASE r # 0 /\ e # 0
    BY <1>4, Codes DEF Holding, ResultIn, EventIn
  <1> QED
    BY <1>1, <1>2, <1>3, <1>4

LEMMA MailNext == Result' = ResultIn(queue') /\ Event' = EventIn(queue')
  BY DEF Result, Event, ResultIn, EventIn

LEMMA MailSame ==
    ASSUME UNCHANGED queue
    PROVE  Result' = Result /\ Event' = Event
  BY DEF Result, Event

(* A message is read: the result of ARP before the event.                  *)
LEMMA MailRead ==
    ASSUME MailOK, queue # <<>>, queue' = Tail(queue)
    PROVE  /\ Result' = 0 /\ Event' = IF Result = 0 THEN 0 ELSE Event
           /\ queue' = Holding(Result', Event')
           /\ queue' \in Seq(Events \cup ArpResults)
           /\ Result # 0 => Head(queue) = Result
           /\ Result = 0 => Event # 0 /\ Head(queue) = Event
  <1>1. /\ Result \in ArpResults \cup {0} /\ Event \in TimerEvs \cup {0}
        /\ queue = Holding(Result, Event)
    BY DEF MailOK
  <1>2. CASE Result # 0
    <2>1. Head(queue) = Result /\ queue' = Holding(0, Event)
      BY <1>1, <1>2, QueueHolds
    <2>2. /\ ResultIn(Holding(0, Event)) = 0 /\ EventIn(Holding(0, Event)) = Event
          /\ Holding(0, Event) \in Seq(Events \cup ArpResults)
      BY <1>1, QueueHolds
    <2>3. Result' = 0 /\ Event' = Event
      BY <2>1, <2>2, MailNext
    <2> QED
      BY <1>2, <2>1, <2>2, <2>3
  <1>3. CASE Result = 0
    <2>1. Event # 0
      BY <1>1, <1>3, QueueHolds
    <2>2. Head(queue) = Event /\ queue' = Holding(0, 0)
      BY <1>1, <1>3, <2>1, QueueHolds
    <2>3. /\ ResultIn(Holding(0, 0)) = 0 /\ EventIn(Holding(0, 0)) = 0
          /\ Holding(0, 0) \in Seq(Events \cup ArpResults)
      BY QueueHolds
    <2>4. Result' = 0 /\ Event' = 0
      BY <2>2, <2>3, MailNext
    <2> QED
      BY <1>3, <2>1, <2>2, <2>3, <2>4
  <1> QED
    BY <1>2, <1>3

LEMMA MailAnswered ==
    ASSUME MailOK, Result = 0, Event = 0, NEW r \in ArpResults, queue' = Append(queue, r)
    PROVE  /\ Result' = r /\ Event' = 0 /\ queue' = Holding(Result', Event')
           /\ queue' \in Seq(Events \cup ArpResults)
  <1>1. queue' = Holding(r, 0)
    BY QueueHolds DEF MailOK
  <1>2. /\ ResultIn(Holding(r, 0)) = r /\ EventIn(Holding(r, 0)) = 0
        /\ Holding(r, 0) \in Seq(Events \cup ArpResults)
    BY QueueHolds
  <1> QED
    BY <1>1, <1>2, MailNext

LEMMA MailFired ==
    ASSUME MailOK, Event = 0, NEW e \in TimerEvs, queue' = Append(queue, e)
    PROVE  /\ Result' = Result /\ Event' = e /\ queue' = Holding(Result', Event')
           /\ queue' \in Seq(Events \cup ArpResults)
  <1>1. Result \in ArpResults \cup {0} /\ queue = Holding(Result, 0)
    BY DEF MailOK
  <1>2. e \in TimerEvs \cup {0} /\ 0 \in TimerEvs \cup {0}
    OBVIOUS
  <1>3. Append(Holding(Result, 0), e) = Holding(Result, e)
    BY <1>1, <1>2, QueueHolds
  <1>4. /\ ResultIn(Holding(Result, e)) = Result /\ EventIn(Holding(Result, e)) = e
        /\ Holding(Result, e) \in Seq(Events \cup ArpResults)
    BY <1>1, <1>2, QueueHolds
  <1> QED
    BY <1>1, <1>3, <1>4, MailNext

(* Which kind of message the task is handling.                             *)
LEMMA MailHead ==
    ASSUME MailOK
    PROVE  /\ FromArp <=> handling /\ Result # 0
           /\ queue = <<>> <=> Result = 0 /\ Event = 0
           /\ ResultQueued <=> Result # 0
  <1>1. /\ Result \in ArpResults \cup {0} /\ Event \in TimerEvs \cup {0}
        /\ queue = Holding(Result, Event)
    BY DEF MailOK
  <1>2. queue = <<>> <=> Result = 0 /\ Event = 0
    BY <1>1, QueueHolds
  <1>3. FromArp <=> handling /\ Result # 0
    <2>1. CASE Result # 0
      BY <1>1, <1>2, <2>1, QueueHolds, Codes DEF FromArp
    <2>2. CASE Result = 0 /\ Event # 0
      <3>1. queue # <<>> /\ Head(queue) = Event
        BY <1>1, <1>2, <2>2, QueueHolds
      <3>2. Event \notin ArpResults
        BY <1>1, <2>2, Codes
      <3> QED
        BY <2>2, <3>1, <3>2 DEF FromArp
    <2>3. CASE Result = 0 /\ Event = 0
      BY <1>1, <1>2, <2>3 DEF FromArp
    <2> QED
      BY <2>1, <2>2, <2>3
  <1>4. ResultQueued <=> Result # 0
    <2>1. CASE Result # 0
      <3>1. queue # <<>> /\ queue[1] = Result
        BY <2>1 DEF Result, ResultIn
      <3>2. 1 \in DOMAIN queue
        BY <1>1, <2>1, Codes DEF Holding
      <3> QED
        BY <1>1, <2>1, <3>1, <3>2 DEF ResultQueued
    <2>2. CASE Result = 0
      BY <1>1, <2>2, Codes DEF ResultQueued, Holding
    <2> QED
      BY <2>1, <2>2
  <1> QED
    BY <1>2, <1>3, <1>4

-----------------------------------------------------------------------------
(*                     The task handles a message                          *)

LEMMA InvTypes ==
    ASSUME IInv
    PROVE  /\ TimerType
           /\ Left \in Nat /\ Armed \in Events \cup {0} /\ Fired \in Events \cup {0}
           /\ ulLeaseTime \in Nat /\ ulRebindingTime \in Nat /\ ulRenewalTime \in Nat
           /\ probed \in 0..PROBE_TIME /\ probe \in {"none", "own", "server"}
           /\ ucDHCP_state \in States /\ granted \in 0..TimeMod-1
           /\ ucResendAfterArp \in BOOLEAN /\ ucOurIP \in BOOLEAN /\ ucDHCP_IP \in BOOLEAN
           /\ handling \in BOOLEAN /\ up \in BOOLEAN
           /\ ucServerResponses \subseteq {"T1", "T2"}
           /\ asked \in {"nothing", "DISCOVER", "REQUEST"}
  <1>1. TimerType
    BY DEF IInv, ClientTypeOK, MailOK, TimerType
  <1> QED
    BY <1>1, TimerScalars, Numbers DEF IInv, ClientTypeOK, LeaseOK

Handled ==
    /\ handling /\ handling' /\ Fired = 0
    /\ Result' = 0 /\ Event' = IF Result = 0 THEN 0 ELSE Event
    /\ queue' = Holding(Result', Event')
    /\ queue' \in Seq(Events \cup ArpResults)
    /\ Result = 0 => Event # 0

LEMMA HandledMessage ==
    ASSUME IInv, HandleMessage
    PROVE  /\ Handled
           /\ Result # 0 => Head(queue) = Result
           /\ Result = 0 => Head(queue) = Event
  <1>1. /\ handling /\ handling' /\ queue # <<>> /\ queue' = Tail(queue)
        /\ MailOK /\ Fired = 0
    BY DEF HandleMessage, IInv, MailOK
  <1> QED
    BY <1>1, MailRead DEF Handled

(* Sending to all servers, and what is left of a resend.                   *)
LEMMA Broadcast ==
    ASSUME IInv, handling, NEW message, NEW state, state \notin {"BOUND", "RENEWING"},
           fnSendDHCP(message, state)
    PROVE  /\ asked' = message
           /\ ucResendAfterArp' = (ucResendAfterArp /\ Result = 0)
           /\ probe' = probe /\ probed' = probed
  BY MailHead DEF IInv, fnSendDHCP, NoArp

(* A message is sent that will be repeated.                                *)
LEMMA Repeated ==
    ASSUME IInv, Handled, NEW message, NEW state, state \notin {"BOUND", "RENEWING"},
           NEW timeout \in FIRST_TIMEOUT..LAST_TIMEOUT, NEW event \in Events,
           Repeat(message, state, timeout, event)
    PROVE  /\ ucDHCP_state' = state /\ asked' = message
           /\ ucResendAfterArp' = (ucResendAfterArp /\ Result = 0)
           /\ probe' = probe /\ probed' = probed
           /\ TimerType' /\ Left' > PROBE_TIME /\ Left' \in Nat
           /\ Armed' = event /\ Fired' = 0
           /\ DHCPTimeout' \in FIRST_TIMEOUT..LAST_TIMEOUT
           /\ UNCHANGED <<ulLeaseTime, ulRebindingTime, ulRenewalTime, ucServerResponses,
                          ucOurIP, ucDHCP_IP, granted, up>>
  <1>1. /\ ucDHCP_state' = state /\ fnSendDHCP(message, state)
        /\ fnRandomise(timeout, event)
        /\ DHCPTimeout' = IF 2 * timeout > LAST_TIMEOUT THEN FIRST_TIMEOUT ELSE 2 * timeout
        /\ UNCHANGED <<ulLeaseTime, ulRebindingTime, ulRenewalTime, ucServerResponses,
                       ucOurIP, ucDHCP_IP, granted, up>>
    BY DEF Repeat, times
  <1>2. /\ timeout \in Nat /\ timeout > PROBE_TIME + 1 /\ timeout + SPREAD <= LongestTimer
        /\ DHCPTimeout' \in FIRST_TIMEOUT..LAST_TIMEOUT
    BY <1>1, Numbers
  <1>3. TimerType /\ handling /\ Fired = 0
    BY InvTypes DEF Handled
  <1>4. TimerType' /\ Left' > PROBE_TIME /\ Left' \in Nat /\ Armed' = event /\ Fired' = 0
    BY <1>1, <1>2, <1>3, TimerRandom
  <1>5. /\ asked' = message /\ ucResendAfterArp' = (ucResendAfterArp /\ Result = 0)
        /\ probe' = probe /\ probed' = probed
    BY <1>1, <1>3, Broadcast
  <1> QED
    BY <1>1, <1>2, <1>4, <1>5

(* INIT and SELECTING.                                                     *)
LEMMA SelectingStep ==
    ASSUME IInv, Handled, ucDHCP_state \in {"INIT", "SELECTING"},
           NEW timeout \in FIRST_TIMEOUT..LAST_TIMEOUT, Selecting(timeout)
    PROVE  IInv'
  <1>1. /\ ucDHCP_state' = "SELECTING" /\ asked' = "DISCOVER"
        /\ ucResendAfterArp' = (ucResendAfterArp /\ Result = 0)
        /\ probe' = probe /\ probed' = probed
        /\ TimerType' /\ Left' > PROBE_TIME /\ Left' \in Nat
        /\ Armed' = E_DISCOVER_TIMEOUT /\ Fired' = 0
        /\ DHCPTimeout' \in FIRST_TIMEOUT..LAST_TIMEOUT
        /\ UNCHANGED <<ulLeaseTime, ulRebindingTime, ulRenewalTime, ucServerResponses,
                       ucOurIP, ucDHCP_IP, granted, up>>
    BY Repeated, Codes DEF Selecting
  <1>2. probe = "none" /\ ~ucResendAfterArp'
    BY <1>1, InvTypes DEF IInv, ArpOK, Quiet, Handled, Asking, Bound
  <1>3. ClientTypeOK'
    BY <1>1, Numbers DEF IInv, ClientTypeOK, TimerType, Handled, States
  <1>4. MailOK'
    BY <1>1, Codes, Numbers DEF IInv, MailOK, Handled, TimerType
  <1>5. ArpOK'
    BY <1>1, <1>2, Numbers DEF ArpOK, Handled, Asking, Bound
  <1>6. TimerOK'
    BY <1>1, Numbers DEF TimerOK
  <1>7. AddressOK'
    BY <1>1 DEF IInv, AddressOK, Bound, Asking
  <1>8. LeaseOK'
    BY <1>1 DEF IInv, LeaseOK, Bound, Asking
  <1> QED
    BY <1>3, <1>4, <1>5, <1>6, <1>7, <1>8 DEF IInv

(* A request is repeated.                                                  *)
LEMMA AskAgain ==
    ASSUME IInv, Handled, ucDHCP_state \in Asking \cup {"INIT_REBOOT"}, Result = 0,
           NEW state \in Asking, ucDHCP_state \in Asking => state = ucDHCP_state,
           NEW timeout \in FIRST_TIMEOUT..LAST_TIMEOUT,
           Repeat("REQUEST", state, timeout, E_REQUEST_TIMEOUT)
    PROVE  IInv'
  <1>1. /\ ucDHCP_state' = state /\ asked' = "REQUEST"
        /\ ucResendAfterArp' = (ucResendAfterArp /\ Result = 0)
        /\ probe' = probe /\ probed' = probed
        /\ TimerType' /\ Left' > PROBE_TIME /\ Left' \in Nat
        /\ Armed' = E_REQUEST_TIMEOUT /\ Fired' = 0
        /\ DHCPTimeout' \in FIRST_TIMEOUT..LAST_TIMEOUT
        /\ UNCHANGED <<ulLeaseTime, ulRebindingTime, ulRenewalTime, ucServerResponses,
                       ucOurIP, ucDHCP_IP, granted, up>>
    BY Repeated, Codes DEF Asking
  <1>2. ~ucResendAfterArp' /\ Event' = 0 /\ Result' = 0
    BY <1>1 DEF IInv, ArpOK, Asking, Handled
  <1>3. ClientTypeOK'
    BY <1>1, Numbers DEF IInv, ClientTypeOK, TimerType, Handled, States, Asking
  <1>4. MailOK'
    BY <1>1, Codes, Numbers DEF IInv, MailOK, Handled, TimerType
  <1>5. ArpOK'
    BY <1>1, <1>2, Numbers, InvTypes DEF IInv, ArpOK, Handled, Asking, Bound, Quiet
  <1>6. TimerOK'
    BY <1>1, Numbers DEF TimerOK, Asking
  <1>7. AddressOK'
    BY <1>1, <1>2, InvTypes DEF IInv, ArpOK, AddressOK, Bound, Asking
  <1>8. LeaseOK'
    BY <1>1 DEF IInv, LeaseOK, AddressOK, Bound, Asking
  <1> QED
    BY <1>3, <1>4, <1>5, <1>6, <1>7, <1>8 DEF IInv

(* Somebody else has the address.                                          *)
LEMMA Collision ==
    ASSUME IInv, Handled, ucDHCP_state \in Asking, Result # 0, Restart, NoArp,
           asked' = "nothing", up' = FALSE, DHCPTimeout' = DHCPTimeout
    PROVE  IInv'
  <1>1. /\ ucDHCP_state' = "INIT" /\ ucOurIP' = FALSE /\ granted' = 0
        /\ fnRandomise(RESTART_DELAY, E_START_DHCP)
        /\ UNCHANGED <<ulLeaseTime, ulRebindingTime, ulRenewalTime, ucServerResponses,
                       ucDHCP_IP>>
    BY DEF Restart, times
  <1>2. /\ TimerType' /\ Left' > PROBE_TIME /\ Left' \in Nat
        /\ Armed' = E_START_DHCP /\ Fired' = 0
    BY <1>1, TimerRandom, InvTypes, Numbers, Codes DEF Handled
  <1>3. ~ucResendAfterArp' /\ ucResendAfterArp' \in BOOLEAN
        /\ probe' = "none" /\ probed' = probed
    BY MailHead DEF IInv, ArpOK, Asking, Handled, NoArp
  <1>4. ClientTypeOK'
    BY <1>1, <1>2, <1>3, Numbers DEF IInv, ClientTypeOK, TimerType, Handled, States
  <1>5. MailOK'
    BY <1>2, Codes, Numbers DEF IInv, MailOK, Handled, TimerType
  <1>6. ArpOK'
    BY <1>1, <1>3 DEF ArpOK, Handled, Asking, Bound
  <1>7. TimerOK'
    BY <1>1, <1>2, Numbers DEF TimerOK
  <1>8. AddressOK'
    BY <1>1 DEF AddressOK, Bound, Asking
  <1>9. LeaseOK'
    BY <1>1, Numbers DEF IInv, LeaseOK, Bound, Asking
  <1> QED
    BY <1>4, <1>5, <1>6, <1>7, <1>8, <1>9 DEF IInv

(* Nobody else has the address: the lease begins.                          *)
LEMMA Bind ==
    ASSUME IInv, Handled, ucDHCP_state \in Asking, Result = ARP_RESOLUTION_FAILED,
           BeginLease(Stored), NoArp,
           up' = TRUE, DHCPTimeout' = DHCPTimeout, UNCHANGED <<asked, granted>>
    PROVE  IInv' /\ ucOurIP /\ granted > 0 /\ probe # "own"
  <1>1. /\ Event = 0 /\ probe = "none" /\ ucOurIP = TRUE /\ ucDHCP_IP = TRUE
        /\ GoodLease(ulLeaseTime) /\ granted + PROBE_TIME >= ulLeaseTime
        /\ DHCPTimeout # 0
    BY Codes, InvTypes DEF IInv, ArpOK, AddressOK, LeaseOK, Quiet, Asking
  <1>2. CanBegin(Stored)
    BY <1>1 DEF IInv, ClientTypeOK, LeaseOK, CanBegin, Stored
  <1>3. /\ ucDHCP_state' = "BOUND"
        /\ TimerType' /\ Left' # 0 /\ Left' \in Nat
        /\ Armed' = E_RENEW_NOW /\ Fired' = Fired
        /\ ulLeaseTime' \in 0..TimeMod-1 /\ ulLeaseTime' \div 2 > PROBE_TIME
        /\ ulRebindingTime' \in 0..TimeMod-1 /\ ulRebindingTime' \div 2 > PROBE_TIME
        /\ ulRenewalTime' \in 0..TimeMod-1
        /\ Left' + ulRenewalTime' + ulRebindingTime' + ulLeaseTime' = ulLeaseTime
        /\ ucServerResponses' = {}
        /\ ucOurIP' = TRUE /\ ucDHCP_IP' = TRUE
    <2> DEFINE s == Stored
    <2>1. s.lease = ulLeaseTime /\ CanBegin(s) /\ BeginLease(s) /\ TimerType
      BY <1>2, InvTypes DEF Stored
    <2> HIDE DEF s
    <2> QED
      BY <1>1, <2>1, LeaseBegun
  <1>4. ~ucResendAfterArp' /\ ucResendAfterArp' \in BOOLEAN
        /\ probe' = "none" /\ probed' = probed
    BY <1>1, MailHead, Codes DEF IInv, Handled, NoArp
  <1>5. Event' = 0 /\ Result' = 0 /\ Fired' = 0
    BY <1>1, <1>3 DEF Handled
  <1>6. ClientTypeOK'
    BY <1>3, <1>4 DEF IInv, ClientTypeOK, TimerType, Handled, States, Bound
  <1>7. MailOK'
    BY <1>3, <1>5, Codes DEF IInv, MailOK, Handled, TimerType
  <1>8. ArpOK'
    BY <1>1, <1>3, <1>4, <1>5 DEF ArpOK, Asking
  <1>9. TimerOK'
    BY <1>3, <1>5 DEF TimerOK, Expects
  <1>10. AddressOK'
    BY <1>3 DEF AddressOK, Bound, Asking
  <1>11. LeaseOK'
    BY <1>1, <1>3, InvTypes DEF LeaseOK, Asking
  <1>12. granted > 0
    BY <1>1, Numbers, InvTypes DEF GoodLease
  <1> QED
    BY <1>1, <1>6, <1>7, <1>8, <1>9, <1>10, <1>11, <1>12 DEF IInv

-----------------------------------------------------------------------------
(*                    The task handles a held lease                        *)

LEMMA RenewalStarted ==
    ASSUME TimerType, NEW time \in 0..TimeMod-1, time # 0, time < Infinite,
           StartRenewal(time)
    PROVE  /\ TimerType' /\ Left' # 0 /\ Left' \in Nat
           /\ Left' + ulRenewalTime' = time
           /\ ulRenewalTime' \in 0..TimeMod-1
           /\ Armed' = E_RENEW_NOW /\ Fired' = Fired
  <1>1. RunTimer(time, E_RENEW_NOW) /\ E_RENEW_NOW \in Events
    BY Numbers, Codes DEF StartRenewal, Infinite
  <1> QED
    BY <1>1, TimerRun

(* A message is sent to the server or kept back.                           *)
LEMMA SentToServer ==
    ASSUME IInv, Result = 0, probe = "none", ~ucResendAfterArp,
           NEW state, fnSendDHCP("REQUEST", state)
    PROVE  /\ probe' = "none" \/ (probe' = "server" /\ asked' = "nothing")
           /\ ucResendAfterArp' \in BOOLEAN /\ (ucResendAfterArp' => probe' = "server")
           /\ probed' \in 0..PROBE_TIME
           /\ asked' \in {"nothing", "DISCOVER", "REQUEST"}
  <1>1. CASE asked' = "REQUEST" /\ NoArp
    BY <1>1, InvTypes DEF NoArp
  <1>2. CASE asked' = "nothing" /\ ucResendAfterArp' = TRUE /\ probe' = "server" /\ probed' = 0
    BY <1>2, Numbers
  <1> QED
    BY <1>1, <1>2 DEF fnSendDHCP

(* Timers only get longer by the time the request has already taken.       *)
LEMMA StillLonger ==
    ASSUME NEW a \in Nat, NEW b \in Nat, NEW c \in Nat, NEW p \in Nat, a + b > p
    PROVE  a + b + c > p
  OBVIOUS

LEMMA HeldLeaseEvent ==
    ASSUME IInv, Handled, Result = 0
    PROVE  /\ ucDHCP_state \in {"BOUND", "RENEWING"} => Event = E_RENEW_NOW
           /\ ucDHCP_state = "REBINDING" => Event = E_REBIND_NOW
           /\ ucDHCP_state \in {"RENEWING", "REBINDING"} => Left = 0
           /\ Event' = 0 /\ Result' = 0
  BY DEF IInv, TimerOK, Handled, Expects, Quiet

LEMMA BoundStep ==
    ASSUME IInv, Handled, ucDHCP_state = "BOUND", InBound(E_RENEW_NOW)
    PROVE  IInv' /\ up' = up
  <1>1. /\ probe = "none" /\ Result = 0 /\ ~ucResendAfterArp /\ DHCPTimeout # 0
        /\ ucOurIP = TRUE /\ ucDHCP_IP = TRUE /\ ucServerResponses = {}
        /\ ulLeaseTime \div 2 > PROBE_TIME /\ ulRebindingTime \div 2 > PROBE_TIME
        /\ granted + PROBE_TIME >= Left + ulRenewalTime + ulRebindingTime + ulLeaseTime
    BY InvTypes DEF IInv, ArpOK, AddressOK, LeaseOK, Bound
  <1>2. Event' = 0 /\ Result' = 0 /\ handling' = TRUE /\ Fired = 0
    BY <1>1, HeldLeaseEvent DEF Handled
  <1>3. UNCHANGED <<DHCPTimeout, ulLeaseTime, ucServerResponses, ucOurIP, ucDHCP_IP,
                    granted, up>>
    BY DEF InBound
  <1>4. CASE ulRenewalTime # 0
    <2>1. /\ RunTimer(ulRenewalTime, E_RENEW_NOW) /\ NoArp
          /\ UNCHANGED <<ucDHCP_state, asked, ulRebindingTime>>
      BY <1>4 DEF InBound
    <2>2. ulRenewalTime \in 0..TimeMod-1 /\ TimerType /\ E_RENEW_NOW \in Events
      BY InvTypes, Codes DEF IInv, ClientTypeOK
    <2>3. /\ TimerType' /\ Left' # 0 /\ Left' \in Nat
          /\ Left' + ulRenewalTime' = ulRenewalTime
          /\ ulRenewalTime' \in 0..TimeMod-1
          /\ Armed' = E_RENEW_NOW /\ Fired' = 0
      BY <1>2, <1>4, <2>1, <2>2, TimerRun
    <2>4. ~ucResendAfterArp' /\ ucResendAfterArp' \in BOOLEAN
          /\ probe' = "none" /\ probed' = probed
      BY <1>1, <2>1 DEF NoArp
    <2>5. ClientTypeOK'
      BY <1>2, <1>3, <2>1, <2>3, <2>4 DEF IInv, ClientTypeOK, TimerType, Handled
    <2>6. MailOK'
      BY <1>2, <1>3, <2>3, Codes DEF IInv, MailOK, Handled, TimerType
    <2>7. ArpOK'
      BY <1>1, <1>2, <1>3, <2>1, <2>4 DEF ArpOK, Asking
    <2>8. TimerOK'
      BY <1>2, <2>1, <2>3 DEF TimerOK, Expects
    <2>9. AddressOK'
      BY <1>1, <1>3, <2>1 DEF IInv, AddressOK, Bound, Asking
    <2>10. LeaseOK'
      BY <1>1, <1>3, <2>1, <2>3, InvTypes, Numbers DEF LeaseOK, Asking
    <2> QED
      BY <1>3, <2>5, <2>6, <2>7, <2>8, <2>9, <2>10 DEF IInv
  <1>5. CASE ulRenewalTime = 0
    <2>1. /\ ucDHCP_state' = "RENEWING" /\ fnSendDHCP("REQUEST", "RENEWING")
          /\ ulRebindingTime' = ulRebindingTime \div 2
          /\ StartRenewal(ulRebindingTime \div 2)
      BY <1>5 DEF InBound
    <2>2. /\ ulRebindingTime \div 2 \in 0..TimeMod-1 /\ ulRebindingTime \div 2 # 0
          /\ ulRebindingTime \div 2 < Infinite /\ TimerType
      BY <1>1, InvTypes, Numbers DEF IInv, ClientTypeOK, Infinite
    <2>3. /\ TimerType' /\ Left' # 0 /\ Left' \in Nat
          /\ Left' + ulRenewalTime' = ulRebindingTime'
          /\ ulRenewalTime' \in 0..TimeMod-1
          /\ Armed' = E_RENEW_NOW /\ Fired' = 0
      BY <1>2, <2>1, <2>2, RenewalStarted
    <2>4. /\ probe' = "none" \/ (probe' = "server" /\ asked' = "nothing")
          /\ ucResendAfterArp' \in BOOLEAN /\ (ucResendAfterArp' => probe' = "server")
          /\ probed' \in 0..PROBE_TIME
          /\ asked' \in {"nothing", "DISCOVER", "REQUEST"}
      BY <1>1, <2>1, SentToServer
    <2>5. ClientTypeOK'
      BY <1>2, <1>3, <2>1, <2>2, <2>3, <2>4 DEF IInv, ClientTypeOK, TimerType, Handled, States, Bound
    <2>6. MailOK'
      BY <1>2, <1>3, <2>3, Codes DEF IInv, MailOK, Handled, TimerType
    <2>7. Left' + ulRenewalTime' + probed' > PROBE_TIME
      <3>1. PROBE_TIME \in Nat /\ probed' \in Nat /\ ulRenewalTime' \in Nat /\ Left' \in Nat
        BY <2>3, <2>4, Numbers
      <3>2. Left' + ulRenewalTime' > PROBE_TIME
        BY <1>1, <2>1, <2>3
      <3> QED
        BY <3>1, <3>2, StillLonger, Zenon
    <2>8. ArpOK'
      BY <1>1, <1>2, <1>3, <2>1, <2>4, <2>7 DEF ArpOK, Asking
    <2>9. TimerOK'
      BY <1>2, <2>1, <2>3 DEF TimerOK, Expects, Quiet
    <2>10. AddressOK'
      BY <1>1, <1>3, <2>1 DEF IInv, AddressOK, Bound, Asking
    <2>11. LeaseOK'
      BY <1>1, <1>3, <2>1, <2>3, InvTypes, Numbers DEF LeaseOK, Asking
    <2> QED
      BY <1>3, <2>5, <2>6, <2>8, <2>9, <2>10, <2>11 DEF IInv
  <1> QED
    BY <1>4, <1>5

(* A delay of a longer time has passed while renewing or rebinding.        *)
LEMMA GoOnStep ==
    ASSUME IInv, Handled, Result = 0, ucDHCP_state \in {"RENEWING", "REBINDING"},
           ulRenewalTime # 0, GoOn(Event)
    PROVE  IInv' /\ up' = up
  <1>1. /\ RunTimer(ulRenewalTime, Event) /\ NoArp
        /\ UNCHANGED <<ucDHCP_state, DHCPTimeout, ulLeaseTime, ulRebindingTime,
                       ucServerResponses, ucOurIP, ucDHCP_IP, asked, granted, up>>
    BY DEF GoOn
  <1>2. Left = 0 /\ Event' = 0 /\ Result' = 0 /\ handling' = TRUE /\ Fired = 0
    BY HeldLeaseEvent DEF Handled
  <1>3. /\ ulRenewalTime \in 0..TimeMod-1 /\ TimerType
        /\ Event \in TimerEvs /\ Event \in Events
    BY InvTypes, Codes DEF IInv, ClientTypeOK, Handled, MailOK
  <1>4. /\ TimerType' /\ Left' # 0 /\ Left' \in Nat
        /\ Left' + ulRenewalTime' = ulRenewalTime
        /\ ulRenewalTime' \in 0..TimeMod-1
        /\ Armed' = Event /\ Fired' = 0
    BY <1>1, <1>2, <1>3, TimerRun
  <1>5. /\ ucResendAfterArp' = ucResendAfterArp
        /\ probe' = probe /\ probed' = probed
    BY <1>1, MailHead, InvTypes DEF IInv, NoArp
  <1>6. ClientTypeOK'
    BY <1>1, <1>2, <1>4, <1>5 DEF IInv, ClientTypeOK, TimerType, Handled
  <1>7. MailOK'
    BY <1>1, <1>2, <1>3, <1>4 DEF IInv, MailOK, Handled, TimerType
  <1>8. ArpOK'
    BY <1>1, <1>2, <1>4, <1>5, InvTypes, Numbers DEF IInv, ArpOK, Asking, Bound
  <1>9. TimerOK'
    BY <1>1, <1>2, <1>4, HeldLeaseEvent DEF TimerOK, Expects, Quiet
  <1>10. AddressOK'
    BY <1>1 DEF IInv, AddressOK, Bound, Asking
  <1>11. LeaseOK'
    BY <1>1, <1>2, <1>4, InvTypes, Numbers DEF IInv, LeaseOK, Bound, Asking
  <1> QED
    BY <1>1, <1>6, <1>7, <1>8, <1>9, <1>10, <1>11 DEF IInv

LEMMA RenewAgainStep ==
    ASSUME IInv, Handled, Result = 0, ucDHCP_state = "RENEWING", ulRenewalTime = 0,
           RenewAgain
    PROVE  IInv' /\ up' = up
  <1> DEFINE half == ulRebindingTime \div 2
  <1>1. /\ ulRebindingTime' = half
        /\ fnSendDHCP("REQUEST", ucDHCP_state')
        /\ UNCHANGED <<DHCPTimeout, ucServerResponses, ucOurIP, ucDHCP_IP, granted, up>>
    BY DEF RenewAgain
  <1>2. Left = 0 /\ Event' = 0 /\ Result' = 0 /\ handling' = TRUE /\ Fired = 0
    BY HeldLeaseEvent DEF Handled
  <1>3. /\ probe = "none" /\ ~ucResendAfterArp /\ DHCPTimeout # 0
        /\ ucOurIP = TRUE /\ ucDHCP_IP = TRUE /\ ucServerResponses = {}
        /\ ulLeaseTime \div 2 > PROBE_TIME
        /\ granted + PROBE_TIME >= ulRebindingTime + ulLeaseTime
    BY <1>2, InvTypes, Numbers DEF IInv, ArpOK, AddressOK, LeaseOK, Bound
  <1>4. /\ probe' = "none" \/ (probe' = "server" /\ asked' = "nothing")
        /\ ucResendAfterArp' \in BOOLEAN /\ (ucResendAfterArp' => probe' = "server")
        /\ probed' \in 0..PROBE_TIME
        /\ asked' \in {"nothing", "DISCOVER", "REQUEST"}
    BY <1>1, <1>3, SentToServer
  <1>5. CASE half < MIN_RETRANSMIT
    <2>1. /\ ucDHCP_state' = "REBINDING" /\ ulLeaseTime' = ulLeaseTime \div 2
          /\ RunTimer(ulLeaseTime \div 2, E_REBIND_NOW)
      BY <1>5 DEF RenewAgain
    <2>2. /\ ulLeaseTime \div 2 \in 0..TimeMod-1 /\ ulLeaseTime \div 2 # 0
          /\ half \in 0..TimeMod-1
          /\ TimerType /\ E_REBIND_NOW \in Events
      BY <1>3, InvTypes, Numbers, Codes DEF IInv, ClientTypeOK
    <2>3. /\ TimerType' /\ Left' # 0 /\ Left' \in Nat
          /\ Left' + ulRenewalTime' = ulLeaseTime'
          /\ ulRenewalTime' \in 0..TimeMod-1
          /\ Armed' = E_REBIND_NOW /\ Fired' = 0
      BY <1>2, <2>1, <2>2, TimerRun
    <2>4. /\ asked' = "REQUEST" /\ ~ucResendAfterArp'
          /\ probe' = "none" /\ probed' = probed
      BY <1>1, <1>3, <2>1, Broadcast DEF Handled
    <2>5. ClientTypeOK'
      BY <1>1, <1>2, <1>4, <2>1, <2>2, <2>3, <2>4
         DEF IInv, ClientTypeOK, TimerType, Handled, States, Bound
    <2>6. MailOK'
      BY <1>1, <1>2, <2>3, Codes DEF IInv, MailOK, Handled, TimerType
    <2>7. ArpOK'
      BY <1>1, <1>2, <1>3, <2>1, <2>4 DEF ArpOK, Asking
    <2>8. TimerOK'
      BY <1>2, <2>1, <2>3 DEF TimerOK, Expects, Quiet
    <2>9. AddressOK'
      BY <1>1, <1>3, <2>1 DEF IInv, AddressOK, Bound, Asking
    <2>10. LeaseOK'
      BY <1>1, <1>3, <2>1, <2>3, InvTypes, Numbers DEF LeaseOK, Asking
    <2> QED
      BY <1>1, <2>5, <2>6, <2>7, <2>8, <2>9, <2>10 DEF IInv
  <1>6. CASE ~(half < MIN_RETRANSMIT)
    <2>1. StartRenewal(half) /\ ucDHCP_state' = "RENEWING" /\ ulLeaseTime' = ulLeaseTime
      BY <1>6 DEF RenewAgain
    <2>2. /\ half \in 0..TimeMod-1 /\ half > PROBE_TIME /\ half < Infinite /\ TimerType
          /\ half # 0 /\ 2 * half <= ulRebindingTime
      BY <1>6, InvTypes, Numbers DEF IInv, ClientTypeOK, Infinite
    <2>3. /\ TimerType' /\ Left' # 0 /\ Left' \in Nat
          /\ Left' + ulRenewalTime' = half
          /\ ulRenewalTime' \in 0..TimeMod-1
          /\ Armed' = E_RENEW_NOW /\ Fired' = 0
      BY <1>2, <2>1, <2>2, RenewalStarted
    <2>5. ClientTypeOK'
      BY <1>1, <1>2, <1>4, <2>1, <2>2, <2>3
         DEF IInv, ClientTypeOK, TimerType, Handled, States, Bound
    <2>6. MailOK'
      BY <1>1, <1>2, <2>3, Codes DEF IInv, MailOK, Handled, TimerType
    <2>7. Left' + ulRenewalTime' + probed' > PROBE_TIME
      <3>1. PROBE_TIME \in Nat /\ probed' \in Nat /\ ulRenewalTime' \in Nat /\ Left' \in Nat
        BY <1>4, <2>3, Numbers
      <3>2. Left' + ulRenewalTime' > PROBE_TIME
        BY <2>2, <2>3
      <3> QED
        BY <3>1, <3>2, StillLonger, Zenon
    <2>8. ArpOK'
      BY <1>1, <1>2, <1>3, <1>4, <2>1, <2>7 DEF ArpOK, Asking
    <2>9. TimerOK'
      BY <1>2, <2>1, <2>3 DEF TimerOK, Expects, Quiet
    <2>10. AddressOK'
      BY <1>1, <1>3, <2>1 DEF IInv, AddressOK, Bound, Asking
    <2>11. LeaseOK'
      BY <1>1, <1>3, <2>1, <2>2, <2>3, InvTypes, Numbers DEF LeaseOK, Asking
    <2> QED
      BY <1>1, <2>5, <2>6, <2>8, <2>9, <2>10, <2>11 DEF IInv
  <1> QED
    BY <1>5, <1>6

LEMMA RebindAgainStep ==
    ASSUME IInv, Handled, Result = 0, ucDHCP_state = "REBINDING", ulRenewalTime = 0,
           RebindAgain
    PROVE  IInv'
  <1> DEFINE half == ulLeaseTime \div 2
  <1>1. Left = 0 /\ Event' = 0 /\ Result' = 0 /\ handling' = TRUE /\ Fired = 0
    BY HeldLeaseEvent DEF Handled
  <1>2. /\ probe = "none" /\ ~ucResendAfterArp /\ DHCPTimeout # 0
        /\ ucOurIP = TRUE /\ ucDHCP_IP = TRUE /\ ucServerResponses = {}
        /\ granted + PROBE_TIME >= ulLeaseTime
        /\ half \in 0..TimeMod-1 /\ TimerType
    BY <1>1, InvTypes, Numbers DEF IInv, ClientTypeOK, ArpOK, AddressOK, LeaseOK, Bound
  <1>3. CASE half < MIN_RETRANSMIT
    <2>1. /\ ucDHCP_state' = "INIT" /\ ulLeaseTime' = half /\ ulRenewalTime' = half
          /\ ucOurIP' = FALSE /\ granted' = 0 /\ up' = FALSE
          /\ fnRandomise(RESTART_DELAY, E_START_DHCP) /\ NoArp
          /\ UNCHANGED <<DHCPTimeout, ulRebindingTime, ucServerResponses, ucDHCP_IP, asked>>
      BY <1>3 DEF RebindAgain
    <2>2. /\ TimerType' /\ Left' > PROBE_TIME /\ Left' \in Nat
          /\ Armed' = E_START_DHCP /\ Fired' = 0
      BY <1>1, <1>2, <2>1, TimerRandom, Numbers, Codes
    <2>3. ~ucResendAfterArp' /\ ucResendAfterArp' \in BOOLEAN
          /\ probe' = "none" /\ probed' = probed
      BY <1>2, <2>1 DEF NoArp
    <2>4. ClientTypeOK'
      BY <1>1, <1>2, <2>1, <2>2, <2>3, Numbers DEF IInv, ClientTypeOK, TimerType, Handled, States
    <2>5. MailOK'
      BY <1>1, <2>1, <2>2, Codes, Numbers DEF IInv, MailOK, Handled, TimerType
    <2>6. ArpOK'
      BY <1>1, <2>1, <2>3 DEF ArpOK, Asking, Bound
    <2>7. TimerOK'
      BY <2>1, <2>2, Numbers DEF TimerOK
    <2>8. AddressOK'
      BY <2>1 DEF AddressOK, Bound, Asking
    <2>9. LeaseOK'
      BY <1>2, <2>1, Numbers DEF LeaseOK, Bound, Asking
    <2> QED
      BY <2>4, <2>5, <2>6, <2>7, <2>8, <2>9 DEF IInv
  <1>4. CASE ~(half < MIN_RETRANSMIT)
    <2>1. /\ ulLeaseTime' = half /\ RunTimer(half, E_REBIND_NOW)
          /\ fnSendDHCP("REQUEST", "REBINDING")
          /\ UNCHANGED <<ucDHCP_state, DHCPTimeout, ulRebindingTime,
                         ucServerResponses, ucOurIP, ucDHCP_IP, granted, up>>
      BY <1>4 DEF RebindAgain
    <2>2. half # 0 /\ half > PROBE_TIME /\ 2 * half <= ulLeaseTime /\ E_REBIND_NOW \in Events
      BY <1>4, InvTypes, Numbers, Codes
    <2>3. /\ TimerType' /\ Left' # 0 /\ Left' \in Nat
          /\ Left' + ulRenewalTime' = half
          /\ ulRenewalTime' \in 0..TimeMod-1
          /\ Armed' = E_REBIND_NOW /\ Fired' = 0
      BY <1>1, <1>2, <2>1, <2>2, TimerRun
    <2>4. /\ asked' = "REQUEST" /\ ~ucResendAfterArp' /\ ucResendAfterArp' \in BOOLEAN
          /\ probe' = "none" /\ probed' = probed
      BY <1>2, <2>1, Broadcast DEF Handled
    <2>5. ClientTypeOK'
      BY <1>1, <1>2, <2>1, <2>3, <2>4 DEF IInv, ClientTypeOK, TimerType, Handled
    <2>6. MailOK'
      BY <1>1, <2>1, <2>3, Codes DEF IInv, MailOK, Handled, TimerType
    <2>7. ArpOK'
      BY <1>1, <1>2, <2>1, <2>4 DEF ArpOK, Asking
    <2>8. TimerOK'
      BY <1>1, <2>1, <2>3 DEF TimerOK, Expects, Quiet
    <2>9. AddressOK'
      BY <2>1 DEF IInv, AddressOK, Bound, Asking
    <2>10. LeaseOK'
      BY <1>2, <2>1, <2>2, <2>3, InvTypes, Numbers DEF LeaseOK, Asking
    <2> QED
      BY <2>5, <2>6, <2>7, <2>8, <2>9, <2>10 DEF IInv
  <1> QED
    BY <1>3, <1>4

(* Messages without effect, and the address of the server that was waited  *)
(* for.                                                                    *)
LEMMA MessageWithoutEffect ==
    ASSUME IInv, Handled, ucDHCP_state \in {"DHCP_INIT", "RENEWING"},
           ucDHCP_state = "RENEWING" => Result # 0, NoArp,
           asked' = asked \/ (asked' = "REQUEST" /\ Result # 0),
           UNCHANGED <<ucDHCP_state, DHCPTimeout, times, ucOurIP, ucDHCP_IP, kernelVars,
                       granted, up>>
    PROVE  IInv'
  <1>1. /\ UNCHANGED <<ucDHCP_state, DHCPTimeout, ulLeaseTime, ulRebindingTime,
                       ulRenewalTime, ucServerResponses, ucOurIP, ucDHCP_IP, granted, up>>
        /\ TimerType' /\ Left' = Left /\ Armed' = Armed /\ Fired' = Fired
    BY TimerSame, InvTypes DEF times
  <1>2. /\ ucResendAfterArp' = (ucResendAfterArp /\ Result = 0)
        /\ probe' = probe /\ probed' = probed
    BY MailHead DEF IInv, Handled, NoArp
  <1>3. ClientTypeOK'
    BY <1>1, <1>2 DEF IInv, ClientTypeOK, TimerType, Handled
  <1>4. MailOK'
    BY <1>1, Codes DEF IInv, MailOK, Handled, TimerType
  <1>5. ArpOK'
    BY <1>1, <1>2, InvTypes DEF IInv, ArpOK, Handled, Asking
  <1>6. TimerOK'
    BY <1>1 DEF IInv, TimerOK, Handled, Expects, Quiet
  <1>7. AddressOK'
    BY <1>1 DEF IInv, AddressOK, Asking
  <1>8. LeaseOK'
    BY <1>1 DEF IInv, LeaseOK, Asking
  <1> QED
    BY <1>3, <1>4, <1>5, <1>6, <1>7, <1>8 DEF IInv

(* What an event is, in terms of the queue.                                *)
EventRead(event) ==
    /\ Result = 0 => event = Event
    /\ Result = ARP_RESOLUTION_SUCCESS => event = E_DHCP_COLLISION
    /\ Result = ARP_RESOLUTION_FAILED => event = E_DHCP_BIND_NOW

(* A lease begins with the report of ARP that nobody has the address.      *)
BoundAfterProbe ==
    ucDHCP_state \notin Bound /\ ucDHCP_state' = "BOUND" =>
        /\ ucOurIP /\ granted > 0 /\ probe # "own"
        /\ FromArp /\ Head(queue) = ARP_RESOLUTION_FAILED

LEMMA RequestingStep ==
    ASSUME IInv, Handled, Result # 0 => Head(queue) = Result,
           ucDHCP_state \in Asking \cup {"INIT_REBOOT"},
           NEW event, EventRead(event), NEW state \in Asking,
           NEW timeout \in FIRST_TIMEOUT..LAST_TIMEOUT,
           ucDHCP_state \in Asking => state = ucDHCP_state /\ timeout = DHCPTimeout,
           Requesting(event, state, timeout)
    PROVE  IInv' /\ BoundAfterProbe
  <1>1. CASE Result = 0
    <2>1. event \in TimerEvs
      BY <1>1 DEF EventRead, Handled, IInv, MailOK
    <2>2. Repeat("REQUEST", state, timeout, E_REQUEST_TIMEOUT)
      BY <2>1, Codes DEF Requesting
    <2>3. ucDHCP_state' = state
      BY <2>2 DEF Repeat
    <2> QED
      BY <1>1, <2>2, <2>3, AskAgain DEF BoundAfterProbe, Asking
  <1>2. CASE Result = ARP_RESOLUTION_SUCCESS
    <2>1. event = E_DHCP_COLLISION /\ Result # 0
      BY <1>2, Codes DEF EventRead
    <2>2. ucDHCP_state \in Asking
      BY <2>1 DEF IInv, ArpOK
    <2>3. /\ Restart /\ NoArp /\ asked' = "nothing" /\ up' = FALSE
          /\ DHCPTimeout' = DHCPTimeout
      BY <2>1, <2>2, Codes DEF Requesting
    <2>4. ucDHCP_state' = "INIT"
      BY <2>3 DEF Restart
    <2> QED
      BY <2>1, <2>2, <2>3, <2>4, Collision DEF BoundAfterProbe
  <1>3. CASE Result = ARP_RESOLUTION_FAILED
    <2>1. event = E_DHCP_BIND_NOW /\ Result # 0
      BY <1>3, Codes DEF EventRead
    <2>2. ucDHCP_state \in Asking
      BY <2>1 DEF IInv, ArpOK
    <2>3. /\ BeginLease(Stored) /\ NoArp /\ up' = TRUE /\ DHCPTimeout' = DHCPTimeout
          /\ UNCHANGED <<asked, granted>>
      BY <2>1, <2>2, Codes DEF Requesting
    <2>4. IInv' /\ ucOurIP /\ granted > 0 /\ probe # "own"
      BY <1>3, <2>2, <2>3, Bind
    <2>5. FromArp /\ Head(queue) = ARP_RESOLUTION_FAILED
      BY <1>3, <2>1, MailHead DEF IInv, Handled
    <2> QED
      BY <2>4, <2>5 DEF BoundAfterProbe
  <1> QED
    BY <1>1, <1>2, <1>3, Codes DEF IInv, MailOK

LEMMA EventStep ==
    ASSUME IInv, Handled, Result # 0 => Head(queue) = Result,
           NEW event, EventRead(event), fnStateEventDHCP(event)
    PROVE  IInv' /\ BoundAfterProbe
  <1>1. ucDHCP_state \in States /\ FIRST_TIMEOUT \in FIRST_TIMEOUT..LAST_TIMEOUT
    BY InvTypes, Numbers
  <1>2. ucDHCP_state \in Asking \cup Bound \cup {"SELECTING"} =>
            DHCPTimeout \in FIRST_TIMEOUT..LAST_TIMEOUT
    BY DEF IInv, MailOK, ArpOK
  <1>3. Result \in ArpResults => event \notin {E_RENEW_NOW, E_REBIND_NOW}
    BY Codes DEF EventRead, E_RENEW_NOW, E_REBIND_NOW, E_DHCP_COLLISION, E_DHCP_BIND_NOW
  <1>4. Result \in ArpResults \cup {0} /\ 0 \notin ArpResults
    BY Codes DEF IInv, MailOK
  <1>5. CASE ucDHCP_state = "INIT_REBOOT"
    <2>1. Requesting(event, "REBOOTING", FIRST_TIMEOUT)
      BY <1>5 DEF fnStateEventDHCP
    <2> QED
      BY <1>1, <1>5, <2>1, RequestingStep DEF Asking
  <1>6. CASE ucDHCP_state \in Asking
    <2>1. Requesting(event, ucDHCP_state, DHCPTimeout)
      BY <1>6 DEF fnStateEventDHCP, Asking
    <2> QED
      BY <1>2, <1>6, <2>1, RequestingStep DEF Asking
  <1>7. CASE ucDHCP_state \in {"INIT", "SELECTING"}
    <2>1. PICK timeout \in FIRST_TIMEOUT..LAST_TIMEOUT : Selecting(timeout)
      BY <1>1, <1>2, <1>7 DEF fnStateEventDHCP
    <2>2. ucDHCP_state' = "SELECTING"
      BY <2>1 DEF Selecting, Repeat
    <2> QED
      BY <1>7, <2>1, <2>2, SelectingStep DEF BoundAfterProbe
  <1>8. CASE ucDHCP_state = "BOUND"
    <2>1. InBound(event)
      BY <1>8 DEF fnStateEventDHCP
    <2>2. Result = 0
      BY <1>8 DEF IInv, ArpOK
    <2>3. event = E_RENEW_NOW
      BY <1>8, <2>2, HeldLeaseEvent DEF EventRead
    <2> QED
      BY <1>8, <2>1, <2>3, BoundStep DEF BoundAfterProbe, Bound
  <1>9. CASE ucDHCP_state = "RENEWING"
    <2>1. InRenewing(event)
      BY <1>9 DEF fnStateEventDHCP
    <2>2. CASE Result = 0
      <3>1. event = E_RENEW_NOW /\ event = Event
        BY <1>9, <2>2, HeldLeaseEvent DEF EventRead
      <3>2. CASE ulRenewalTime # 0
        <4>1. GoOn(Event)
          BY <2>1, <3>1, <3>2 DEF InRenewing
        <4> QED
          BY <1>9, <2>2, <3>2, <4>1, GoOnStep DEF BoundAfterProbe, Bound
      <3>3. CASE ulRenewalTime = 0
        <4>1. RenewAgain
          BY <2>1, <3>1, <3>3 DEF InRenewing
        <4> QED
          BY <1>9, <2>2, <3>3, <4>1, RenewAgainStep DEF BoundAfterProbe, Bound
      <3> QED
        BY <3>2, <3>3
    <2>3. CASE Result # 0
      <3>1. Ignore
        BY <1>3, <1>4, <2>1, <2>3 DEF InRenewing
      <3> QED
        BY <1>9, <2>3, <3>1, MessageWithoutEffect DEF Ignore, BoundAfterProbe, Bound
    <2> QED
      BY <2>2, <2>3
  <1>10. CASE ucDHCP_state = "REBINDING"
    <2>1. InRebinding(event) /\ Result = 0
      BY <1>10 DEF fnStateEventDHCP, IInv, ArpOK
    <2>2. event = E_REBIND_NOW /\ event = Event
      BY <1>10, <2>1, HeldLeaseEvent DEF EventRead
    <2>3. CASE ulRenewalTime # 0
      <3>1. GoOn(Event)
        BY <2>1, <2>2, <2>3 DEF InRebinding
      <3> QED
        BY <1>10, <2>1, <2>3, <3>1, GoOnStep DEF BoundAfterProbe, Bound
    <2>4. CASE ulRenewalTime = 0
      <3>1. RebindAgain
        BY <2>1, <2>2, <2>4 DEF InRebinding
      <3> QED
        BY <1>10, <2>1, <2>4, <3>1, RebindAgainStep DEF BoundAfterProbe, Bound
    <2> QED
      BY <2>3, <2>4
  <1>11. CASE ucDHCP_state = "DHCP_INIT"
    <2>1. Ignore
      BY <1>11 DEF fnStateEventDHCP
    <2> QED
      BY <1>11, <2>1, MessageWithoutEffect DEF Ignore, BoundAfterProbe
  <1> QED
    BY <1>1, <1>5, <1>6, <1>7, <1>8, <1>9, <1>10, <1>11 DEF States, Bound, Asking

LEMMA HandleMessageStep ==
    ASSUME IInv, HandleMessage
    PROVE  IInv' /\ BoundAfterProbe
  <1>1. /\ Handled
        /\ Result # 0 => Head(queue) = Result
        /\ Result = 0 => Head(queue) = Event
    BY HandledMessage
  <1>2. Result \in ArpResults \cup {0} /\ Event \in TimerEvs \cup {0}
    BY DEF IInv, MailOK
  <1>3. CASE Result = 0
    <2>1. Head(queue) = Event /\ Event \notin ArpResults
      BY <1>1, <1>2, <1>3, Codes
    <2>2. fnStateEventDHCP(Event)
      BY <2>1, Codes DEF HandleMessage
    <2>3. EventRead(Event)
      BY <1>3, Codes DEF EventRead
    <2> QED
      BY <1>1, <1>3, <2>2, <2>3, EventStep
  <1>4. CASE Result = ARP_RESOLUTION_FAILED
    <2>1. fnStateEventDHCP(E_DHCP_BIND_NOW)
      BY <1>1, <1>4, Codes DEF HandleMessage
    <2>2. EventRead(E_DHCP_BIND_NOW)
      BY <1>4, Codes DEF EventRead
    <2> QED
      BY <1>1, <2>1, <2>2, EventStep
  <1>5. CASE Result = ARP_RESOLUTION_SUCCESS /\ ~ucResendAfterArp
    <2>1. fnStateEventDHCP(E_DHCP_COLLISION)
      BY <1>1, <1>5, Codes DEF HandleMessage
    <2>2. EventRead(E_DHCP_COLLISION)
      BY <1>5, Codes DEF EventRead
    <2> QED
      BY <1>1, <2>1, <2>2, EventStep
  <1>6. CASE Result = ARP_RESOLUTION_SUCCESS /\ ucResendAfterArp
    <2>1. Resend /\ Result # 0
      BY <1>1, <1>6, Codes DEF HandleMessage
    <2>2. ucDHCP_state \in {"DHCP_INIT", "RENEWING"}
      BY <1>6 DEF IInv, ArpOK
    <2> QED
      BY <1>1, <2>1, <2>2, MessageWithoutEffect DEF Resend, BoundAfterProbe
  <1> QED
    BY <1>2, <1>3, <1>4, <1>5, <1>6, Codes

-----------------------------------------------------------------------------
(*                   The scheduler, ARP and the time                       *)

LEMMA ScheduleStep ==
    ASSUME IInv, uTaskerSchedule
    PROVE  IInv' /\ BoundAfterProbe
  <1>1. /\ ~handling /\ handling' = TRUE /\ Event = 0 /\ MailOK /\ TimerType
        /\ UNCHANGED <<ucDHCP_state, DHCPTimeout, ulLeaseTime, ulRebindingTime,
                       ulRenewalTime, ucServerResponses, ucOurIP, ucDHCP_IP, asked,
                       ucResendAfterArp, probe, probed, granted, up>>
    BY InvTypes DEF uTaskerSchedule, IInv, MailOK, times, arp
  <1>2. /\ TimerType' /\ Left' = Left /\ Armed' = Armed /\ Fired' = 0
        /\ Result' = Result /\ Event' = Fired
        /\ queue' = Holding(Result', Event')
        /\ queue' \in Seq(Events \cup ArpResults)
    <2>1. CASE Fired = 0
      <3>1. UNCHANGED kernelVars /\ UNCHANGED queue
        BY <2>1 DEF uTaskerSchedule, Fired
      <3> QED
        BY <1>1, <2>1, <3>1, TimerSame, MailSame DEF IInv, ClientTypeOK, MailOK
    <2>2. CASE Fired # 0
      <3>1. queue' = Append(queue, Fired) /\ Kernel!HandOver(OWN_TASK)
        BY <2>2 DEF uTaskerSchedule, Fired
      <3>2. Fired \in TimerEvs
        BY <1>1, <2>2 DEF MailOK
      <3> QED
        BY <1>1, <3>1, <3>2, TimerHandedOver, MailFired
    <2> QED
      BY <2>1, <2>2
  <1>3. ClientTypeOK'
    BY <1>1, <1>2 DEF IInv, ClientTypeOK, TimerType
  <1>4. MailOK'
    BY <1>1, <1>2 DEF IInv, MailOK, TimerType
  <1>5. ArpOK'
    BY <1>1, <1>2 DEF IInv, ArpOK, Quiet
  <1>6. TimerOK'
    BY <1>1, <1>2 DEF IInv, TimerOK, Expects, Quiet
  <1>7. AddressOK'
    BY <1>1, <1>2 DEF IInv, AddressOK
  <1>8. LeaseOK'
    BY <1>1, <1>2 DEF IInv, LeaseOK
  <1> QED
    BY <1>1, <1>3, <1>4, <1>5, <1>6, <1>7, <1>8 DEF IInv, BoundAfterProbe, Bound

LEMMA QueueIsReadStep ==
    ASSUME IInv, QueueIsRead
    PROVE  IInv' /\ BoundAfterProbe
  <1>1. /\ handling' = FALSE
        /\ UNCHANGED <<ucDHCP_state, DHCPTimeout, ulLeaseTime, ulRebindingTime,
                       ulRenewalTime, ucServerResponses, ucOurIP, ucDHCP_IP, asked,
                       queue, ucResendAfterArp, probe, probed, granted, up>>
    BY DEF QueueIsRead, times, arp
  <1>2. /\ TimerType' /\ Left' = Left /\ Armed' = Armed /\ Fired' = Fired
        /\ Result' = Result /\ Event' = Event /\ Event = 0
    BY InvTypes, TimerSame, MailSame, MailHead DEF QueueIsRead, IInv
  <1>3. ClientTypeOK'
    BY <1>1, <1>2 DEF IInv, ClientTypeOK, TimerType
  <1>4. MailOK'
    BY <1>1, <1>2 DEF IInv, MailOK, TimerType
  <1>5. ArpOK'
    BY <1>1, <1>2 DEF IInv, ArpOK, Quiet
  <1>6. TimerOK'
    BY <1>1, <1>2 DEF IInv, TimerOK, Expects, Quiet
  <1>7. AddressOK'
    BY <1>1, <1>2 DEF IInv, AddressOK
  <1>8. LeaseOK'
    BY <1>1, <1>2 DEF IInv, LeaseOK
  <1> QED
    BY <1>1, <1>3, <1>4, <1>5, <1>6, <1>7, <1>8 DEF IInv, BoundAfterProbe, Bound

LEMMA ArpEndsStep ==
    ASSUME IInv, NEW result \in ArpResults, ArpEnds(result)
    PROVE  IInv' /\ BoundAfterProbe
  <1>1. /\ ~handling /\ probe # "none" /\ probe' = "none" /\ probed' = 0
        /\ result = ARP_RESOLUTION_FAILED => probed > 0
        /\ Result = 0 /\ Event = 0
        /\ UNCHANGED <<ucDHCP_state, DHCPTimeout, ulLeaseTime, ulRebindingTime,
                       ulRenewalTime, ucServerResponses, ucOurIP, ucDHCP_IP, asked,
                       handling, ucResendAfterArp, granted, up>>
    BY DEF ArpEnds, IInv, MailOK, ArpOK, times
  <1>2. /\ TimerType' /\ Left' = Left /\ Armed' = Armed /\ Fired' = Fired
        /\ Result' = result /\ Event' = 0 /\ result # 0
        /\ queue' = Holding(Result', Event')
        /\ queue' \in Seq(Events \cup ArpResults)
    BY <1>1, InvTypes, TimerSame, MailAnswered, Codes DEF ArpEnds, IInv
  <1>3. ClientTypeOK'
    BY <1>1, <1>2, Numbers DEF IInv, ClientTypeOK, TimerType
  <1>4. MailOK'
    BY <1>1, <1>2 DEF IInv, MailOK, TimerType
  <1>5. ArpOK'
    BY <1>1, <1>2, InvTypes DEF IInv, ArpOK, Asking, Quiet
  <1>6. TimerOK'
    BY <1>1, <1>2 DEF IInv, TimerOK, Expects, Quiet
  <1>7. AddressOK'
    BY <1>1, <1>2, InvTypes DEF IInv, ArpOK, AddressOK, Asking, Bound
  <1>8. LeaseOK'
    BY <1>1, <1>2, InvTypes, Numbers DEF IInv, LeaseOK, ArpOK, AddressOK, Asking, Bound
  <1> QED
    BY <1>1, <1>3, <1>4, <1>5, <1>6, <1>7, <1>8 DEF IInv, BoundAfterProbe, Bound

LEMMA TickStep ==
    ASSUME IInv, fnRtmkSystemTick
    PROVE  IInv' /\ BoundAfterProbe
  <1>1. /\ ~handling /\ Result = 0 /\ Event = 0 /\ Fired = 0
        /\ probe # "none" => probed < PROBE_TIME
        /\ granted' = IF granted \in {0, Infinite} THEN granted ELSE granted - 1
        /\ probed' = IF probe = "none" THEN 0 ELSE probed + 1
        /\ UNCHANGED <<ucDHCP_state, DHCPTimeout, ulLeaseTime, ulRebindingTime,
                       ulRenewalTime, ucServerResponses, ucOurIP, ucDHCP_IP, asked,
                       queue, handling, ucResendAfterArp, probe, up>>
    BY MailHead DEF fnRtmkSystemTick, IInv, times, mail, Fired
  <1>2. /\ TimerType' /\ Armed' = Armed
        /\ Left' = IF Left = 0 THEN 0 ELSE Left - 1
        /\ Fired' = IF Left = 1 THEN Armed ELSE 0
        /\ Result' = 0 /\ Event' = 0
    BY <1>1, InvTypes, TimerElapsed, MailSame DEF fnRtmkSystemTick
  <1>3. granted' \in 0..TimeMod-1 /\ granted' >= granted - 1 /\ probed' \in 0..PROBE_TIME
    BY <1>1, InvTypes, Numbers DEF Infinite
  <1>4. ClientTypeOK'
    BY <1>1, <1>2, <1>3, Numbers DEF IInv, ClientTypeOK, TimerType
  <1>5. MailOK'
    BY <1>1, <1>2, InvTypes DEF IInv, MailOK, TimerType
  <1>6. ArpOK'
    BY <1>1, <1>2, InvTypes, Numbers, Codes DEF IInv, ArpOK, Asking, Bound, Quiet
  <1>7. TimerOK'
    BY <1>1, <1>2, InvTypes DEF IInv, MailOK, TimerOK, Expects, Quiet
  <1>8. AddressOK'
    BY <1>1, <1>2 DEF IInv, AddressOK
  <1>9. LeaseOK'
    BY <1>1, <1>2, <1>3, InvTypes, Numbers
       DEF IInv, LeaseOK, AddressOK, TimerOK, Expects, Quiet, Asking, Bound
  <1> QED
    BY <1>1, <1>4, <1>5, <1>6, <1>7, <1>8, <1>9 DEF IInv, BoundAfterProbe, Bound

-----------------------------------------------------------------------------
(*                    The servers and the application                      *)

LEMMA HearOfferStep ==
    ASSUME IInv, NEW g \in Leases, HearOffer(g)
    PROVE  IInv' /\ BoundAfterProbe
  <1>1. /\ ~handling /\ UNCHANGED <<queue, handling>>
        /\ ucDHCP_state = "SELECTING" /\ ucDHCP_state' = "REQUESTING"
        /\ ulLeaseTime' = g.lease /\ ucDHCP_IP' = TRUE
        /\ fnSendDHCP("REQUEST", "REQUESTING")
        /\ DHCPTimeout' = FIRST_TIMEOUT
        /\ fnRandomise(FIRST_TIMEOUT, E_REQUEST_TIMEOUT)
        /\ UNCHANGED <<ulRebindingTime, ulRenewalTime, ucServerResponses, ucOurIP,
                       granted, up>>
    BY DEF HearOffer, Reply, mail
  <1>2. /\ probe = "none" /\ Result = 0 /\ ~ucResendAfterArp /\ ucOurIP = FALSE /\ up = FALSE
    BY <1>1, InvTypes DEF IInv, ArpOK, AddressOK, Bound
  <1>3. /\ TimerType' /\ Left' > PROBE_TIME /\ Left' \in Nat
        /\ Armed' = E_REQUEST_TIMEOUT /\ Fired' = Fired
    BY <1>1, TimerRandom, InvTypes, Numbers, Codes
  <1>4. Result' = Result /\ Event' = Event
    BY <1>1, MailSame
  <1>5. /\ asked' = "REQUEST" /\ ~ucResendAfterArp' /\ ucResendAfterArp' \in BOOLEAN
        /\ probe' = "none" /\ probed' = probed
    BY <1>1, <1>2 DEF fnSendDHCP, NoArp
  <1>6. ClientTypeOK'
    BY <1>1, <1>2, <1>3, <1>5, Granted, Numbers DEF IInv, ClientTypeOK, TimerType, States
  <1>7. MailOK'
    BY <1>1, <1>3, <1>4, Codes, Numbers DEF IInv, MailOK, TimerType
  <1>8. ArpOK'
    BY <1>1, <1>2, <1>4, <1>5, Numbers, Codes DEF ArpOK, Asking, Bound
  <1>9. TimerOK'
    BY <1>1, <1>3, Numbers DEF TimerOK
  <1>10. AddressOK'
    BY <1>1, <1>2, <1>4, <1>5 DEF AddressOK, Asking, Bound
  <1>11. LeaseOK'
    BY <1>1, <1>2 DEF IInv, LeaseOK, Asking, Bound
  <1> QED
    BY <1>1, <1>6, <1>7, <1>8, <1>9, <1>10, <1>11 DEF IInv, BoundAfterProbe

(* The times of an ACK replace those that were stored.                     *)
LEMMA ReceivedTimes ==
    ASSUME IInv, NEW g \in Leases, LongEnough(Received(g))
    PROVE  /\ CanBegin(Received(g)) /\ Received(g).lease = g.lease
           /\ Received(g).from \subseteq {"T1", "T2"}
  <1>1. g.lease \in 0..TimeMod-1 /\ g.t1 \in 0..TimeMod-1 /\ g.t2 \in 0..TimeMod-1
    BY Granted
  <1>2. /\ ulRebindingTime \in 0..TimeMod-1 /\ ulRenewalTime \in 0..TimeMod-1
        /\ ucServerResponses \subseteq {"T1", "T2"}
    BY DEF IInv, ClientTypeOK
  <1> DEFINE s == Received(g)
  <1>3. /\ s.lease = g.lease
        /\ s.t1 = IF g.t1 = 0 THEN ulRenewalTime ELSE g.t1
        /\ s.t2 = IF g.t2 = 0 THEN ulRebindingTime ELSE g.t2
        /\ s.from \subseteq {"T1", "T2"}
    BY <1>2 DEF Received
  <1>4. LongEnough(s)
    OBVIOUS
  <1> HIDE DEF s
  <1>5. CanBegin(s)
    BY <1>1, <1>2, <1>3, <1>4 DEF CanBegin, LongEnough, GoodLease, GoodT2
  <1> QED
    BY <1>3, <1>5 DEF s

LEMMA HearAckStep ==
    ASSUME IInv, ~ResultQueued, NEW g \in Leases, LongEnough(Received(g)), HearAck(g)
    PROVE  IInv' /\ BoundAfterProbe
  <1>1. /\ ~handling /\ UNCHANGED <<queue, handling, DHCPTimeout>> /\ asked = "REQUEST"
        /\ Result = 0
        /\ granted' = g.lease /\ asked' = "nothing"
        /\ ucDHCP_state \in Asking \cup {"REBINDING", "RENEWING"}
    BY MailHead DEF HearAck, Reply, mail, IInv, Asking
  <1>2. /\ ~ucResendAfterArp /\ DHCPTimeout # 0 /\ Event = 0
        /\ ucDHCP_IP = TRUE
        /\ ucDHCP_state = "RENEWING" => probe = "none"
    BY <1>1, InvTypes DEF IInv, MailOK, ArpOK, AddressOK, Asking, Bound
  <1>3. Result' = Result /\ Event' = Event
    BY <1>1, MailSame
  <1>4. /\ g.lease \in 0..TimeMod-1 /\ GoodLease(g.lease)
    BY Granted DEF LongEnough, Received, GoodLease
  <1>5. CASE TakeAddress(g) /\ ucDHCP_state' \in Asking
    <2>1. /\ ulLeaseTime' = g.lease
          /\ ulRenewalTime' = Received(g).t1 /\ ulRebindingTime' = Received(g).t2
          /\ ucServerResponses' = Received(g).from
          /\ CanBegin(Received(g)) /\ Received(g).from \subseteq {"T1", "T2"}
          /\ Kernel!Stop(OWN_TASK)
          /\ ucOurIP' = TRUE /\ probe' = "own" /\ probed' = 0
          /\ UNCHANGED <<ucResendAfterArp, ucDHCP_IP, up>>
      BY <1>2, <1>5, ReceivedTimes DEF TakeAddress, fnCheckIPAddress
    <2>2. /\ ulRenewalTime' \in 0..TimeMod-1 /\ ulRebindingTime' \in 0..TimeMod-1
          /\ ucServerResponses' \subseteq {"T1", "T2"}
          /\ "T2" \in ucServerResponses' => ulRebindingTime' = 0 \/ GoodT2(ulRebindingTime')
      BY <2>1 DEF CanBegin
    <2>3. TimerType' /\ Left' = 0 /\ Armed' = 0 /\ Fired' = Fired
      BY <2>1, InvTypes, TimerStopped
    <2>4. ClientTypeOK'
      <3>1. g.lease \in Nat /\ probed' \in 0..PROBE_TIME
        BY <1>4, <2>1, Numbers
      <3>2. /\ ucDHCP_state' \in States
            /\ {ulLeaseTime', ulRebindingTime', ulRenewalTime'} \subseteq 0..TimeMod-1
        BY <1>4, <1>5, <2>1, <2>2 DEF States, Asking
      <3> QED
        BY <1>1, <2>1, <2>2, <2>3, <3>1, <3>2 DEF IInv, ClientTypeOK, TimerType
    <2>5. MailOK'
      BY <1>1, <1>3, <2>3 DEF IInv, MailOK, TimerType
    <2>6. ArpOK'
      BY <1>1, <1>2, <1>3, <1>5, <2>1, <2>3, Codes DEF ArpOK, Asking, Bound
    <2>7. TimerOK'
      BY <1>5, <2>1 DEF TimerOK, Asking
    <2>8. up => ucDHCP_state' = "REQUESTING"
      BY <1>1, <1>5, <2>1 DEF IInv, AddressOK, HearAck, Asking, Bound, BeginLease
    <2>9. AddressOK'
      BY <1>2, <1>5, <2>1, <2>8, InvTypes DEF AddressOK, Asking, Bound
    <2>10. LeaseOK'
      BY <1>1, <1>4, <1>5, <2>1, <2>2, Numbers DEF LeaseOK, Asking, Bound
    <2> QED
      BY <1>5, <2>4, <2>5, <2>6, <2>7, <2>9, <2>10 DEF IInv, BoundAfterProbe, Asking
  <1>6. CASE ucDHCP_state = "RENEWING" /\ BeginLease(Received(g)) /\ UNCHANGED <<arp, up>>
    <2>1. /\ ucDHCP_state' = "BOUND"
          /\ TimerType' /\ Left' # 0 /\ Left' \in Nat
          /\ Armed' = E_RENEW_NOW /\ Fired' = Fired
          /\ ulLeaseTime' \in 0..TimeMod-1 /\ ulLeaseTime' \div 2 > PROBE_TIME
          /\ ulRebindingTime' \in 0..TimeMod-1 /\ ulRebindingTime' \div 2 > PROBE_TIME
          /\ ulRenewalTime' \in 0..TimeMod-1
          /\ Left' + ulRenewalTime' + ulRebindingTime' + ulLeaseTime' = g.lease
          /\ ucServerResponses' = {}
          /\ ucOurIP' = ucOurIP /\ ucDHCP_IP' = ucDHCP_IP
      <3> DEFINE s == Received(g)
      <3>1. s.lease = g.lease /\ CanBegin(s) /\ BeginLease(s) /\ TimerType
        BY <1>6, ReceivedTimes, InvTypes
      <3> HIDE DEF s
      <3> QED
        BY <3>1, LeaseBegun
    <2>2. UNCHANGED <<ucResendAfterArp, probe, probed, up>>
      BY <1>6 DEF arp
    <2>3. ucOurIP = TRUE /\ Fired \in {0, E_RENEW_NOW}
      BY <1>6, InvTypes DEF IInv, AddressOK, Bound, TimerOK, Expects
    <2>4. ClientTypeOK'
      BY <1>1, <1>4, <2>1, <2>2, Numbers DEF IInv, ClientTypeOK, TimerType, States, Bound
    <2>5. MailOK'
      BY <1>1, <1>3, <2>1, Codes DEF IInv, MailOK, TimerType
    <2>6. ArpOK'
      BY <1>1, <1>2, <1>3, <1>6, <2>1, <2>2 DEF ArpOK, Asking
    <2>7. TimerOK'
      BY <1>2, <1>3, <2>1, <2>3 DEF TimerOK, Expects
    <2>8. AddressOK'
      BY <1>2, <2>1, <2>2, <2>3 DEF AddressOK, Asking, Bound
    <2>9. LeaseOK'
      <3>1. PICK l \in 0..TimeMod-1 : l = g.lease
        BY <1>4
      <3>2. granted' \in 0..TimeMod-1 /\ granted' + PROBE_TIME >= l
        BY <1>1, <3>1, Numbers
      <3>3. Left' + ulRenewalTime' + ulRebindingTime' + ulLeaseTime' = l
        BY <2>1, <3>1
      <3> QED
        BY <2>1, <3>2, <3>3 DEF LeaseOK, Asking
    <2> QED
      BY <1>6, <2>4, <2>5, <2>6, <2>7, <2>8, <2>9 DEF IInv, BoundAfterProbe, Bound
  <1> QED
    BY <1>1, <1>5, <1>6 DEF HearAck, Asking

LEMMA HearNakStep ==
    ASSUME IInv, HearNak
    PROVE  IInv' /\ BoundAfterProbe
  <1>1. /\ ~handling /\ asked' = "nothing"
        /\ UNCHANGED <<queue, handling, DHCPTimeout, ucResendAfterArp, probe, probed, up>>
        /\ Result' = Result /\ Event' = Event
    BY MailSame DEF HearNak, Reply, mail, arp
  <1>2. CASE ucDHCP_state = "REBOOTING" /\ Restart
    <2>1. /\ ucDHCP_state' = "INIT" /\ ucOurIP' = FALSE /\ granted' = 0
          /\ fnRandomise(RESTART_DELAY, E_START_DHCP)
          /\ UNCHANGED <<ulLeaseTime, ulRebindingTime, ulRenewalTime, ucServerResponses,
                         ucDHCP_IP>>
      BY <1>2 DEF Restart, times
    <2>2. /\ TimerType' /\ Left' > PROBE_TIME /\ Left' \in Nat
          /\ Armed' = E_START_DHCP /\ Fired' = Fired
      BY <2>1, TimerRandom, InvTypes, Numbers, Codes
    <2>3. ~ucResendAfterArp /\ up = FALSE /\ asked = "REQUEST" /\ probe # "server"
      BY <1>2, InvTypes DEF IInv, ArpOK, AddressOK, Asking, Bound, HearNak, Reply
    <2>4. ClientTypeOK'
      BY <1>1, <2>1, <2>2, Numbers DEF IInv, ClientTypeOK, TimerType, States
    <2>5. MailOK'
      BY <1>1, <2>2, Codes, Numbers DEF IInv, MailOK, TimerType
    <2>6. probe = "own" => Quiet /\ Left' + probed' > PROBE_TIME
      BY <1>1, <1>2, <2>2, <2>3, InvTypes, Numbers DEF IInv, ArpOK, Asking
    <2>7. ArpOK'
      BY <1>1, <1>2, <2>1, <2>2, <2>3, <2>6 DEF IInv, ArpOK, Asking, Bound, Quiet
    <2>8. TimerOK'
      BY <2>1, <2>2, Numbers DEF TimerOK
    <2>9. AddressOK'
      BY <1>1, <2>1, <2>3 DEF AddressOK, Asking, Bound
    <2>10. LeaseOK'
      BY <2>1, Numbers DEF IInv, LeaseOK, Asking, Bound
    <2> QED
      BY <2>1, <2>4, <2>5, <2>7, <2>8, <2>9, <2>10 DEF IInv, BoundAfterProbe
  <1>3. CASE UNCHANGED <<ucDHCP_state, times, ucOurIP, ucDHCP_IP, kernelVars, granted>>
    <2>1. /\ TimerType' /\ Left' = Left /\ Armed' = Armed /\ Fired' = Fired
          /\ UNCHANGED <<ucDHCP_state, ulLeaseTime, ulRebindingTime, ulRenewalTime,
                         ucServerResponses, ucOurIP, ucDHCP_IP, granted>>
      BY <1>3, TimerSame, InvTypes DEF times
    <2>2. ClientTypeOK'
      BY <1>1, <2>1 DEF IInv, ClientTypeOK, TimerType
    <2>3. MailOK'
      BY <1>1, <2>1 DEF IInv, MailOK, TimerType
    <2>4. ArpOK'
      BY <1>1, <2>1 DEF IInv, ArpOK, Quiet
    <2>5. TimerOK'
      BY <1>1, <2>1 DEF IInv, TimerOK, Expects, Quiet
    <2>6. AddressOK'
      BY <1>1, <2>1 DEF IInv, AddressOK
    <2>7. LeaseOK'
      BY <1>1, <2>1 DEF IInv, LeaseOK
    <2> QED
      BY <2>1, <2>2, <2>3, <2>4, <2>5, <2>6, <2>7 DEF IInv, BoundAfterProbe, Bound
  <1> QED
    BY <1>2, <1>3 DEF HearNak

LEMMA StopStep ==
    ASSUME IInv, fnStopDHCP
    PROVE  IInv' /\ BoundAfterProbe
  <1>1. /\ ~handling /\ Kernel!Stop(OWN_TASK) /\ ucDHCP_state' = "DHCP_INIT"
        /\ ucOurIP' = ucDHCP_IP /\ up' = FALSE
        /\ UNCHANGED <<DHCPTimeout, ulLeaseTime, ulRebindingTime, ulRenewalTime,
                       ucServerResponses, ucDHCP_IP, asked, queue, handling,
                       ucResendAfterArp, probe, probed, granted>>
        /\ Result' = Result /\ Event' = Event
    BY MailSame DEF fnStopDHCP, times, mail, arp
  <1>2. TimerType' /\ Left' = 0 /\ Armed' = 0 /\ Fired' = Fired
    BY <1>1, InvTypes, TimerStopped
  <1>3. ClientTypeOK'
    BY <1>1, <1>2 DEF IInv, ClientTypeOK, TimerType, States
  <1>4. MailOK'
    BY <1>1, <1>2 DEF IInv, MailOK, TimerType
  <1>5. ArpOK'
    BY <1>1 DEF IInv, ArpOK, Asking, Bound
  <1>6. TimerOK'
    BY <1>1 DEF TimerOK
  <1>7. AddressOK'
    BY <1>1 DEF AddressOK, Asking, Bound
  <1>8. LeaseOK'
    BY <1>1 DEF IInv, LeaseOK, Asking, Bound
  <1> QED
    BY <1>1, <1>3, <1>4, <1>5, <1>6, <1>7, <1>8 DEF IInv, BoundAfterProbe

-----------------------------------------------------------------------------
(*              Whatever happens, and what a clean start mends             *)

(* The types of the client, and the repetition time of its messages.       *)
ClientTypes ==
    /\ ucDHCP_state \in States
    /\ DHCPTimeout \in {0} \cup FIRST_TIMEOUT..LAST_TIMEOUT
    /\ ucDHCP_state \in Asking \cup Bound \cup {"SELECTING"} => DHCPTimeout # 0
    /\ ulLeaseTime \in 0..TimeMod-1
    /\ ulRebindingTime \in 0..TimeMod-1
    /\ ulRenewalTime \in 0..TimeMod-1
    /\ ucServerResponses \subseteq {"T1", "T2"}
    /\ ucResendAfterArp \in BOOLEAN /\ ucOurIP \in BOOLEAN /\ ucDHCP_IP \in BOOLEAN
    /\ up \in BOOLEAN
    /\ asked \in {"nothing", "DISCOVER", "REQUEST"}
    /\ TimerType
    /\ probe \in {"none", "own", "server"} /\ probed \in 0..PROBE_TIME
    /\ granted \in 0..TimeMod-1

(* What holds in spite of crossed requests and impossible times: between   *)
(* the calls of the task its queue holds results of ARP alone, and a       *)
(* request is kept back only while one is awaited.                         *)
Base ==
    /\ ClientTypes
    /\ queue \in Seq(Events \cup ArpResults) /\ handling \in BOOLEAN
    /\ ~handling => \A i \in DOMAIN queue : queue[i] \in ArpResults
    /\ ucResendAfterArp => probe # "none" \/ ResultQueued
    /\ crossed \in BOOLEAN /\ mistimed \in BOOLEAN

LEMMA BaseTypes ==
    ASSUME Base
    PROVE  TypeOK
  BY Numbers DEF Base, ClientTypes, TypeOK, ClientTypeOK, TimerType

LEMMA EmptyQueue ==
    ASSUME queue \in Seq(Events \cup ArpResults), ~ResultQueued,
           \A i \in DOMAIN queue : queue[i] \in ArpResults
    PROVE  queue = <<>>
  BY DEF ResultQueued

LEMMA StartStep ==
    ASSUME Base, probe = "none", ~ResultQueued, Fired \in TimerEvs \cup {0},
           NEW FORCE_INIT \in BOOLEAN, fnStartDHCP(FORCE_INIT)
    PROVE  IInv' /\ BoundAfterProbe
  <1>1. /\ ~handling
        /\ ucDHCP_state' \in {"INIT_REBOOT", "INIT"}
        /\ ucDHCP_state' = "INIT_REBOOT" => ucDHCP_IP' = TRUE
        /\ ucDHCP_IP' \in BOOLEAN
        /\ ucOurIP' = FALSE /\ granted' = 0 /\ up' = FALSE
        /\ fnRandomise(FIRST_TIMEOUT, E_START_DHCP)
        /\ UNCHANGED <<DHCPTimeout, ulLeaseTime, ulRebindingTime, ulRenewalTime,
                       ucServerResponses, asked, queue, handling, ucResendAfterArp,
                       probe, probed>>
        /\ Result' = Result /\ Event' = Event
    BY MailSame DEF fnStartDHCP, times, mail, arp, Base, ClientTypes
  <1>2. queue = <<>> /\ Result = 0 /\ Event = 0 /\ ~ucResendAfterArp
    <2>1. queue = <<>>
      BY <1>1, EmptyQueue DEF Base
    <2> QED
      BY <2>1 DEF Base, Result, ResultIn, Event, EventIn
  <1>3. /\ TimerType' /\ Left' > PROBE_TIME /\ Left' \in Nat
        /\ Armed' = E_START_DHCP /\ Fired' = Fired
    BY <1>1, TimerRandom, Numbers, Codes DEF Base, ClientTypes
  <1>4. ClientTypeOK'
    <2>1. DHCPTimeout \in Nat
      BY Numbers DEF Base, ClientTypes
    <2> QED
      BY <1>1, <1>3, <2>1 DEF Base, ClientTypes, ClientTypeOK, TimerType, States
  <1>5. MailOK'
    BY <1>1, <1>2, <1>3, Codes, Numbers DEF Base, ClientTypes, MailOK, TimerType, Holding
  <1>6. ArpOK'
    BY <1>1, <1>2 DEF ArpOK, Asking, Bound
  <1>7. TimerOK'
    BY <1>1, <1>3, Numbers DEF TimerOK
  <1>8. AddressOK'
    BY <1>1 DEF AddressOK, Asking, Bound
  <1>9. LeaseOK'
    BY <1>1, Numbers DEF LeaseOK, Asking, Bound
  <1> QED
    BY <1>1, <1>4, <1>5, <1>6, <1>7, <1>8, <1>9 DEF IInv, BoundAfterProbe

(* The timer is started with an event, or not at all.                      *)
LEMMA AnyTimer ==
    ASSUME TimerType, NEW time \in 0..TimeMod-1, NEW e \in Events, RunTimer(time, e)
    PROVE  TimerType' /\ ulRenewalTime' \in 0..TimeMod-1
  <1>1. CASE time = 0
    <2>1. UNCHANGED kernelVars
      BY <1>1 DEF RunTimer
    <2>2. Lower(time, MAX_TIMER_DELAY) = 0
      BY <1>1, Numbers DEF Lower
    <2>3. ulRenewalTime' = time - Lower(time, MAX_TIMER_DELAY)
      BY DEF RunTimer
    <2>4. ulRenewalTime' \in 0..TimeMod-1
      BY <1>1, <2>2, <2>3, Numbers
    <2> QED
      BY <2>1, <2>4, TimerSame
  <1>2. CASE time # 0
    BY <1>2, TimerRun
  <1> QED
    BY <1>1, <1>2

LEMMA AnyRenewal ==
    ASSUME TimerType, NEW time \in 0..TimeMod-1, StartRenewal(time)
    PROVE  TimerType' /\ ulRenewalTime' \in 0..TimeMod-1
  <1>1. CASE time = Infinite
    BY <1>1, TimerSame DEF StartRenewal
  <1>2. CASE time # Infinite
    BY <1>2, AnyTimer, Codes DEF StartRenewal
  <1> QED
    BY <1>1, <1>2

LEMMA AnyRandom ==
    ASSUME TimerType, NEW time \in {RESTART_DELAY} \cup FIRST_TIMEOUT..LAST_TIMEOUT,
           NEW e \in Events, fnRandomise(time, e)
    PROVE  TimerType'
  <1>1. time \in Nat /\ time > PROBE_TIME + 1 /\ time + SPREAD <= LongestTimer
    BY Numbers
  <1> QED
    BY <1>1, TimerRandom

LEMMA AnyLease ==
    ASSUME TimerType, NEW s,
           s.lease \in 0..TimeMod-1, s.t1 \in 0..TimeMod-1, s.t2 \in 0..TimeMod-1,
           BeginLease(s)
    PROVE  /\ ucDHCP_state' = "BOUND" /\ TimerType'
           /\ ulLeaseTime' \in 0..TimeMod-1 /\ ulRebindingTime' \in 0..TimeMod-1
           /\ ulRenewalTime' \in 0..TimeMod-1
           /\ ucServerResponses' = {} /\ UNCHANGED <<ucOurIP, ucDHCP_IP>>
  <1> DEFINE t1 == Renewal(s)
             t2 == Rebinding(s)
  <1>1. t2 \in 0..TimeMod-1
    BY Numbers DEF Rebinding
  <1>2. t1 \in 0..TimeMod-1
    <2>1. (t2 \div 3) * 2 \in 0..TimeMod-1
      BY <1>1, Numbers
    <2> QED
      BY <2>1 DEF Renewal
  <1>3. /\ ulLeaseTime' = Minus(s.lease, t2) /\ ulRebindingTime' = Minus(t2, t1)
        /\ ucServerResponses' = {} /\ StartRenewal(t1)
        /\ UNCHANGED <<ucOurIP, ucDHCP_IP>> /\ ucDHCP_state' = "BOUND"
    BY DEF BeginLease
  <1> HIDE DEF t1, t2
  <1>4. Minus(s.lease, t2) \in 0..TimeMod-1 /\ Minus(t2, t1) \in 0..TimeMod-1
    BY <1>1, <1>2, Numbers DEF Minus
  <1> QED
    BY <1>2, <1>3, <1>4, AnyRenewal

(* A message of ARP ends the wait for its result.                          *)
ArpTouched ==
    /\ ucResendAfterArp' \in BOOLEAN /\ probe' \in {"none", "own", "server"}
    /\ probed' \in 0..PROBE_TIME
    /\ ucResendAfterArp' => \/ probe' # "none"
                            \/ ucResendAfterArp /\ ~FromArp /\ probe' = probe

LEMMA NotSent ==
    ASSUME ClientTypes, NoArp
    PROVE  ArpTouched
  BY DEF ClientTypes, NoArp, ArpTouched

LEMMA Sent ==
    ASSUME ClientTypes, NEW message \in {"DISCOVER", "REQUEST"}, NEW state,
           fnSendDHCP(message, state)
    PROVE  ArpTouched /\ asked' \in {"nothing", "DISCOVER", "REQUEST"}
  <1>1. CASE asked' = message /\ NoArp
    BY <1>1, NotSent
  <1>2. CASE /\ asked' = "nothing" /\ ucResendAfterArp' = TRUE /\ probe' = "server"
             /\ probed' = IF probe = "none" THEN 0 ELSE probed
    BY <1>2, Numbers DEF ClientTypes, ArpTouched
  <1> QED
    BY <1>1, <1>2 DEF fnSendDHCP

(* Whatever an event finds, the types are kept and the wait for ARP ends.  *)
LEMMA RepeatTypes ==
    ASSUME ClientTypes, NEW message \in {"DISCOVER", "REQUEST"}, NEW state \in States,
           NEW timeout \in FIRST_TIMEOUT..LAST_TIMEOUT, NEW event \in Events,
           Repeat(message, state, timeout, event)
    PROVE  ClientTypes' /\ ArpTouched
  <1>1. /\ ucDHCP_state' = state /\ fnSendDHCP(message, state)
        /\ fnRandomise(timeout, event)
        /\ DHCPTimeout' = IF 2 * timeout > LAST_TIMEOUT THEN FIRST_TIMEOUT ELSE 2 * timeout
        /\ UNCHANGED <<ulLeaseTime, ulRebindingTime, ulRenewalTime, ucServerResponses,
                       ucOurIP, ucDHCP_IP, granted, up>>
    BY DEF Repeat, times
  <1>2. TimerType'
    BY <1>1, AnyRandom DEF ClientTypes
  <1>3. ArpTouched /\ asked' \in {"nothing", "DISCOVER", "REQUEST"}
    BY <1>1, Sent
  <1>4. DHCPTimeout' \in FIRST_TIMEOUT..LAST_TIMEOUT /\ DHCPTimeout' # 0
    BY <1>1, Numbers
  <1> QED
    BY <1>1, <1>2, <1>3, <1>4 DEF ClientTypes, ArpTouched

LEMMA RequestingTypes ==
    ASSUME ClientTypes, NEW event \in Events, NEW state \in States,
           NEW timeout \in FIRST_TIMEOUT..LAST_TIMEOUT, Requesting(event, state, timeout)
    PROVE  ClientTypes' /\ ArpTouched
  <1>1. CASE event = E_DHCP_COLLISION
    <2>1. /\ ucDHCP_state' = "INIT" /\ ucOurIP' = FALSE /\ granted' = 0
          /\ fnRandomise(RESTART_DELAY, E_START_DHCP)
          /\ asked' = "nothing" /\ up' = FALSE /\ DHCPTimeout' = timeout /\ NoArp
          /\ UNCHANGED <<ulLeaseTime, ulRebindingTime, ulRenewalTime, ucServerResponses,
                         ucDHCP_IP>>
      BY <1>1, Codes DEF Requesting, Restart, times
    <2>2. TimerType' /\ ArpTouched
      BY <2>1, AnyRandom, NotSent, Codes DEF ClientTypes
    <2>3. granted' \in 0..TimeMod-1
      BY <2>1, Numbers
    <2> QED
      BY <2>1, <2>2, <2>3 DEF ClientTypes, ArpTouched, States, Asking, Bound
  <1>2. CASE event = E_DHCP_BIND_NOW
    <2>1. /\ BeginLease(Stored) /\ up' = TRUE /\ DHCPTimeout' = timeout /\ NoArp
          /\ UNCHANGED <<asked, granted>>
      BY <1>2, Codes DEF Requesting
    <2>2. /\ ucDHCP_state' = "BOUND" /\ TimerType'
          /\ ulLeaseTime' \in 0..TimeMod-1 /\ ulRebindingTime' \in 0..TimeMod-1
          /\ ulRenewalTime' \in 0..TimeMod-1
          /\ ucServerResponses' = {} /\ UNCHANGED <<ucOurIP, ucDHCP_IP>>
      <3> DEFINE t == Stored
      <3>1. /\ t.lease \in 0..TimeMod-1 /\ t.t1 \in 0..TimeMod-1 /\ t.t2 \in 0..TimeMod-1
            /\ BeginLease(t) /\ TimerType
        BY <2>1 DEF ClientTypes, Stored
      <3> HIDE DEF t
      <3> QED
        BY <3>1, AnyLease
    <2>3. timeout # 0 /\ ArpTouched
      BY <2>1, NotSent, Numbers
    <2> QED
      BY <2>1, <2>2, <2>3 DEF ClientTypes, ArpTouched, States, Bound
  <1>3. CASE event \notin {E_DHCP_COLLISION, E_DHCP_BIND_NOW}
    <2>1. Repeat("REQUEST", state, timeout, E_REQUEST_TIMEOUT)
      BY <1>3 DEF Requesting
    <2> QED
      BY <2>1, RepeatTypes, Codes
  <1> QED
    BY <1>1, <1>2, <1>3

LEMMA UntouchedTypes ==
    ASSUME ClientTypes, Ignore
    PROVE  ClientTypes' /\ ArpTouched
  <1>1. TimerType' /\ ArpTouched
    BY TimerSame, NotSent DEF ClientTypes, Ignore
  <1> QED
    BY <1>1 DEF ClientTypes, Ignore, times, ArpTouched

LEMMA BoundTypes ==
    ASSUME ClientTypes, ucDHCP_state = "BOUND", NEW event \in Events, InBound(event)
    PROVE  ClientTypes' /\ ArpTouched
  <1>1. UNCHANGED <<DHCPTimeout, ulLeaseTime, ucServerResponses, ucOurIP, ucDHCP_IP,
                    granted, up>>
    BY DEF InBound
  <1>2. ulRebindingTime \div 2 \in 0..TimeMod-1
    BY Numbers DEF ClientTypes
  <1>3. CASE ulRenewalTime # 0
    <2>1. /\ RunTimer(ulRenewalTime, event) /\ NoArp
          /\ UNCHANGED <<ucDHCP_state, asked, ulRebindingTime>>
      BY <1>3 DEF InBound
    <2>2. TimerType' /\ ulRenewalTime' \in 0..TimeMod-1 /\ ArpTouched
      BY <2>1, AnyTimer, NotSent DEF ClientTypes
    <2> QED
      BY <1>1, <2>1, <2>2 DEF ClientTypes, ArpTouched
  <1>4. CASE ulRenewalTime = 0 /\ event = E_RENEW_NOW
    <2>1. /\ ucDHCP_state' = "RENEWING" /\ fnSendDHCP("REQUEST", "RENEWING")
          /\ ulRebindingTime' = ulRebindingTime \div 2
          /\ StartRenewal(ulRebindingTime \div 2)
      BY <1>4 DEF InBound
    <2>2. TimerType' /\ ulRenewalTime' \in 0..TimeMod-1
      BY <1>2, <2>1, AnyRenewal DEF ClientTypes
    <2>3. ArpTouched /\ asked' \in {"nothing", "DISCOVER", "REQUEST"}
      BY <2>1, Sent
    <2> QED
      BY <1>1, <1>2, <2>1, <2>2, <2>3 DEF ClientTypes, ArpTouched, States, Bound
  <1>5. CASE ulRenewalTime = 0 /\ event # E_RENEW_NOW
    <2>1. /\ NoArp
          /\ UNCHANGED <<ucDHCP_state, asked, kernelVars, ulRebindingTime, ulRenewalTime>>
      BY <1>5 DEF InBound
    <2>2. TimerType' /\ ArpTouched
      BY <2>1, TimerSame, NotSent DEF ClientTypes
    <2> QED
      BY <1>1, <2>1, <2>2 DEF ClientTypes, ArpTouched
  <1> QED
    BY <1>3, <1>4, <1>5

LEMMA GoOnTypes ==
    ASSUME ClientTypes, NEW event \in Events, GoOn(event)
    PROVE  ClientTypes' /\ ArpTouched
  <1>1. /\ RunTimer(ulRenewalTime, event) /\ NoArp
        /\ UNCHANGED <<ucDHCP_state, DHCPTimeout, ulLeaseTime, ulRebindingTime,
                       ucServerResponses, ucOurIP, ucDHCP_IP, asked, granted, up>>
    BY DEF GoOn
  <1>2. TimerType' /\ ulRenewalTime' \in 0..TimeMod-1 /\ ArpTouched
    BY <1>1, AnyTimer, NotSent DEF ClientTypes
  <1> QED
    BY <1>1, <1>2 DEF ClientTypes, ArpTouched

LEMMA RenewAgainTypes ==
    ASSUME ClientTypes, ucDHCP_state = "RENEWING", RenewAgain
    PROVE  ClientTypes' /\ ArpTouched
  <1> DEFINE half == ulRebindingTime \div 2
  <1>1. /\ ulRebindingTime' = half
        /\ fnSendDHCP("REQUEST", ucDHCP_state')
        /\ UNCHANGED <<DHCPTimeout, ucServerResponses, ucOurIP, ucDHCP_IP, granted, up>>
    BY DEF RenewAgain
  <1>2. half \in 0..TimeMod-1 /\ ulLeaseTime \div 2 \in 0..TimeMod-1
    BY Numbers DEF ClientTypes
  <1>3. ArpTouched /\ asked' \in {"nothing", "DISCOVER", "REQUEST"}
    BY <1>1, Sent
  <1>4. CASE half < MIN_RETRANSMIT
    <2>1. /\ ucDHCP_state' = "REBINDING" /\ ulLeaseTime' = ulLeaseTime \div 2
          /\ RunTimer(ulLeaseTime \div 2, E_REBIND_NOW)
      BY <1>4 DEF RenewAgain
    <2>2. TimerType' /\ ulRenewalTime' \in 0..TimeMod-1
      BY <1>2, <2>1, AnyTimer, Codes DEF ClientTypes
    <2> QED
      BY <1>1, <1>2, <1>3, <2>1, <2>2 DEF ClientTypes, ArpTouched, States, Bound
  <1>5. CASE ~(half < MIN_RETRANSMIT)
    <2>1. StartRenewal(half) /\ ucDHCP_state' = "RENEWING" /\ ulLeaseTime' = ulLeaseTime
      BY <1>5 DEF RenewAgain
    <2>2. TimerType' /\ ulRenewalTime' \in 0..TimeMod-1
      BY <1>2, <2>1, AnyRenewal DEF ClientTypes
    <2> QED
      BY <1>1, <1>2, <1>3, <2>1, <2>2 DEF ClientTypes, ArpTouched, States, Bound
  <1> QED
    BY <1>4, <1>5

LEMMA RebindAgainTypes ==
    ASSUME ClientTypes, ucDHCP_state = "REBINDING", RebindAgain
    PROVE  ClientTypes' /\ ArpTouched
  <1> DEFINE half == ulLeaseTime \div 2
  <1>1. half \in 0..TimeMod-1
    BY Numbers DEF ClientTypes
  <1>2. CASE half < MIN_RETRANSMIT
    <2>1. /\ ucDHCP_state' = "INIT" /\ ulLeaseTime' = half /\ ulRenewalTime' = half
          /\ ucOurIP' = FALSE /\ granted' = 0 /\ up' = FALSE
          /\ fnRandomise(RESTART_DELAY, E_START_DHCP) /\ NoArp
          /\ UNCHANGED <<DHCPTimeout, ulRebindingTime, ucServerResponses, ucDHCP_IP, asked>>
      BY <1>2 DEF RebindAgain
    <2>2. TimerType' /\ ArpTouched
      BY <2>1, AnyRandom, NotSent, Codes DEF ClientTypes
    <2>3. granted' \in 0..TimeMod-1
      BY <2>1, Numbers
    <2> QED
      BY <1>1, <2>1, <2>2, <2>3 DEF ClientTypes, ArpTouched, States, Asking, Bound
  <1>3. CASE ~(half < MIN_RETRANSMIT)
    <2>1. /\ ulLeaseTime' = half /\ RunTimer(half, E_REBIND_NOW)
          /\ fnSendDHCP("REQUEST", "REBINDING")
          /\ UNCHANGED <<ucDHCP_state, DHCPTimeout, ulRebindingTime,
                         ucServerResponses, ucOurIP, ucDHCP_IP, granted, up>>
      BY <1>3 DEF RebindAgain
    <2>2. TimerType' /\ ulRenewalTime' \in 0..TimeMod-1
      BY <1>1, <2>1, AnyTimer, Codes DEF ClientTypes
    <2>3. ArpTouched /\ asked' \in {"nothing", "DISCOVER", "REQUEST"}
      BY <2>1, Sent
    <2> QED
      BY <1>1, <2>1, <2>2, <2>3 DEF ClientTypes, ArpTouched
  <1> QED
    BY <1>2, <1>3

LEMMA EventTypes ==
    ASSUME ClientTypes, NEW event \in Events, fnStateEventDHCP(event)
    PROVE  ClientTypes' /\ ArpTouched
  <1>1. /\ ucDHCP_state \in States /\ FIRST_TIMEOUT \in FIRST_TIMEOUT..LAST_TIMEOUT
        /\ ucDHCP_state \in Asking \cup {"SELECTING"} =>
               DHCPTimeout \in FIRST_TIMEOUT..LAST_TIMEOUT
    BY Numbers DEF ClientTypes
  <1>2. CASE ucDHCP_state \in Asking \cup {"INIT_REBOOT"}
    <2>1. PICK state \in States, timeout \in FIRST_TIMEOUT..LAST_TIMEOUT :
              Requesting(event, state, timeout)
      BY <1>1, <1>2 DEF fnStateEventDHCP, Asking, States
    <2> QED
      BY <2>1, RequestingTypes
  <1>3. CASE ucDHCP_state \in {"INIT", "SELECTING"}
    <2>1. PICK timeout \in FIRST_TIMEOUT..LAST_TIMEOUT :
              Repeat("DISCOVER", "SELECTING", timeout, E_DISCOVER_TIMEOUT)
      BY <1>1, <1>3 DEF fnStateEventDHCP, Selecting
    <2>2. "SELECTING" \in States /\ E_DISCOVER_TIMEOUT \in Events
      BY Codes DEF States
    <2> QED
      BY <2>1, <2>2, RepeatTypes
  <1>4. CASE ucDHCP_state = "BOUND"
    BY <1>4, BoundTypes DEF fnStateEventDHCP
  <1>5. CASE ucDHCP_state = "RENEWING"
    <2>1. GoOn(event) \/ RenewAgain \/ Ignore
      BY <1>5 DEF fnStateEventDHCP, InRenewing
    <2> QED
      BY <1>5, <2>1, GoOnTypes, RenewAgainTypes, UntouchedTypes
  <1>6. CASE ucDHCP_state = "REBINDING"
    <2>1. GoOn(event) \/ RebindAgain \/ Ignore
      BY <1>6 DEF fnStateEventDHCP, InRebinding
    <2> QED
      BY <1>6, <2>1, GoOnTypes, RebindAgainTypes, UntouchedTypes
  <1>7. CASE ucDHCP_state = "DHCP_INIT"
    BY <1>7, UntouchedTypes DEF fnStateEventDHCP
  <1> QED
    BY <1>1, <1>2, <1>3, <1>4, <1>5, <1>6, <1>7 DEF States, Bound, Asking

LEMMA BaseHandleMessage ==
    ASSUME Base, HandleMessage
    PROVE  Base'
  <1>1. /\ handling /\ queue # <<>> /\ queue' = Tail(queue) /\ UNCHANGED <<handling, history>>
        /\ queue \in Seq(Events \cup ArpResults)
    BY DEF HandleMessage, Base
  <1>2. Head(queue) \in Events \cup ArpResults /\ queue' \in Seq(Events \cup ArpResults)
    BY <1>1
  <1>3. ClientTypes' /\ ArpTouched
    <2>1. CASE Head(queue) = ARP_RESOLUTION_SUCCESS /\ ucResendAfterArp
      <3>1. Resend
        BY <2>1, Codes DEF HandleMessage
      <3>2. TimerType' /\ ArpTouched
        BY <3>1, TimerSame, NotSent DEF Base, ClientTypes, Resend
      <3> QED
        BY <3>1, <3>2 DEF Base, ClientTypes, Resend, times, ArpTouched
    <2>2. CASE ~(Head(queue) = ARP_RESOLUTION_SUCCESS /\ ucResendAfterArp)
      <3>1. PICK event \in Events : fnStateEventDHCP(event)
        <4>1. E_DHCP_COLLISION \in Events /\ E_DHCP_BIND_NOW \in Events
          BY DEF Events
        <4> QED
          BY <1>2, <2>2, <4>1, Codes DEF HandleMessage
      <3> QED
        BY <3>1, EventTypes DEF Base
    <2> QED
      BY <2>1, <2>2
  <1>4. ucResendAfterArp' => probe' # "none" \/ ResultQueued'
    <2>1. SUFFICES ASSUME ucResendAfterArp, ~FromArp, probe' = probe, probe = "none"
                   PROVE  ResultQueued'
      BY <1>3 DEF ArpTouched
    <2>2. Head(queue) \notin ArpResults
      BY <1>1, <2>1 DEF FromArp
    <2>3. PICK i \in DOMAIN queue : queue[i] \in ArpResults
      BY <2>1 DEF Base, ResultQueued
    <2>4. i # 1 /\ i \in 2..Len(queue)
      BY <1>1, <2>2, <2>3
    <2>5. i - 1 \in DOMAIN queue' /\ queue'[i - 1] = queue[i]
      BY <1>1, <2>4
    <2> QED
      BY <2>3, <2>5 DEF ResultQueued
  <1> QED
    BY <1>1, <1>2, <1>3, <1>4 DEF Base, history

(* The steps of others leave the queue to results of ARP.                  *)
LEMMA BaseSchedule ==
    ASSUME Base, uTaskerSchedule
    PROVE  Base'
  <1>1. /\ handling' = TRUE
        /\ UNCHANGED <<ucDHCP_state, DHCPTimeout, ulLeaseTime, ulRebindingTime,
                       ulRenewalTime, ucServerResponses, ucOurIP, ucDHCP_IP, asked,
                       ucResendAfterArp, probe, probed, granted, up, crossed, mistimed>>
    BY DEF uTaskerSchedule, times, arp, history
  <1>2. CASE Fired = 0
    <2>1. UNCHANGED kernelVars /\ UNCHANGED queue
      BY <1>2 DEF uTaskerSchedule, Fired
    <2>2. TimerType'
      BY <2>1, TimerSame DEF Base, ClientTypes
    <2> QED
      BY <1>1, <2>1, <2>2 DEF Base, ClientTypes, ResultQueued
  <1>3. CASE Fired # 0
    <2>1. queue' = Append(queue, Fired) /\ Kernel!HandOver(OWN_TASK)
      BY <1>3 DEF uTaskerSchedule, Fired
    <2>2. TimerType' /\ Fired \in Events
      BY <1>3, <2>1, TimerHandedOver, TimerScalars DEF Base, ClientTypes
    <2>3. /\ queue' \in Seq(Events \cup ArpResults)
          /\ ResultQueued => ResultQueued'
      BY <2>1, <2>2 DEF Base, ResultQueued
    <2> QED
      BY <1>1, <2>2, <2>3 DEF Base, ClientTypes
  <1> QED
    BY <1>2, <1>3

LEMMA BaseQueueIsRead ==
    ASSUME Base, QueueIsRead
    PROVE  Base'
  <1>1. /\ queue = <<>> /\ handling' = FALSE
        /\ UNCHANGED <<ucDHCP_state, DHCPTimeout, ulLeaseTime, ulRebindingTime,
                       ulRenewalTime, ucServerResponses, ucOurIP, ucDHCP_IP, asked,
                       queue, ucResendAfterArp, probe, probed, granted, up, crossed,
                       mistimed>>
        /\ UNCHANGED kernelVars
    BY DEF QueueIsRead, times, arp, history
  <1>2. TimerType'
    BY <1>1, TimerSame DEF Base, ClientTypes
  <1>3. \A i \in DOMAIN queue' : queue'[i] \in ArpResults
    BY <1>1
  <1>4. ResultQueued' <=> ResultQueued
    BY <1>1 DEF ResultQueued
  <1>5. ClientTypes'
    BY <1>1, <1>2 DEF Base, ClientTypes
  <1> QED
    BY <1>1, <1>3, <1>4, <1>5 DEF Base

LEMMA BaseArpEnds ==
    ASSUME Base, NEW result \in ArpResults, ArpEnds(result)
    PROVE  Base'
  <1>1. /\ ~handling /\ probe' = "none" /\ probed' = 0
        /\ queue' = Append(queue, result)
        /\ UNCHANGED <<ucDHCP_state, DHCPTimeout, ulLeaseTime, ulRebindingTime,
                       ulRenewalTime, ucServerResponses, ucOurIP, ucDHCP_IP, asked,
                       handling, ucResendAfterArp, granted, up, crossed, mistimed>>
        /\ UNCHANGED kernelVars
    BY DEF ArpEnds, times, history
  <1>2. TimerType' /\ 0 \in 0..PROBE_TIME
    BY <1>1, TimerSame, Numbers DEF Base, ClientTypes
  <1>3. /\ queue' \in Seq(Events \cup ArpResults)
        /\ \A i \in DOMAIN queue' : queue'[i] \in ArpResults
        /\ ResultQueued'
    BY <1>1 DEF Base, ResultQueued
  <1> QED
    BY <1>1, <1>2, <1>3 DEF Base, ClientTypes

LEMMA BaseTick ==
    ASSUME Base, fnRtmkSystemTick
    PROVE  Base'
  <1>1. /\ probe # "none" => probed < PROBE_TIME
        /\ granted' = IF granted \in {0, Infinite} THEN granted ELSE granted - 1
        /\ probed' = IF probe = "none" THEN 0 ELSE probed + 1
        /\ UNCHANGED <<ucDHCP_state, DHCPTimeout, ulLeaseTime, ulRebindingTime,
                       ulRenewalTime, ucServerResponses, ucOurIP, ucDHCP_IP, asked,
                       queue, handling, ucResendAfterArp, probe, up, crossed, mistimed>>
        /\ Kernel!Elapse
    BY DEF fnRtmkSystemTick, times, mail, history
  <1>2. TimerType'
    BY <1>1, TimerElapsed DEF Base, ClientTypes
  <1>3. granted' \in 0..TimeMod-1 /\ probed' \in 0..PROBE_TIME
    BY <1>1, Numbers DEF Base, ClientTypes, Infinite
  <1> QED
    BY <1>1, <1>2, <1>3 DEF Base, ClientTypes, ResultQueued

LEMMA BaseHearOffer ==
    ASSUME Base, NEW g \in Leases, HearOffer(g)
    PROVE  Base'
  <1>1. /\ UNCHANGED <<queue, handling>>
        /\ ucDHCP_state' = "REQUESTING" /\ ulLeaseTime' = g.lease /\ ucDHCP_IP' = TRUE
        /\ fnSendDHCP("REQUEST", "REQUESTING")
        /\ DHCPTimeout' = FIRST_TIMEOUT
        /\ fnRandomise(FIRST_TIMEOUT, E_REQUEST_TIMEOUT)
        /\ UNCHANGED <<ulRebindingTime, ulRenewalTime, ucServerResponses, ucOurIP,
                       granted, up, crossed, mistimed>>
        /\ ~handling
    BY DEF HearOffer, Reply, mail, history
  <1>2. /\ TimerType' /\ ulLeaseTime' \in 0..TimeMod-1
        /\ FIRST_TIMEOUT \in FIRST_TIMEOUT..LAST_TIMEOUT /\ FIRST_TIMEOUT # 0
    <2>1. FIRST_TIMEOUT \in FIRST_TIMEOUT..LAST_TIMEOUT /\ FIRST_TIMEOUT # 0
      BY Numbers
    <2> QED
      BY <1>1, <2>1, AnyRandom, Granted, Codes DEF Base, ClientTypes
  <1>3. ArpTouched /\ asked' \in {"nothing", "DISCOVER", "REQUEST"}
    BY <1>1, Sent DEF Base
  <1>4. ucResendAfterArp' => probe' # "none" \/ ResultQueued'
    BY <1>1, <1>3 DEF Base, ArpTouched, ResultQueued
  <1> QED
    BY <1>1, <1>2, <1>3, <1>4 DEF Base, ClientTypes, ArpTouched, States

LEMMA BaseHearAck ==
    ASSUME Base, NEW g \in Leases, HearAck(g)
    PROVE  Base'
  <1>1. /\ UNCHANGED <<queue, handling, DHCPTimeout>> /\ ~handling
        /\ granted' = g.lease /\ asked' = "nothing"
        /\ crossed' \in BOOLEAN /\ mistimed' \in BOOLEAN
    BY DEF HearAck, Reply, mail, Base
  <1>2. /\ g.lease \in 0..TimeMod-1
        /\ Received(g).t1 \in 0..TimeMod-1 /\ Received(g).t2 \in 0..TimeMod-1
        /\ Received(g).from \subseteq {"T1", "T2"} /\ Received(g).lease = g.lease
    BY Granted DEF Base, ClientTypes, Received
  <1>3. CASE /\ TakeAddress(g) /\ ucDHCP_state' \in Asking
             /\ ucDHCP_state \in Asking \cup Bound
    <2>1. /\ ulLeaseTime' = Received(g).lease
          /\ ulRenewalTime' = Received(g).t1 /\ ulRebindingTime' = Received(g).t2
          /\ ucServerResponses' = Received(g).from
          /\ Kernel!Stop(OWN_TASK)
          /\ ucOurIP' = ucDHCP_IP /\ probe' = "own" /\ probed' = 0
          /\ UNCHANGED <<ucResendAfterArp, ucDHCP_IP, up>>
      BY <1>3 DEF TakeAddress, fnCheckIPAddress
    <2>2. TimerType' /\ 0 \in 0..PROBE_TIME
      BY <2>1, TimerStopped, Numbers DEF Base, ClientTypes
    <2> QED
      BY <1>1, <1>2, <1>3, <2>1, <2>2 DEF Base, ClientTypes, States, Asking, Bound
  <1>4. CASE ucDHCP_state = "RENEWING" /\ BeginLease(Received(g)) /\ UNCHANGED <<arp, up>>
    <2>1. /\ ucDHCP_state' = "BOUND" /\ TimerType'
          /\ ulLeaseTime' \in 0..TimeMod-1 /\ ulRebindingTime' \in 0..TimeMod-1
          /\ ulRenewalTime' \in 0..TimeMod-1
          /\ ucServerResponses' = {} /\ UNCHANGED <<ucOurIP, ucDHCP_IP>>
      <3> DEFINE s == Received(g)
      <3>1. /\ s.lease \in 0..TimeMod-1 /\ s.t1 \in 0..TimeMod-1 /\ s.t2 \in 0..TimeMod-1
            /\ BeginLease(s) /\ TimerType
        BY <1>2, <1>4 DEF Base, ClientTypes
      <3> HIDE DEF s
      <3> QED
        BY <3>1, AnyLease
    <2>2. UNCHANGED <<ucResendAfterArp, probe, probed, up>>
      BY <1>4 DEF arp
    <2> QED
      BY <1>1, <1>2, <1>4, <2>1, <2>2
         DEF Base, ClientTypes, States, Bound, ResultQueued
  <1> QED
    BY <1>3, <1>4 DEF HearAck, Asking, Bound

LEMMA BaseHearNak ==
    ASSUME Base, HearNak
    PROVE  Base'
  <1>1. /\ ~handling /\ asked' = "nothing"
        /\ UNCHANGED <<queue, handling, DHCPTimeout, ucResendAfterArp, probe, probed, up,
                       crossed, mistimed>>
    BY DEF HearNak, Reply, mail, arp, history
  <1>2. CASE Restart
    <2>1. /\ ucDHCP_state' = "INIT" /\ ucOurIP' = FALSE /\ granted' = 0
          /\ fnRandomise(RESTART_DELAY, E_START_DHCP)
          /\ UNCHANGED <<ulLeaseTime, ulRebindingTime, ulRenewalTime, ucServerResponses,
                         ucDHCP_IP>>
      BY <1>2 DEF Restart, times
    <2>2. TimerType' /\ granted' \in 0..TimeMod-1
      BY <2>1, AnyRandom, Numbers, Codes DEF Base, ClientTypes
    <2> QED
      BY <1>1, <2>1, <2>2 DEF Base, ClientTypes, States, Asking, Bound, ResultQueued
  <1>3. CASE UNCHANGED <<ucDHCP_state, times, ucOurIP, ucDHCP_IP, kernelVars, granted>>
    <2>1. TimerType'
      BY <1>3, TimerSame DEF Base, ClientTypes
    <2> QED
      BY <1>1, <1>3, <2>1 DEF Base, ClientTypes, times, ResultQueued
  <1> QED
    BY <1>2, <1>3 DEF HearNak

LEMMA BaseStart ==
    ASSUME Base, NEW FORCE_INIT \in BOOLEAN, fnStartDHCP(FORCE_INIT)
    PROVE  Base'
  <1>1. /\ ~handling
        /\ ucDHCP_state' \in {"INIT_REBOOT", "INIT"}
        /\ ucDHCP_IP' \in BOOLEAN
        /\ ucOurIP' = FALSE /\ granted' = 0 /\ up' = FALSE
        /\ fnRandomise(FIRST_TIMEOUT, E_START_DHCP)
        /\ UNCHANGED <<DHCPTimeout, ulLeaseTime, ulRebindingTime, ulRenewalTime,
                       ucServerResponses, asked, queue, handling, ucResendAfterArp,
                       probe, probed>>
        /\ crossed' \in BOOLEAN /\ mistimed' \in BOOLEAN
    BY DEF fnStartDHCP, times, mail, arp, Base, ClientTypes
  <1>2. TimerType' /\ granted' \in 0..TimeMod-1
    <2>1. FIRST_TIMEOUT \in FIRST_TIMEOUT..LAST_TIMEOUT /\ 0 \in 0..TimeMod-1
      BY Numbers
    <2> QED
      BY <1>1, <2>1, AnyRandom, Codes DEF Base, ClientTypes
  <1> QED
    BY <1>1, <1>2 DEF Base, ClientTypes, States, Asking, Bound, ResultQueued

LEMMA BaseStop ==
    ASSUME Base, fnStopDHCP
    PROVE  Base'
  <1>1. /\ ~handling /\ Kernel!Stop(OWN_TASK) /\ ucDHCP_state' = "DHCP_INIT"
        /\ ucOurIP' = ucDHCP_IP /\ up' = FALSE
        /\ UNCHANGED <<DHCPTimeout, ulLeaseTime, ulRebindingTime, ulRenewalTime,
                       ucServerResponses, ucDHCP_IP, asked, queue, handling,
                       ucResendAfterArp, probe, probed, granted, crossed, mistimed>>
    BY DEF fnStopDHCP, times, mail, arp, history
  <1>2. TimerType'
    BY <1>1, TimerStopped DEF Base, ClientTypes
  <1> QED
    BY <1>1, <1>2 DEF Base, ClientTypes, States, Asking, Bound, ResultQueued

LEMMA BaseSame ==
    ASSUME Base, UNCHANGED vars
    PROVE  Base'
  <1>1. /\ UNCHANGED <<ucDHCP_state, DHCPTimeout, ulLeaseTime, ulRebindingTime,
                       ulRenewalTime, ucServerResponses, ucOurIP, ucDHCP_IP, asked,
                       queue, handling, ucResendAfterArp, probe, probed, granted, up,
                       crossed, mistimed>>
        /\ UNCHANGED kernelVars
    BY DEF vars, times, mail, arp, kernelVars, history
  <1>2. TimerType'
    BY <1>1, TimerSame DEF Base, ClientTypes
  <1> QED
    BY <1>1, <1>2 DEF Base, ClientTypes, ResultQueued

LEMMA NextBase ==
    ASSUME Base, [Next]_vars
    PROVE  Base'
  BY BaseSchedule, BaseHandleMessage, BaseQueueIsRead, BaseArpEnds, BaseTick,
     BaseHearOffer, BaseHearAck, BaseHearNak, BaseStart, BaseStop, BaseSame
     DEF Next, fnDHCP, Application

-----------------------------------------------------------------------------
(*                            The theorems                                 *)

(* As long as nothing out of the ordinary happens, and again from a clean  *)
(* start on, everything is where it should be.                             *)
Inv == Base /\ (Regular => IInv)

LEMMA InitIInv == Init => IInv
  <1> SUFFICES ASSUME Init PROVE IInv
    OBVIOUS
  <1>1. /\ TimerType /\ Left = 0 /\ Armed = 0 /\ Fired = 0
        /\ ucDHCP_state = "DHCP_INIT" /\ probe = "none" /\ ~ucResendAfterArp
    BY Numbers DEF Init, TimerType, Kernel!TimersTypeOK, Kernel!NON_EVENT, Left, Armed, Fired
  <1>2. queue = <<>> /\ Result = 0 /\ Event = 0 /\ <<>> \in Seq(Events \cup ArpResults)
    BY DEF Init, Result, ResultIn, Event, EventIn
  <1>3. ClientTypeOK
    <2>1. 0 \in 0..TimeMod-1 /\ 0 \in 0..PROBE_TIME
      BY Numbers
    <2> QED
      BY <1>1, <1>2, <2>1 DEF Init, ClientTypeOK, TimerType, States
  <1>4. MailOK
    BY <1>1, <1>2 DEF Init, MailOK, TimerType, Holding
  <1>5. ArpOK
    BY <1>1, <1>2 DEF ArpOK, Asking, Bound
  <1>6. TimerOK
    BY <1>1 DEF TimerOK
  <1>7. AddressOK
    BY <1>1 DEF Init, AddressOK, Asking, Bound
  <1>8. LeaseOK
    BY <1>1, Numbers DEF Init, LeaseOK, Asking, Bound
  <1> QED
    BY <1>3, <1>4, <1>5, <1>6, <1>7, <1>8 DEF IInv

LEMMA InitInv == Init => Inv
  <1> SUFFICES ASSUME Init PROVE Inv
    OBVIOUS
  <1>1. IInv
    BY InitIInv
  <1>2. ClientTypes
    BY <1>1, InvTypes, Numbers DEF Init, IInv, ClientTypeOK, MailOK, ArpOK, LeaseOK, ClientTypes
  <1>3. /\ queue \in Seq(Events \cup ArpResults)
        /\ \A i \in DOMAIN queue : queue[i] \in ArpResults
    BY DEF Init
  <1>4. Base
    BY <1>2, <1>3 DEF Init, Base
  <1> QED
    BY <1>1, <1>4 DEF Inv

LEMMA RegularStep ==
    ASSUME IInv, Regular', [Next]_vars, ~Application
    PROVE  IInv' /\ BoundAfterProbe
  <1>1. CASE uTaskerSchedule
    BY <1>1, ScheduleStep
  <1>2. CASE HandleMessage
    BY <1>2, HandleMessageStep
  <1>3. CASE QueueIsRead
    BY <1>3, QueueIsReadStep
  <1>4. CASE \E result \in ArpResults : ArpEnds(result)
    BY <1>4, ArpEndsStep
  <1>5. CASE fnRtmkSystemTick
    BY <1>5, TickStep
  <1>6. CASE \E g \in Leases : HearOffer(g)
    BY <1>6, HearOfferStep
  <1>7. CASE \E g \in Leases : HearAck(g)
    <2>1. PICK g \in Leases : HearAck(g)
      BY <1>7
    <2>2. ~ResultQueued /\ LongEnough(Received(g))
      BY <2>1 DEF HearAck, Regular
    <2> QED
      BY <2>1, <2>2, HearAckStep
  <1>8. CASE HearNak
    BY <1>8, HearNakStep
  <1>9. CASE UNCHANGED vars
    <2>1. /\ UNCHANGED <<ucDHCP_state, DHCPTimeout, ulLeaseTime, ulRebindingTime,
                         ulRenewalTime, ucServerResponses, ucOurIP, ucDHCP_IP, asked,
                         queue, handling, ucResendAfterArp, probe, probed, granted, up>>
          /\ UNCHANGED kernelVars
      BY <1>9 DEF vars, times, mail, arp, kernelVars
    <2>2. /\ TimerType' /\ Left' = Left /\ Armed' = Armed /\ Fired' = Fired
          /\ Result' = Result /\ Event' = Event
      BY <2>1, TimerSame, MailSame, InvTypes
    <2>3. ClientTypeOK' /\ MailOK'
      BY <2>1, <2>2 DEF IInv, ClientTypeOK, MailOK, TimerType
    <2>4. ArpOK' /\ TimerOK'
      BY <2>1, <2>2 DEF IInv, ArpOK, TimerOK, Expects, Quiet
    <2>5. AddressOK' /\ LeaseOK'
      BY <2>1, <2>2 DEF IInv, AddressOK, LeaseOK
    <2> QED
      BY <2>1, <2>3, <2>4, <2>5 DEF IInv, BoundAfterProbe, Bound
  <1> QED
    BY <1>1, <1>2, <1>3, <1>4, <1>5, <1>6, <1>7, <1>8, <1>9 DEF Next, fnDHCP

(* A client that was not regular is so again only after a clean start.     *)
LEMMA StaysIrregular ==
    ASSUME Regular', [Next]_vars,
           ~(\E FORCE_INIT \in BOOLEAN : fnStartDHCP(FORCE_INIT))
    PROVE  Regular
  <1>1. CASE \E g \in Leases : HearAck(g)
    BY <1>1 DEF HearAck, Regular
  <1>2. CASE ~(\E g \in Leases : HearAck(g))
    <2>1. UNCHANGED <<crossed, mistimed>>
      BY <1>2 DEF Next, fnDHCP, Application, uTaskerSchedule, HandleMessage, QueueIsRead,
                  ArpEnds, fnRtmkSystemTick, HearOffer, HearNak, fnStopDHCP, history, vars
    <2> QED
      BY <2>1 DEF Regular
  <1> QED
    BY <1>1, <1>2

(* A lease that begins leaves the client regular, unless it is a renewal.  *)
LEMMA BoundStaysRegular ==
    ASSUME [Next]_vars, Regular, ~Regular'
    PROVE  BoundAfterProbe
  <1>1. CASE \E g \in Leases : HearAck(g)
    BY <1>1 DEF HearAck, BoundAfterProbe, Bound
  <1>2. CASE \E FORCE_INIT \in BOOLEAN : fnStartDHCP(FORCE_INIT)
    BY <1>2 DEF fnStartDHCP, BoundAfterProbe
  <1>3. CASE /\ ~(\E g \in Leases : HearAck(g))
             /\ ~(\E FORCE_INIT \in BOOLEAN : fnStartDHCP(FORCE_INIT))
    <2>1. UNCHANGED <<crossed, mistimed>>
      BY <1>3 DEF Next, fnDHCP, Application, uTaskerSchedule, HandleMessage, QueueIsRead,
                  ArpEnds, fnRtmkSystemTick, HearOffer, HearNak, fnStopDHCP, history, vars
    <2> QED
      BY <2>1 DEF Regular
  <1> QED
    BY <1>1, <1>2, <1>3

LEMMA NextInv ==
    ASSUME Inv, [Next]_vars
    PROVE  Inv' /\ (Regular /\ Regular' => BoundAfterProbe)
  <1>1. Base'
    BY NextBase DEF Inv
  <1> SUFFICES ASSUME Regular'
               PROVE  IInv' /\ (Regular => BoundAfterProbe)
    BY <1>1 DEF Inv
  <1>2. CASE \E FORCE_INIT \in BOOLEAN : fnStartDHCP(FORCE_INIT)
    <2>1. PICK FORCE_INIT \in BOOLEAN : fnStartDHCP(FORCE_INIT)
      BY <1>2
    <2>2. /\ probe = "none" /\ ~ResultQueued
          /\ ~crossed \/ Fired = 0
          /\ ~mistimed \/ Fired = 0
      BY <2>1 DEF fnStartDHCP, Regular, Fired
    <2>3. Fired \in TimerEvs \cup {0}
      BY <2>2 DEF Inv, Regular, IInv, MailOK
    <2> QED
      BY <2>1, <2>2, <2>3, StartStep DEF Inv
  <1>3. CASE ~(\E FORCE_INIT \in BOOLEAN : fnStartDHCP(FORCE_INIT))
    <2>1. IInv
      BY <1>3, StaysIrregular DEF Inv
    <2> QED
      BY <1>3, <2>1, RegularStep, StopStep DEF Application
  <1> QED
    BY <1>2, <1>3

(* The lease of a client that has an address is never counted down to      *)
(* nothing before the client has given the address back.                   *)
LEMMA InvImplies ==
    ASSUME Inv
    PROVE  NeverStuck /\ LeaseKept
  <1> SUFFICES ASSUME Regular PROVE NeverStuck /\ LeaseKept
    BY DEF NeverStuck, LeaseKept
  <1>0. IInv
    BY DEF Inv
  <1>1. NeverStuck
    BY <1>0, MailHead DEF IInv, TimerOK, NeverStuck, Left, Fired
  <1>2. ucOurIP /\ ucDHCP_state # "DHCP_INIT" => granted > 0
    <2> SUFFICES ASSUME ucOurIP, ucDHCP_state # "DHCP_INIT" PROVE granted > 0
      OBVIOUS
    <2>1. CASE ucDHCP_state \in Asking
      BY <1>0, <2>1, InvTypes, Numbers DEF IInv, LeaseOK, GoodLease
    <2>2. CASE ucDHCP_state \in {"BOUND", "RENEWING"}
      BY <1>0, <2>2, InvTypes, Numbers DEF IInv, LeaseOK
    <2>3. CASE ucDHCP_state = "REBINDING"
      BY <1>0, <2>3, InvTypes, Numbers DEF IInv, LeaseOK
    <2> QED
      BY <1>0, <2>1, <2>2, <2>3, InvTypes DEF IInv, AddressOK, States, Bound, Asking
  <1> QED
    BY <1>0, <1>1, <1>2 DEF IInv, AddressOK, LeaseKept

(* The variables keep their types: the times of an ACK, their halves and   *)
(* their differences stay below 2^32, the delays within what the kernel    *)
(* timer can count.                                                        *)
THEOREM TypesHold == Spec => []TypeOK
  <1>1. Inv /\ [Next]_vars => Inv'
    BY NextInv
  <1>2. Inv => TypeOK
    BY BaseTypes DEF Inv
  <1> QED
    BY InitInv, <1>1, <1>2, PTL DEF Spec

(* A started client always waits for something that comes: a timer, a      *)
(* message or the end of an ARP request.  Only a crossed request or times  *)
(* that are not LongEnough leave it without, until a clean start.          *)
THEOREM StuckNever == Spec => []NeverStuck
  <1>1. Inv /\ [Next]_vars => Inv'
    BY NextInv
  <1>2. Inv => NeverStuck
    BY InvImplies
  <1> QED
    BY InitInv, <1>1, <1>2, PTL DEF Spec

(* An address is used only while its lease lasts, and the application is   *)
(* told of its loss, with the same two exceptions.                         *)
THEOREM LeaseIsKept == Spec => []LeaseKept
  <1>1. Inv /\ [Next]_vars => Inv'
    BY NextInv
  <1>2. Inv => LeaseKept
    BY InvImplies
  <1> QED
    BY InitInv, <1>1, <1>2, PTL DEF Spec

(* An address is bound only with the report of ARP that nobody has it,     *)
(* with the same two exceptions.                                           *)
THEOREM AddressIsProbed == Spec => BoundIsProbed
  <1> DEFINE Probed == Regular /\ ucDHCP_state \notin Bound /\ ucDHCP_state' = "BOUND" =>
                           /\ ucOurIP /\ granted > 0 /\ probe # "own"
                           /\ FromArp /\ Head(queue) = ARP_RESOLUTION_FAILED
  <1>1. Inv /\ [Next]_vars => Inv'
    BY NextInv
  <1>2. Inv /\ [Next]_vars => [Probed]_vars
    BY NextInv, BoundStaysRegular DEF BoundAfterProbe
  <1>3. Spec => [][Probed]_vars
    BY InitInv, <1>1, <1>2, PTL DEF Spec
  <1> QED
    BY <1>3, PTL DEF BoundIsProbed

=============================================================================
