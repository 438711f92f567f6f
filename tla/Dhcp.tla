-------------------------------- MODULE Dhcp --------------------------------
(***************************************************************************)
(* The DHCP client (stack/dhcp.c) on one network: the task, its listener,  *)
(* the calls of the application, and around them the servers and a network *)
(* that loses and delays.  Options as in the repository's configuration:   *)
(* RANDOM_NUMBER_GENERATOR, VERIFY_TIMERS, SUPPORT_RELAY_AGENT.            *)
(*                                                                         *)
(* Its timer is the kernel timer TaskTimers specifies.  The ARP cache is   *)
(* used to ask for the hardware address of the server and of our own       *)
(* address, to see whether it is taken.  What is relied on is what Arp     *)
(* shows: a request ends with one message to its task (TasksAreTold,       *)
(* RequestsEnd), unless the cache is emptied, which nobody else does here. *)
(*                                                                         *)
(* Time is counted in seconds.  Addresses are left out: one is known or    *)
(* not.                                                                    *)
(***************************************************************************)
EXTENDS Integers, Sequences

CONSTANTS
    Leases,            (* what an ACK may grant                            *)
    TimeMod,           (* 2^32: times are unsigned longs                   *)
    MAX_TIMER_DELAY,   (* the longest delay of a kernel timer              *)
    FIRST_TIMEOUT,     (* 4: seconds before a message is repeated          *)
    LAST_TIMEOUT,      (* 64: where the doubling of that time ends         *)
    RESTART_DELAY,     (* 11: seconds before a fresh start                 *)
    SPREAD,            (* the most seconds the random part adds to a time  *)
    MIN_RETRANSMIT,    (* 60: the shortest repetition when renewing        *)
    MARGIN,            (* 10: between T1, T2 and the end of the lease      *)
    PROBE_TIME         (* seconds an ARP request lasts at most             *)

OWN_TASK == "TASK_DHCP"

E_START_DHCP == 1
E_DISCOVER_TIMEOUT == 2
E_REQUEST_TIMEOUT == 3
E_DHCP_COLLISION == 4
E_DHCP_BIND_NOW == 5
E_RENEW_NOW == 8
E_REBIND_NOW == 11
Events == {E_START_DHCP, E_DISCOVER_TIMEOUT, E_REQUEST_TIMEOUT, E_DHCP_COLLISION,
           E_DHCP_BIND_NOW, E_RENEW_NOW, E_REBIND_NOW}

(* Told apart from events by the source of the message.                    *)
ARP_RESOLUTION_SUCCESS == 20
ARP_RESOLUTION_FAILED == 21
ArpResults == {ARP_RESOLUTION_SUCCESS, ARP_RESOLUTION_FAILED}

Infinite == TimeMod - 1

(* A server may grant any times; T1 and T2 are 0 when it leaves them out.   *)
ASSUME DhcpAssumption ==
    /\ TimeMod \in Nat \ {0}
    /\ PROBE_TIME \in Nat \ {0}
    /\ MARGIN \in Nat /\ MARGIN > 2 * PROBE_TIME + 1
    /\ \A g \in Leases : {g.lease, g.t1, g.t2} \subseteq 0..TimeMod-1
    /\ MAX_TIMER_DELAY \in Nat \ {0}
    /\ FIRST_TIMEOUT \in Nat /\ FIRST_TIMEOUT > PROBE_TIME + 1
    /\ LAST_TIMEOUT \in Nat /\ LAST_TIMEOUT >= FIRST_TIMEOUT
    /\ RESTART_DELAY \in Nat /\ RESTART_DELAY > PROBE_TIME + 1
    /\ SPREAD \in Nat
    /\ MIN_RETRANSMIT \in Nat /\ MIN_RETRANSMIT > PROBE_TIME

VARIABLES
    ucDHCP_state,
    DHCPTimeout,       (* the next time of repetition                      *)
    ulLeaseTime,       (* from T2 to the end of the granted, once bound      *)
    ulRebindingTime,   (* from T1 to T2                                    *)
    ulRenewalTime,     (* what is still to come behind the kernel timer    *)
    ucServerResponses, (* has the server sent T1 and T2?                   *)
    ucResendAfterArp,  (* is a request to be sent after resolution?        *)
    ucOurIP, ucDHCP_IP,(* have we an address, and one to ask for?          *)
    asked,             (* what our last message, by its XID, still awaits  *)
    left, period, armed, pending, (* the kernel timer, see TaskTimers      *)
    queue, handling,   (* the messages fnDHCP reads, and does it read?     *)
    probe, probed,     (* whose address ARP resolves for us, how long yet  *)
    granted,           (* seconds left of the lease that was granted       *)
    up,                (* was the application last told of an address?     *)
    crossed,           (* history: did a start or an ACK cross an ARP      *)
                       (* request whose result was then taken for another? *)
    mistimed           (* history: did a server grant times that wrap, or  *)
                       (* are too short, in fnCheckTimerValidity?          *)

kernelVars == <<left, period, armed, pending>>
times == <<ulLeaseTime, ulRebindingTime, ulRenewalTime, ucServerResponses>>
arp == <<ucResendAfterArp, probe, probed>>
mail == <<queue, handling>>
history == <<crossed, mistimed>>
vars == <<ucDHCP_state, DHCPTimeout, times, ucOurIP, ucDHCP_IP, asked, kernelVars,
          mail, arp, granted, up, history>>

Lower(a, b) == IF a < b THEN a ELSE b
Higher(a, b) == IF a < b THEN b ELSE a

LongestTimer ==
    Higher(MAX_TIMER_DELAY, Higher(LAST_TIMEOUT, RESTART_DELAY) + SPREAD)

Kernel == INSTANCE TaskTimers WITH
    Timers <- {OWN_TASK}, MaxDelay <- LongestTimer, TimerEvents <- Events

(* States in which we hold a lease.                                        *)
Bound == {"BOUND", "RENEWING", "REBINDING"}
States == Bound \cup {"DHCP_INIT", "INIT_REBOOT", "INIT", "REBOOTING",
                      "SELECTING", "REQUESTING"}

ClientTypeOK ==
    /\ ucDHCP_state \in States
    /\ DHCPTimeout \in Nat
    /\ {ulLeaseTime, ulRebindingTime, ulRenewalTime} \subseteq 0..TimeMod-1
    /\ ucServerResponses \subseteq {"T1", "T2"}
    /\ {ucResendAfterArp, ucOurIP, ucDHCP_IP, handling, up} \subseteq BOOLEAN
    /\ asked \in {"nothing", "DISCOVER", "REQUEST"}
    /\ Kernel!TimersTypeOK
    /\ queue \in Seq(Events \cup ArpResults)
    /\ probe \in {"none", "own", "server"}
    /\ probed \in 0..PROBE_TIME
    /\ granted \in Nat

TypeOK == ClientTypeOK /\ {crossed, mistimed} \subseteq BOOLEAN

Init ==
    /\ ucDHCP_state = "DHCP_INIT"
    /\ DHCPTimeout = 0
    /\ ulLeaseTime = 0 /\ ulRebindingTime = 0 /\ ulRenewalTime = 0
    /\ ucServerResponses = {}
    /\ ucResendAfterArp = FALSE
    /\ ucOurIP \in BOOLEAN /\ ucDHCP_IP = FALSE
    /\ asked = "nothing"
    /\ left = [k \in {OWN_TASK} |-> 0]
    /\ period = [k \in {OWN_TASK} |-> 0]
    /\ armed = [k \in {OWN_TASK} |-> 0]
    /\ pending = [k \in {OWN_TASK} |-> 0]
    /\ queue = <<>> /\ handling = FALSE
    /\ probe = "none" /\ probed = 0
    /\ granted = 0
    /\ up = FALSE
    /\ crossed = FALSE /\ mistimed = FALSE

-----------------------------------------------------------------------------
(*                         Timers and messages                             *)

Plus(a, b) == (a + b) % TimeMod
Minus(a, b) == (a - b) % TimeMod

(* A random part is taken from the time, a second at most, or added to it. *)
fnRandomise(time, event) ==
    \E d \in time-1..time+SPREAD : Kernel!Start(OWN_TASK, d, event)

(* Long times are cut into delays the kernel timer can count; with none    *)
(* left no timer is started.                                               *)
RunTimer(time, event) ==
    /\ ulRenewalTime' = time - Lower(time, MAX_TIMER_DELAY)
    /\ IF time = 0
       THEN UNCHANGED kernelVars
       ELSE Kernel!Start(OWN_TASK, Lower(time, MAX_TIMER_DELAY), event)

(* fnStartDHCPTimer(E_START_RENEWAL), which knows a lease without end.     *)
StartRenewal(time) ==
    IF time = Infinite THEN ulRenewalTime' = time /\ UNCHANGED kernelVars
                          ELSE RunTimer(time, E_RENEW_NOW)

(* Is fnDHCP handling a message of the ARP task?  Then nothing is left to  *)
(* be resent.                                                              *)
FromArp == handling /\ queue # <<>> /\ Head(queue) \in ArpResults
NoArp ==
    /\ ucResendAfterArp' = (ucResendAfterArp /\ ~FromArp)
    /\ UNCHANGED <<probe, probed>>

(* A message to all servers is sent.  One to our server is kept back while *)
(* its address is not in the ARP cache: no answer fits its XID.            *)
fnSendDHCP(message, state) ==
    \/ asked' = message /\ NoArp
    \/ /\ state \in {"BOUND", "RENEWING"}
       /\ asked' = "nothing"
       /\ ucResendAfterArp' = TRUE
       /\ probe' = "server"
       /\ probed' = IF probe = "none" THEN 0 ELSE probed

(* The address is taken for our own and asked for; the cache is emptied    *)
(* first, so that every earlier request ends unheard.                      *)
fnCheckIPAddress ==
    /\ Kernel!Stop(OWN_TASK)
    /\ ucOurIP' = ucDHCP_IP
    /\ probe' = "own" /\ probed' = 0
    /\ UNCHANGED ucResendAfterArp

(* The times as they are stored, and as they are with those of an ACK.     *)
Stored == [lease |-> ulLeaseTime, t1 |-> ulRenewalTime, t2 |-> ulRebindingTime,
           from |-> ucServerResponses]
Received(g) ==
    [lease |-> g.lease,
     t1 |-> IF g.t1 = 0 THEN ulRenewalTime ELSE g.t1,
     t2 |-> IF g.t2 = 0 THEN ulRebindingTime ELSE g.t2,
     from |-> ucServerResponses \cup {o \in {"T1", "T2"} :
                  IF o = "T1" THEN g.t1 # 0 ELSE g.t2 # 0}]

(* Faulty: a T2 close to the end of the lease is used.                     *)
RebindingUnchecked(s) ==
    IF "T2" \notin s.from \/ s.t2 = 0 THEN (s.lease \div 4) * 3 ELSE s.t2

(* fnCheckTimerValidity: the T1 and T2 of a server are used if realistic.  *)
Rebinding(s) ==
    IF "T2" \notin s.from \/ s.t2 = 0 \/ s.lease <= Plus(s.t2, MARGIN)
    THEN (s.lease \div 4) * 3
    ELSE s.t2
Renewal(s) ==
    IF "T1" \notin s.from \/ s.t1 = 0 \/ s.t1 >= Minus(Rebinding(s), MARGIN)
    THEN (Rebinding(s) \div 3) * 2
    ELSE s.t1

(* What the check can stand: a lease that leaves time for an ARP request   *)
(* in each of its parts, and a T2 with which neither the sum nor the       *)
(* difference of the check wraps.                                          *)
LongEnough(s) ==
    /\ s.lease \div 8 > PROBE_TIME /\ (s.lease \div 4) * 3 >= MARGIN
    /\ "T2" \in s.from /\ s.t2 # 0 =>
           s.t2 \div 6 > PROBE_TIME /\ MARGIN <= s.t2 /\ s.t2 + MARGIN < TimeMod

-----------------------------------------------------------------------------
(*                       The states of the client                          *)

(* Everything is begun again, without an address.                          *)
Restart ==
    /\ ucDHCP_state' = "INIT"
    /\ ucOurIP' = FALSE
    /\ granted' = 0
    /\ fnRandomise(RESTART_DELAY, E_START_DHCP)
    /\ UNCHANGED <<times, ucDHCP_IP>>

(* Faulty: the message is not sent again.                                  *)
RepeatOnce(message, state, timeout, event) ==
    /\ ucDHCP_state' = state
    /\ fnSendDHCP(message, state)
    /\ DHCPTimeout' = timeout
    /\ UNCHANGED <<times, ucOurIP, ucDHCP_IP, kernelVars, granted, up>>

(* The message is sent and repeated after a time that doubles.             *)
Repeat(message, state, timeout, event) ==
    /\ ucDHCP_state' = state
    /\ fnSendDHCP(message, state)
    /\ fnRandomise(timeout, event)
    /\ DHCPTimeout' = IF 2 * timeout > LAST_TIMEOUT THEN FIRST_TIMEOUT ELSE 2 * timeout
    /\ UNCHANGED <<times, ucOurIP, ucDHCP_IP, granted, up>>

(* Faulty: the time to T2 is counted twice.                                *)
BeginLeaseUncounted(s) ==
    /\ ucDHCP_state' = "BOUND"
    /\ ulLeaseTime' = s.lease
    /\ ulRebindingTime' = Minus(Rebinding(s), Renewal(s))
    /\ ucServerResponses' = {}
    /\ StartRenewal(Renewal(s))
    /\ UNCHANGED <<ucOurIP, ucDHCP_IP>>

(* The lease begins: its times are counted from each other.                *)
BeginLease(s) ==
    /\ ucDHCP_state' = "BOUND"
    /\ ulLeaseTime' = Minus(s.lease, Rebinding(s))
    /\ ulRebindingTime' = Minus(Rebinding(s), Renewal(s))
    /\ ucServerResponses' = {}
    /\ StartRenewal(Renewal(s))
    /\ UNCHANGED <<ucOurIP, ucDHCP_IP>>

(* REQUESTING, and what REBOOTING falls through to.                        *)
Requesting(event, state, timeout) ==
    CASE event = E_DHCP_COLLISION ->
            /\ Restart
            /\ asked' = "nothing" /\ up' = FALSE
            /\ DHCPTimeout' = timeout
            /\ NoArp
      [] event = E_DHCP_BIND_NOW ->
            /\ BeginLease(Stored)
            /\ up' = TRUE
            /\ DHCPTimeout' = timeout
            /\ NoArp
            /\ UNCHANGED <<asked, granted>>
      [] OTHER -> Repeat("REQUEST", state, timeout, E_REQUEST_TIMEOUT)

Selecting(timeout) == Repeat("DISCOVER", "SELECTING", timeout, E_DISCOVER_TIMEOUT)

(* The time to T1 may need several delays; any event goes on with it.      *)
InBound(event) ==
    /\ IF ulRenewalTime # 0
       THEN /\ RunTimer(ulRenewalTime, event)
            /\ NoArp
            /\ UNCHANGED <<ucDHCP_state, asked, ulRebindingTime>>
       ELSE IF event = E_RENEW_NOW
       THEN /\ ucDHCP_state' = "RENEWING"
            /\ fnSendDHCP("REQUEST", "RENEWING")
            /\ ulRebindingTime' = ulRebindingTime \div 2
            /\ StartRenewal(ulRebindingTime \div 2)
       ELSE /\ NoArp
            /\ UNCHANGED <<ucDHCP_state, asked, kernelVars, ulRebindingTime,
                           ulRenewalTime>>
    /\ UNCHANGED <<DHCPTimeout, ulLeaseTime, ucServerResponses, ucOurIP, ucDHCP_IP,
                   granted, up>>

(* What is left to T2 is halved until it is too short, then what is left   *)
(* of the lease.                                                           *)
RenewAgain ==
    LET half == ulRebindingTime \div 2
    IN  /\ ulRebindingTime' = half
        /\ IF half < MIN_RETRANSMIT
           THEN /\ ucDHCP_state' = "REBINDING"
                /\ ulLeaseTime' = ulLeaseTime \div 2
                /\ RunTimer(ulLeaseTime \div 2, E_REBIND_NOW)
           ELSE /\ StartRenewal(half)
                /\ UNCHANGED <<ucDHCP_state, ulLeaseTime>>
        /\ fnSendDHCP("REQUEST", ucDHCP_state')
        /\ UNCHANGED <<DHCPTimeout, ucServerResponses, ucOurIP, ucDHCP_IP, granted, up>>

(* A delay of a longer time has passed.                                    *)
GoOn(event) ==
    /\ RunTimer(ulRenewalTime, event)
    /\ NoArp
    /\ UNCHANGED <<ucDHCP_state, DHCPTimeout, ulLeaseTime, ulRebindingTime,
                   ucServerResponses, ucOurIP, ucDHCP_IP, asked, granted, up>>

Ignore ==
    /\ NoArp
    /\ UNCHANGED <<ucDHCP_state, DHCPTimeout, times, ucOurIP, ucDHCP_IP, asked,
                   kernelVars, granted, up>>

InRenewing(event) ==
    CASE event = E_RENEW_NOW /\ ulRenewalTime # 0 -> GoOn(event)
      [] event = E_RENEW_NOW /\ ulRenewalTime = 0 -> RenewAgain
      [] OTHER -> Ignore

(* The lease is used up: the address is given back in time.                *)
RebindAgain ==
    LET half == ulLeaseTime \div 2
    IN  IF half < MIN_RETRANSMIT
        THEN /\ ucDHCP_state' = "INIT"
             /\ ulLeaseTime' = half /\ ulRenewalTime' = half
             /\ ucOurIP' = FALSE
             /\ granted' = 0
             /\ fnRandomise(RESTART_DELAY, E_START_DHCP)
             /\ up' = FALSE
             /\ NoArp
             /\ UNCHANGED <<DHCPTimeout, ulRebindingTime, ucServerResponses,
                            ucDHCP_IP, asked>>
        ELSE /\ ulLeaseTime' = half
             /\ RunTimer(half, E_REBIND_NOW)
             /\ fnSendDHCP("REQUEST", "REBINDING")
             /\ UNCHANGED <<ucDHCP_state, DHCPTimeout, ulRebindingTime,
                            ucServerResponses, ucOurIP, ucDHCP_IP, granted, up>>

InRebinding(event) ==
    CASE event = E_REBIND_NOW /\ ulRenewalTime # 0 -> GoOn(event)
      [] event = E_REBIND_NOW /\ ulRenewalTime = 0 -> RebindAgain
      [] OTHER -> Ignore

(* Replies of a server are handled below, for each state.                  *)
fnStateEventDHCP(event) ==
    CASE ucDHCP_state = "INIT_REBOOT" -> Requesting(event, "REBOOTING", FIRST_TIMEOUT)
      [] ucDHCP_state = "REBOOTING" -> Requesting(event, "REBOOTING", DHCPTimeout)
      [] ucDHCP_state = "REQUESTING" -> Requesting(event, "REQUESTING", DHCPTimeout)
      [] ucDHCP_state = "INIT" -> Selecting(FIRST_TIMEOUT)
      [] ucDHCP_state = "SELECTING" -> Selecting(DHCPTimeout)
      [] ucDHCP_state = "BOUND" -> InBound(event)
      [] ucDHCP_state = "RENEWING" -> InRenewing(event)
      [] ucDHCP_state = "REBINDING" -> InRebinding(event)
      [] OTHER -> Ignore

-----------------------------------------------------------------------------
(*                 The task, its timer and the ARP task                    *)

(* The scheduler writes the event of the timer to the queue and calls the  *)
(* task, which reads until its queue is empty; nothing else runs meanwhile. *)
uTaskerSchedule ==
    /\ ~handling
    /\ pending[OWN_TASK] # 0 \/ queue # <<>>
    /\ handling' = TRUE
    /\ IF pending[OWN_TASK] = 0
       THEN UNCHANGED <<kernelVars, queue>>
       ELSE queue' = Append(queue, pending[OWN_TASK]) /\ Kernel!HandOver(OWN_TASK)
    /\ UNCHANGED <<ucDHCP_state, DHCPTimeout, times, ucOurIP, ucDHCP_IP, asked,
                   arp, granted, up, history>>

(* The address of the server has just been resolved.                       *)
Resend ==
    /\ asked' = "REQUEST"
    /\ NoArp
    /\ UNCHANGED <<ucDHCP_state, DHCPTimeout, times, ucOurIP, ucDHCP_IP,
                   kernelVars, granted, up>>

HandleMessage ==
    /\ handling
    /\ queue # <<>>
    /\ CASE Head(queue) = ARP_RESOLUTION_SUCCESS /\ ucResendAfterArp -> Resend
         [] Head(queue) = ARP_RESOLUTION_SUCCESS /\ ~ucResendAfterArp ->
                fnStateEventDHCP(E_DHCP_COLLISION)
         [] Head(queue) = ARP_RESOLUTION_FAILED -> fnStateEventDHCP(E_DHCP_BIND_NOW)
         [] OTHER -> fnStateEventDHCP(Head(queue))
    /\ queue' = Tail(queue)
    /\ UNCHANGED <<handling, history>>

QueueIsRead ==
    /\ handling
    /\ queue = <<>>
    /\ handling' = FALSE
    /\ UNCHANGED <<ucDHCP_state, DHCPTimeout, times, ucOurIP, ucDHCP_IP, asked,
                   kernelVars, queue, arp, granted, up, history>>

fnDHCP == HandleMessage \/ QueueIsRead

(* A request ends with a message to the task that asked: with an answer at *)
(* any time, without one after some.                                       *)
ArpEnds(result) ==
    /\ ~handling
    /\ probe # "none"
    /\ result = ARP_RESOLUTION_FAILED => probed > 0
    /\ probe' = "none" /\ probed' = 0
    /\ queue' = Append(queue, result)
    /\ UNCHANGED <<ucDHCP_state, DHCPTimeout, times, ucOurIP, ucDHCP_IP, asked,
                   kernelVars, handling, ucResendAfterArp, granted, up, history>>

(* A second passes; tasks are fast enough to handle what one brings.       *)
fnRtmkSystemTick ==
    /\ ~handling /\ queue = <<>> /\ pending[OWN_TASK] = 0
    /\ probe # "none" => probed < PROBE_TIME
    /\ Kernel!Elapse
    /\ granted' = IF granted \in {0, Infinite} THEN granted ELSE granted - 1
    /\ probed' = IF probe = "none" THEN 0 ELSE probed + 1
    /\ UNCHANGED <<ucDHCP_state, DHCPTimeout, times, ucOurIP, ucDHCP_IP, asked,
                   mail, ucResendAfterArp, probe, up, history>>

-----------------------------------------------------------------------------
(*                  Replies, in the task of the network                    *)

ResultQueued == \E i \in DOMAIN queue : queue[i] \in ArpResults

(* A reply must fit our last XID, which it uses up.                        *)
Reply(message) ==
    /\ ~handling
    /\ asked = message
    /\ UNCHANGED mail

HearOffer(g) ==
    /\ Reply("DISCOVER")
    /\ ucDHCP_state = "SELECTING"
    /\ ucDHCP_state' = "REQUESTING"
    /\ ulLeaseTime' = g.lease
    /\ ucDHCP_IP' = TRUE
    /\ fnSendDHCP("REQUEST", "REQUESTING")
    /\ DHCPTimeout' = FIRST_TIMEOUT
    /\ fnRandomise(FIRST_TIMEOUT, E_REQUEST_TIMEOUT)
    /\ UNCHANGED <<ulRebindingTime, ulRenewalTime, ucServerResponses, ucOurIP,
                   granted, up, history>>

(* The times are stored and the address is asked for before it is used.    *)
TakeAddress(g) ==
    /\ ulLeaseTime' = Received(g).lease
    /\ ulRenewalTime' = Received(g).t1
    /\ ulRebindingTime' = Received(g).t2
    /\ ucServerResponses' = Received(g).from
    /\ fnCheckIPAddress
    /\ UNCHANGED <<ucDHCP_IP, up>>

(* Faulty: an address that is confirmed after a start is not asked for.    *)
HearAckUnprobed(g) ==
    /\ Reply("REQUEST")
    /\ ucDHCP_state = "REBOOTING"
    /\ BeginLease(Received(g))
    /\ granted' = g.lease
    /\ asked' = "nothing"
    /\ UNCHANGED <<DHCPTimeout, arp, up, history>>

HearAck(g) ==
    /\ Reply("REQUEST")
    /\ \/ /\ ucDHCP_state \in {"REQUESTING", "REBOOTING"}
          /\ TakeAddress(g)
          /\ UNCHANGED ucDHCP_state
       \/ /\ ucDHCP_state = "REBINDING"
          /\ TakeAddress(g)
          /\ ucDHCP_state' = "REQUESTING"
       \/ /\ ucDHCP_state = "RENEWING"
          /\ BeginLease(Received(g))
          /\ UNCHANGED <<arp, up>>
    /\ granted' = g.lease
    /\ asked' = "nothing"
    /\ crossed' = (crossed \/ ResultQueued)
    /\ mistimed' = (mistimed \/ ~LongEnough(Received(g)))
    /\ UNCHANGED DHCPTimeout

(* Where a NAK has no effect the ACK of another server has none either.   *)
HearNak ==
    /\ Reply("REQUEST")
    /\ asked' = "nothing"
    /\ \/ /\ ucDHCP_state = "REBOOTING"
          /\ Restart
       \/ /\ ucDHCP_state # "REBOOTING"
          /\ UNCHANGED <<ucDHCP_state, times, ucOurIP, ucDHCP_IP, kernelVars, granted>>
    /\ UNCHANGED <<DHCPTimeout, arp, up, history>>

-----------------------------------------------------------------------------
(*                          The application                                *)

fnStartDHCP(FORCE_INIT) ==
    LET reboot == ~FORCE_INIT /\ ucOurIP
    IN  /\ ~handling
        /\ ucDHCP_state' = IF reboot THEN "INIT_REBOOT" ELSE "INIT"
        /\ ucDHCP_IP' = (reboot \/ ucDHCP_IP)
        /\ ucOurIP' = FALSE
        /\ granted' = 0
        /\ up' = FALSE
        /\ fnRandomise(FIRST_TIMEOUT, E_START_DHCP)
        /\ crossed' = (\/ probe # "none" \/ ResultQueued
                       \/ crossed /\ pending[OWN_TASK] # 0)
        /\ mistimed' = (mistimed /\ pending[OWN_TASK] # 0)
        /\ UNCHANGED <<DHCPTimeout, times, asked, mail, arp>>

fnStopDHCP ==
    /\ ~handling
    /\ Kernel!Stop(OWN_TASK)
    /\ ucDHCP_state' = "DHCP_INIT"
    /\ ucOurIP' = ucDHCP_IP
    /\ up' = FALSE
    /\ UNCHANGED <<DHCPTimeout, times, ucDHCP_IP, asked, mail, arp, granted,
                   history>>

Application == fnStopDHCP \/ \E FORCE_INIT \in BOOLEAN : fnStartDHCP(FORCE_INIT)

Next ==
    \/ uTaskerSchedule
    \/ fnDHCP
    \/ \E result \in ArpResults : ArpEnds(result)
    \/ fnRtmkSystemTick
    \/ \E g \in Leases : HearOffer(g) \/ HearAck(g)
    \/ HearNak
    \/ Application

Spec == Init /\ [][Next]_vars

(* The kernel calls the task, the tick interrupt comes, and a request to   *)
(* the ARP cache ends.                                                     *)
FairSpec ==
    /\ Spec
    /\ WF_vars(uTaskerSchedule) /\ WF_vars(fnDHCP) /\ WF_vars(fnRtmkSystemTick)
    /\ WF_vars(\E result \in ArpResults : ArpEnds(result))

(* A server answers at last, however many messages are lost before.        *)
ServedSpec ==
    /\ FairSpec
    /\ SF_vars(\E g \in Leases : HearOffer(g))
    /\ SF_vars(\E g \in Leases : HearAck(g))

-----------------------------------------------------------------------------
(*                              Properties                                 *)

(* Two things the client does not stand, until it is started again with    *)
(* nothing outstanding.  A start during an ARP request, or an ACK while its *)
(* result is queued: the result is taken for one of the new address.  And  *)
(* times that are not LongEnough: no timer for none, or a T2 taken for     *)
(* realistic because T2 + MARGIN or T2 - MARGIN wrapped.                   *)
Regular == ~crossed /\ ~mistimed

(* A client that was started always waits for something that will come: a  *)
(* timer, a message or the end of an ARP request.  fnCheckIPAddress stops  *)
(* the timer, and fnStartDHCPTimer starts none when no time is left.       *)
NeverStuck ==
    Regular /\ ucDHCP_state # "DHCP_INIT" =>
        left[OWN_TASK] # 0 \/ pending[OWN_TASK] # 0 \/ queue # <<>> \/ probe # "none"

(* An address is used as long as its lease lasts and no longer: the halved *)
(* times of RENEWING and REBINDING, cut into delays of the kernel timer,   *)
(* never add up to more than was granted, the time of the probe included;  *)
(* and the application that was told of an address is told of its loss.    *)
LeaseKept ==
    Regular =>
        /\ ucDHCP_state \in Bound => ucOurIP
        /\ up => ucOurIP /\ ucDHCP_state \in Bound \cup {"REQUESTING"}
        /\ ucOurIP /\ ucDHCP_state # "DHCP_INIT" => granted > 0

(* An address that was new, or had been in doubt, is bound when a server   *)
(* has granted it, no request for it is open any more, and ARP has just    *)
(* reported that nobody has it.                                            *)
BoundIsProbed ==
    [][Regular /\ ucDHCP_state \notin Bound /\ ucDHCP_state' = "BOUND" =>
           /\ ucOurIP /\ granted > 0 /\ probe # "own"
           /\ FromArp /\ Head(queue) = ARP_RESOLUTION_FAILED]_vars

(* With servers that answer at last, no refusal and no collision, a client *)
(* that is not stopped is bound again and again, unless an ACK has crossed *)
(* the result of a request.                                                *)
Undisturbed ==
    [][~(\/ HearNak \/ Application
         \/ ArpEnds(ARP_RESOLUTION_SUCCESS) /\ probe = "own")]_vars
Connects ==
    <>Undisturbed => []<>(crossed \/ ucDHCP_state \in Bound \cup {"DHCP_INIT"})
=============================================================================
