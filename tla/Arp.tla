-------------------------------- MODULE Arp ---------------------------------
(***************************************************************************)
(* The ARP cache (stack/arp.c): one network, one interface, no VLAN, RARP  *)
(* or IPv6.  Tasks ask for the hardware address of a host; an unknown one  *)
(* is requested, requested again at a fast rate while no answer comes, and *)
(* given up after ARP_MAXRETRY.  The task is told how its request ended.   *)
(* Resolved entries age at a slow rate, the gateway's is then resolved     *)
(* again.  Both rates share the one kernel timer of the ARP task, which is *)
(* the timer TaskTimers specifies.                                         *)
(*                                                                         *)
(* All of it runs in task context: frames are handled by the Ethernet      *)
(* task, requests are made by any task, timer events reach the ARP task    *)
(* in two steps (HandOver, then fnTaskArp).  The network may lose and      *)
(* delay anything: a frame of any host may be received at any time.        *)
(* Hardware addresses are left out: each is written with the step that     *)
(* resolves its entry.                                                     *)
(***************************************************************************)
EXTENDS Integers, FiniteSets

CONSTANTS
    Hosts,               (* addresses in our subnet                        *)
    ucDefGW,             (* the default gateway, one of them               *)
    Tasks,               (* tasks that ask for addresses                   *)
    ARP_TABLE_ENTRIES,   (* entries, the broadcast entry not counted       *)
    ARP_TIMEOUT,         (* periods a host's entry lives                   *)
    ARP_GATEWAY_TIMEOUT, (* periods the gateway's lives                    *)
    ARP_MAXRETRY,        (* times a request is repeated                    *)
    T_ARP_PERIOD,        (* ticks between refreshes of the cache           *)
    T_ARP_PENDING_PERIOD (* ticks between repetitions                      *)

OWN_TASK == "TASK_ARP"
E_ARP_CHECK == 1
E_ARP_PENDING_CHECK == 2

(* A destination outside our subnet, which is reached by the gateway.      *)
Far == "far"
NoHost == "none"
NoTask == "no task"

ASSUME ArpAssumption ==
    /\ ucDefGW \in Hosts
    /\ Hosts \cap {Far, NoHost} = {}
    /\ NoTask \notin Tasks
    /\ ARP_TABLE_ENTRIES \in Nat \ {0}
    /\ ARP_TIMEOUT \in Nat \ {0}
    /\ ARP_GATEWAY_TIMEOUT \in Nat \ {0}
    /\ ARP_MAXRETRY \in Nat \ {0}
    /\ T_ARP_PERIOD \in Nat \ {0}
    /\ T_ARP_PENDING_PERIOD \in Nat \ {0}

Entries == 1..ARP_TABLE_ENTRIES
MaxPeriod == IF T_ARP_PERIOD > T_ARP_PENDING_PERIOD THEN T_ARP_PERIOD
                                                   ELSE T_ARP_PENDING_PERIOD
MaxLife == IF ARP_TIMEOUT > ARP_GATEWAY_TIMEOUT THEN ARP_TIMEOUT
                                                ELSE ARP_GATEWAY_TIMEOUT

VARIABLES
    tARP,         (* the cache                                             *)
    left, period, armed, pending, (* the kernel timer, see TaskTimers      *)
    handling,     (* the event fnTaskArp has been called for, or 0         *)
    told,         (* output: the messages the last step has sent to tasks  *)
    requests,     (* history: who has asked for which host, as long as     *)
                  (* that resolution goes on                               *)
    askedLate     (* history: a request was made while the event of the    *)
                  (* slow rate waited, and the fast one has not begun since*)

kernelVars == <<left, period, armed, pending>>
history == <<requests, askedLate>>
vars == <<tARP, kernelVars, handling, told, history>>

Kernel == INSTANCE TaskTimers WITH
    Timers <- {OWN_TASK}, MaxDelay <- MaxPeriod,
    TimerEvents <- {E_ARP_CHECK, E_ARP_PENDING_CHECK}

(* The type and the state of an entry share ucState in the code.  The life *)
(* of an entry matters only when it is resolved, the rest of a free entry  *)
(* not at all, but for its owner, which is left behind.                    *)
ARP_FREE == "ARP_FREE"
ARP_RESOLVING == "ARP_RESOLVING"
ARP_RESOLVED == "ARP_RESOLVED"
ARP_TEMP_IP == "ARP_TEMP_IP"
ARP_FIXED_IP == "ARP_FIXED_IP"
ARP_PERMANENT_IP == "ARP_PERMANENT_IP"
Types == {ARP_TEMP_IP, ARP_FIXED_IP, ARP_PERMANENT_IP}

Entry == [state : {ARP_FREE, ARP_RESOLVING, ARP_RESOLVED}, type : Types,
          ucIP : Hosts \cup {NoHost}, ucTimeToLive : 0..MaxLife,
          ucRetries : 0..ARP_MAXRETRY, OwnerTask : Tasks \cup {NoTask}]
FreeEntry(owner) ==
    [state |-> ARP_FREE, type |-> ARP_TEMP_IP, ucIP |-> NoHost,
     ucTimeToLive |-> 0, ucRetries |-> 0, OwnerTask |-> owner]

ARP_RESOLUTION_SUCCESS == "ARP_RESOLUTION_SUCCESS"
ARP_RESOLUTION_FAILED == "ARP_RESOLUTION_FAILED"

TypeOK ==
    /\ tARP \in [Entries -> Entry]
    /\ Kernel!TimersTypeOK
    /\ handling \in {0, E_ARP_CHECK, E_ARP_PENDING_CHECK}
    /\ told \in SUBSET (Tasks \X Hosts \X
                          {ARP_RESOLUTION_SUCCESS, ARP_RESOLUTION_FAILED})
    /\ requests \in SUBSET (Tasks \X Hosts)
    /\ askedLate \in BOOLEAN

-----------------------------------------------------------------------------
InState(s) == {e \in Entries : tARP[e].state = s}
EntriesOf(ip) == {e \in Entries : tARP[e].state # ARP_FREE /\ tARP[e].ucIP = ip}

Message(entry, result) ==
    IF entry.OwnerTask = NoTask THEN {}
                                ELSE {<<entry.OwnerTask, entry.ucIP, result>>}

Init ==
    /\ tARP = [e \in Entries |-> FreeEntry(NoTask)]
    /\ left = [k \in {OWN_TASK} |-> T_ARP_PERIOD]
    /\ period = [k \in {OWN_TASK} |-> 0]
    /\ armed = [k \in {OWN_TASK} |-> E_ARP_CHECK]
    /\ pending = [k \in {OWN_TASK} |-> 0]
    /\ handling = 0
    /\ told = {}
    /\ requests = {}
    /\ askedLate = FALSE

StartTimer(event) ==
    Kernel!Start(OWN_TASK,
                 IF event = E_ARP_CHECK THEN T_ARP_PERIOD ELSE T_ARP_PENDING_PERIOD,
                 event)

fnTimeoutValue(type) ==
    CASE type = ARP_PERMANENT_IP -> 0
      [] type = ARP_FIXED_IP     -> ARP_GATEWAY_TIMEOUT
      [] OTHER                   -> ARP_TIMEOUT

(* Never a fixed or permanent entry, nor one that is being resolved.       *)
Flushable ==
    {e \in InState(ARP_RESOLVED) : tARP[e].type = ARP_TEMP_IP}

(* The first free entry or, if there is none, the oldest that may be       *)
(* flushed; there may be none.                                             *)
fnAddNewARP ==
    IF InState(ARP_FREE) # {}
    THEN {e \in InState(ARP_FREE) : \A f \in InState(ARP_FREE) : e <= f}
    ELSE {e \in Flushable :
             \A f \in Flushable :
                \/ tARP[e].ucTimeToLive < tARP[f].ucTimeToLive
                \/ /\ tARP[e].ucTimeToLive = tARP[f].ucTimeToLive
                   /\ e <= f}

(* The event the ARP task is to handle next, with the timer as it stands.  *)
NextEvent ==
    IF handling # 0 THEN handling
    ELSE IF pending[OWN_TASK] # 0 THEN pending[OWN_TASK]
    ELSE IF left[OWN_TASK] # 0 THEN armed[OWN_TASK] ELSE 0

Polled == InState(ARP_RESOLVING) # {} => NextEvent = E_ARP_PENDING_CHECK

(* What every action ends with: made are the requests it adds.             *)
Remember(made) ==
    /\ requests' = {r \in requests \cup made :
                       \E e \in Entries : /\ tARP'[e].state = ARP_RESOLVING
                                         /\ tARP'[e].ucIP = r[2]}
    /\ askedLate' = /\ askedLate \/ (made # {} /\ pending[OWN_TASK] = E_ARP_CHECK)
                    /\ ~Polled'

-----------------------------------------------------------------------------
(*                       Requests made by the tasks                        *)

(* Faulty: the timer is left at the slow rate.                             *)
ResolveUnpolled(type, ip, task) ==
    \E e \in fnAddNewARP :
        /\ tARP' = [tARP EXCEPT ![e] =
                      [state |-> ARP_RESOLVING, type |-> type, ucIP |-> ip,
                       ucTimeToLive |-> 0, ucRetries |-> ARP_MAXRETRY,
                       OwnerTask |-> task]]
        /\ UNCHANGED kernelVars

(* Without an entry to use nothing is done, and the task is not told.      *)
fnResolveAddress(type, ip, task) ==
    \E e \in fnAddNewARP :
        /\ tARP' = [tARP EXCEPT ![e] =
                      [state |-> ARP_RESOLVING, type |-> type, ucIP |-> ip,
                       ucTimeToLive |-> 0, ucRetries |-> ARP_MAXRETRY,
                       OwnerTask |-> task]]
        /\ StartTimer(E_ARP_PENDING_CHECK)

(* A search that finds its entry, resolved or not, changes nothing.        *)
fnGetIP_ARP(ip, task) ==
    /\ handling = 0
    /\ LET hop == IF ip = Far THEN ucDefGW ELSE ip
       IN  /\ EntriesOf(hop) = {}
           /\ fnResolveAddress(IF hop = ucDefGW THEN ARP_FIXED_IP ELSE ARP_TEMP_IP,
                               hop, task)
    /\ told' = {}
    /\ UNCHANGED handling
    /\ Remember({<<task, IF ip = Far THEN ucDefGW ELSE ip>>})

(* The cache is emptied; whoever waits for an answer is not told.          *)
fnDeleteArp ==
    /\ handling = 0
    /\ tARP' = [e \in Entries |-> FreeEntry(NoTask)]
    /\ told' = {}
    /\ UNCHANGED <<kernelVars, handling>>
    /\ Remember({})

-----------------------------------------------------------------------------
(*                           Received frames                               *)

(* Faulty: the owner of a request that is answered is forgotten.           *)
ResolveUntold(e, type) ==
    /\ tARP' = [tARP EXCEPT ![e].state = ARP_RESOLVED,
                            ![e].ucTimeToLive = fnTimeoutValue(type),
                            ![e].ucRetries = ARP_MAXRETRY,
                            ![e].OwnerTask = NoTask]
    /\ told' = {}

(* The entry is resolved, for as long as type says; a waiting owner is     *)
(* told, once.                                                             *)
Resolve(e, type) ==
    LET waited == tARP[e].state = ARP_RESOLVING
    IN  /\ tARP' = [tARP EXCEPT ![e].state = ARP_RESOLVED,
                                ![e].ucTimeToLive = fnTimeoutValue(type),
                                ![e].ucRetries = ARP_MAXRETRY,
                                ![e].OwnerTask = IF waited THEN NoTask ELSE @]
        /\ told' = IF waited THEN Message(tARP[e], ARP_RESOLUTION_SUCCESS) ELSE {}

(* Faulty: a known address is entered again.                               *)
AddAlways(ip, type) ==
    /\ \E e \in fnAddNewARP :
          tARP' = [tARP EXCEPT ![e] =
                     [@ EXCEPT !.state = ARP_RESOLVED, !.ucIP = ip, !.type = type,
                               !.ucTimeToLive = fnTimeoutValue(type),
                               !.ucRetries = ARP_MAXRETRY]]
    /\ told' = {}

(* A new address is entered as the gateway's or as type; one that is known *)
(* is refreshed with the life of type, whatever its entry is, unless type  *)
(* is permanent.                                                           *)
fnAddARP(ip, type) ==
    \/ /\ type # ARP_PERMANENT_IP
       /\ \E e \in EntriesOf(ip) : Resolve(e, type)
    \/ /\ EntriesOf(ip) = {}
       /\ LET kept == IF ip = ucDefGW THEN ARP_FIXED_IP ELSE type
          IN  \E e \in fnAddNewARP :
                 tARP' = [tARP EXCEPT ![e] =
                            [@ EXCEPT !.state = ARP_RESOLVED, !.ucIP = ip,
                                      !.type = kept,
                                      !.ucTimeToLive = fnTimeoutValue(kept),
                                      !.ucRetries = ARP_MAXRETRY]]
       /\ told' = {}

(* The application enters a host that is to stay.                          *)
EnterPermanent(ip) ==
    /\ handling = 0
    /\ fnAddARP(ip, ARP_PERMANENT_IP)
    /\ UNCHANGED <<kernelVars, handling>>
    /\ Remember({})

(* A request of a host, for us or for another, or an answer to another.    *)
HearHost(ip) ==
    /\ handling = 0
    /\ fnAddARP(ip, ARP_TEMP_IP)
    /\ UNCHANGED <<kernelVars, handling>>
    /\ Remember({})

(* An answer to us: only for a host that is in the cache.                  *)
fnHandleARP_response(ip) ==
    /\ handling = 0
    /\ \E e \in EntriesOf(ip) : Resolve(e, tARP[e].type)
    /\ UNCHANGED <<kernelVars, handling>>
    /\ Remember({})

-----------------------------------------------------------------------------
(*                             The ARP task                                *)

(* Bound on the delay of the scheduler: the ARP task handles an event      *)
(* before its timer, set again meanwhile, fires once more.                 *)
HandledInTime ==
    (pending[OWN_TASK] # 0 \/ handling # 0) => left[OWN_TASK] # 1

fnRtmkSystemTick ==
    /\ HandledInTime
    /\ Kernel!Elapse
    /\ told' = {}
    /\ UNCHANGED <<tARP, handling, history>>

uTaskerSchedule ==
    /\ handling = 0
    /\ Kernel!HandOver(OWN_TASK)
    /\ handling' = pending[OWN_TASK]
    /\ told' = {}
    /\ UNCHANGED <<tARP, history>>

(* A resolved entry is one period older; one that never expires has no     *)
(* life.  The gateway's is resolved again when its life ends.              *)
Expires(e) == tARP[e].state = ARP_RESOLVED /\ tARP[e].ucTimeToLive = 1
ReResolves(e) == Expires(e) /\ tARP[e].type = ARP_FIXED_IP /\ tARP[e].ucRetries > 1


Aged(e) ==
    CASE ReResolves(e) ->
            [tARP[e] EXCEPT !.state = ARP_RESOLVING, !.ucTimeToLive = 0,
                            !.ucRetries = @ - 1]
      [] Expires(e) /\ ~ReResolves(e) -> FreeEntry(tARP[e].OwnerTask)
      [] ~Expires(e) /\ tARP[e].state = ARP_RESOLVED
                     /\ tARP[e].ucTimeToLive # 0 ->
            [tARP[e] EXCEPT !.ucTimeToLive = @ - 1]
      [] OTHER -> tARP[e]

fnRefreshARP ==
    /\ tARP' = [e \in Entries |-> Aged(e)]
    /\ told' = {}
    /\ StartTimer(IF \E e \in Entries : ReResolves(e) THEN E_ARP_PENDING_CHECK
                                                      ELSE E_ARP_CHECK)

Retries(e) == tARP[e].state = ARP_RESOLVING /\ tARP[e].ucRetries # 0
GivenUp(e) == tARP[e].state = ARP_RESOLVING /\ tARP[e].ucRetries = 0

(* Faulty: a failed resolution puts the timer back to the slow rate.       *)
CheckPendingUntilFailure ==
    /\ tARP' = [e \in Entries |->
                   CASE Retries(e) -> [tARP[e] EXCEPT !.ucRetries = @ - 1]
                     [] GivenUp(e) -> FreeEntry(tARP[e].OwnerTask)
                     [] OTHER      -> tARP[e]]
    /\ told' = UNION {Message(tARP[e], ARP_RESOLUTION_FAILED) :
                         e \in {f \in Entries : GivenUp(f)}}
    /\ StartTimer(IF \E e \in Entries : GivenUp(e) THEN E_ARP_CHECK
                                                   ELSE E_ARP_PENDING_CHECK)

(* Faulty: the timer is not started again when no request is open.         *)
CheckPendingOnce ==
    /\ tARP' = [e \in Entries |->
                   CASE Retries(e) -> [tARP[e] EXCEPT !.ucRetries = @ - 1]
                     [] GivenUp(e) -> FreeEntry(tARP[e].OwnerTask)
                     [] OTHER      -> tARP[e]]
    /\ told' = UNION {Message(tARP[e], ARP_RESOLUTION_FAILED) :
                         e \in {f \in Entries : GivenUp(f)}}
    /\ IF \E e \in Entries : Retries(e) THEN StartTimer(E_ARP_PENDING_CHECK)
                                        ELSE UNCHANGED kernelVars

(* Open requests are repeated or given up; the fast rate goes on as long   *)
(* as there is one.                                                        *)
fnARP_check_pending ==
    /\ tARP' = [e \in Entries |->
                   CASE Retries(e) -> [tARP[e] EXCEPT !.ucRetries = @ - 1]
                     [] GivenUp(e) -> FreeEntry(tARP[e].OwnerTask)
                     [] OTHER      -> tARP[e]]
    /\ told' = UNION {Message(tARP[e], ARP_RESOLUTION_FAILED) :
                         e \in {f \in Entries : GivenUp(f)}}
    /\ StartTimer(IF \E e \in Entries : Retries(e) THEN E_ARP_PENDING_CHECK
                                                   ELSE E_ARP_CHECK)

fnTaskArp ==
    /\ \/ handling = E_ARP_CHECK /\ fnRefreshARP
       \/ handling = E_ARP_PENDING_CHECK /\ fnARP_check_pending
    /\ handling' = 0
    /\ Remember({})

Next ==
    \/ \E ip \in Hosts \cup {Far}, task \in Tasks : fnGetIP_ARP(ip, task)
    \/ fnDeleteArp
    \/ \E ip \in Hosts :
          \/ EnterPermanent(ip)
          \/ HearHost(ip)
          \/ fnHandleARP_response(ip)
    \/ fnRtmkSystemTick
    \/ uTaskerSchedule
    \/ fnTaskArp

Spec == Init /\ [][Next]_vars

(* The tick goes on and the ARP task is called for its events; no host is  *)
(* obliged to answer and no task to ask.                                   *)
FairSpec ==
    /\ Spec
    /\ WF_vars(fnRtmkSystemTick) /\ WF_vars(uTaskerSchedule) /\ WF_vars(fnTaskArp)

-----------------------------------------------------------------------------
(*                              Properties                                 *)

(* The timer that the two rates share is never lost.  As long as an        *)
(* address is being resolved it runs at the fast rate, at which requests   *)
(* are repeated and given up.  One step only takes it from there: a new    *)
(* request made while the event of the slow rate waits in the task table,  *)
(* whose refresh then starts the slow rate.                                *)
RequestsArePolled ==
    [][/\ NextEvent' # 0
       /\ Polled /\ ~Polled' =>
             /\ pending[OWN_TASK] = E_ARP_CHECK
             /\ \E ip \in Hosts \cup {Far}, task \in Tasks : fnGetIP_ARP(ip, task)]_vars

(* An address has one entry only, so that no task is given a stale one.    *)
OneEntryPerHost == \A ip \in Hosts : Cardinality(EntriesOf(ip)) <= 1

(* A request ends with one message to the task that made it, whatever     *)
(* ends it: an answer, a frame of the host to another, the last            *)
(* repetition; only emptying the cache ends it without.  And a task is     *)
(* told of nothing it has not asked for, but for one thing: when the       *)
(* gateway is resolved anew, whoever owned the entry last is told.         *)
TasksAreTold ==
    [][\A a \in Tasks \X Hosts :
          LET ends == a \in requests /\ a \notin requests'
              isTold == \E m \in told' : <<m[1], m[2]>> = a
          IN  /\ ends /\ ~fnDeleteArp => isTold
              /\ isTold => ends \/ (a[2] = ucDefGW /\ a \notin requests)]_vars

(* No request stays open for ever, unless other requests keep putting off  *)
(* the timer they share, or one was made while the event of the slow rate  *)
(* waited and the fast rate, lost then, has not been started again.        *)
RequestsEnd ==
    \A e \in Entries :
        \/ []<>(tARP[e].state # ARP_RESOLVING)
        \/ []<><<\E ip \in Hosts \cup {Far}, task \in Tasks :
                    fnGetIP_ARP(ip, task)>>_vars
        \/ <>[]askedLate

(* An entry of a host that is no longer heard of does not stay, unless     *)
(* requests keep the timer at the fast rate, at which nothing ages.        *)
SilentHostsAge ==
    \A ip \in Hosts :
        \/ []<>(\A e \in EntriesOf(ip) : \/ tARP[e].state # ARP_RESOLVED
                                         \/ tARP[e].ucTimeToLive = 0)
        \/ []<><<HearHost(ip) \/ fnHandleARP_response(ip)>>_vars
        \/ []<><<\E far \in Hosts \cup {Far}, task \in Tasks :
                    fnGetIP_ARP(far, task)>>_vars
=============================================================================
