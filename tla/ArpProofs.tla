------------------------------ MODULE ArpProofs ------------------------------
(***************************************************************************)
(* What is proved of the ARP cache for any number of entries, hosts and    *)
(* tasks and any life times, retries and periods: Arp under ArpAssumption. *)
(***************************************************************************)
EXTENDS Arp, FiniteSetTheorems, TLAPS

-----------------------------------------------------------------------------
(*                          The kernel timer                               *)

LEMMA Numbers ==
    /\ MaxPeriod \in Nat /\ T_ARP_PERIOD \in 1..MaxPeriod
    /\ T_ARP_PENDING_PERIOD \in 1..MaxPeriod
    /\ MaxLife \in Nat /\ ARP_TIMEOUT \in 0..MaxLife /\ ARP_GATEWAY_TIMEOUT \in 0..MaxLife
    /\ \A type : fnTimeoutValue(type) \in 0..MaxLife
    /\ ARP_MAXRETRY \in Nat \ {0}
  <1>1. /\ T_ARP_PERIOD \in Nat \ {0} /\ T_ARP_PENDING_PERIOD \in Nat \ {0}
        /\ ARP_TIMEOUT \in Nat \ {0} /\ ARP_GATEWAY_TIMEOUT \in Nat \ {0}
        /\ ARP_MAXRETRY \in Nat \ {0}
    BY ArpAssumption
  <1>2. /\ MaxPeriod \in Nat /\ T_ARP_PERIOD \in 1..MaxPeriod
        /\ T_ARP_PENDING_PERIOD \in 1..MaxPeriod
    BY <1>1 DEF MaxPeriod
  <1>3. /\ MaxLife \in Nat /\ ARP_TIMEOUT \in 0..MaxLife
        /\ ARP_GATEWAY_TIMEOUT \in 0..MaxLife
    BY <1>1 DEF MaxLife
  <1>4. \A type : fnTimeoutValue(type) \in 0..MaxLife
    BY <1>3 DEF fnTimeoutValue
  <1> QED
    BY <1>1, <1>2, <1>3, <1>4

(* What the steps of the kernel timer do to its four values.               *)
LEMMA KernelSteps ==
    ASSUME Kernel!TimersTypeOK
    PROVE  /\ \A event \in {E_ARP_CHECK, E_ARP_PENDING_CHECK} : StartTimer(event) =>
                 /\ Kernel!TimersTypeOK'
                 /\ left'[OWN_TASK] # 0 /\ armed'[OWN_TASK] = event
                 /\ UNCHANGED <<period, pending>>
           /\ Kernel!HandOver(OWN_TASK) =>
                 /\ Kernel!TimersTypeOK'
                 /\ pending[OWN_TASK] # 0 /\ pending'[OWN_TASK] = 0
                 /\ UNCHANGED <<left, period, armed>>
           /\ Kernel!Elapse =>
                 /\ Kernel!TimersTypeOK'
                 /\ left[OWN_TASK] \notin {0, 1} => left'[OWN_TASK] # 0
                 /\ left[OWN_TASK] = 0 => left'[OWN_TASK] = 0
                 /\ left[OWN_TASK] = 1 => left'[OWN_TASK] = period[OWN_TASK]
                 /\ pending'[OWN_TASK] = IF left[OWN_TASK] = 1
                                         THEN armed[OWN_TASK] ELSE pending[OWN_TASK]
                 /\ UNCHANGED <<period, armed>>
           /\ pending[OWN_TASK] \in {0, E_ARP_CHECK, E_ARP_PENDING_CHECK}
           /\ UNCHANGED kernelVars => Kernel!TimersTypeOK'
  <1>1. /\ left \in [{OWN_TASK} -> 0..MaxPeriod]
        /\ period \in [{OWN_TASK} -> 0..MaxPeriod]
        /\ armed \in [{OWN_TASK} -> {E_ARP_CHECK, E_ARP_PENDING_CHECK} \cup {0}]
        /\ pending \in [{OWN_TASK} -> {E_ARP_CHECK, E_ARP_PENDING_CHECK} \cup {0}]
        /\ MaxPeriod \in Nat
    BY Numbers DEF Kernel!TimersTypeOK, Kernel!NON_EVENT
  <1>2. ASSUME NEW event \in {E_ARP_CHECK, E_ARP_PENDING_CHECK}, StartTimer(event)
        PROVE  /\ Kernel!TimersTypeOK'
               /\ left'[OWN_TASK] # 0 /\ armed'[OWN_TASK] = event
               /\ UNCHANGED <<period, pending>>
    <2>1. PICK d \in 1..MaxPeriod : Kernel!Start(OWN_TASK, d, event)
      BY <1>2, Numbers DEF StartTimer
    <2>2. d # 0 /\ d \in 0..MaxPeriod
      BY <1>1
    <2>3. /\ left' = [left EXCEPT ![OWN_TASK] = d]
          /\ armed' = [armed EXCEPT ![OWN_TASK] = event]
          /\ UNCHANGED <<period, pending>>
      BY <2>1, <2>2 DEF Kernel!Start
    <2> QED
      BY <1>1, <2>2, <2>3 DEF Kernel!TimersTypeOK, Kernel!NON_EVENT
  <1>3. ASSUME Kernel!HandOver(OWN_TASK)
        PROVE  /\ Kernel!TimersTypeOK'
               /\ pending[OWN_TASK] # 0 /\ pending'[OWN_TASK] = 0
               /\ UNCHANGED <<left, period, armed>>
    BY <1>1, <1>3 DEF Kernel!HandOver, Kernel!TimersTypeOK, Kernel!NON_EVENT
  <1>4. ASSUME Kernel!Elapse
        PROVE  /\ Kernel!TimersTypeOK'
               /\ left[OWN_TASK] \notin {0, 1} => left'[OWN_TASK] # 0
               /\ left[OWN_TASK] = 0 => left'[OWN_TASK] = 0
               /\ left[OWN_TASK] = 1 => left'[OWN_TASK] = period[OWN_TASK]
               /\ pending'[OWN_TASK] = IF left[OWN_TASK] = 1
                                       THEN armed[OWN_TASK] ELSE pending[OWN_TASK]
               /\ UNCHANGED <<period, armed>>
    BY <1>1, <1>4 DEF Kernel!Elapse, Kernel!TimersTypeOK, Kernel!NON_EVENT
  <1>5. pending[OWN_TASK] \in {0, E_ARP_CHECK, E_ARP_PENDING_CHECK}
    BY <1>1
  <1>6. UNCHANGED kernelVars => Kernel!TimersTypeOK'
    BY DEF kernelVars, Kernel!TimersTypeOK
  <1> QED
    BY <1>2, <1>3, <1>4, <1>5, <1>6

-----------------------------------------------------------------------------
(*                   What an operation does to the cache                   *)

LEMMA EntryFields ==
    ASSUME NEW k \in Entry
    PROVE  /\ k.state \in {ARP_FREE, ARP_RESOLVING, ARP_RESOLVED} /\ k.type \in Types
           /\ k.ucIP \in Hosts \cup {NoHost} /\ k.ucTimeToLive \in 0..MaxLife
           /\ k.ucRetries \in 0..ARP_MAXRETRY /\ k.OwnerTask \in Tasks \cup {NoTask}
  BY DEF Entry

LEMMA FreeEntryType ==
    ASSUME NEW owner \in Tasks \cup {NoTask}
    PROVE  /\ FreeEntry(owner) \in Entry
           /\ FreeEntry(owner).state = ARP_FREE
  BY Numbers DEF FreeEntry, Entry, Types

(* Entries as they are written when resolved, and when newly entered.      *)
LEMMA ResolvedEntry ==
    ASSUME NEW k \in Entry, NEW type, NEW owner \in Tasks \cup {NoTask}
    PROVE  LET r == [k EXCEPT !.state = ARP_RESOLVED,
                              !.ucTimeToLive = fnTimeoutValue(type),
                              !.ucRetries = ARP_MAXRETRY, !.OwnerTask = owner]
           IN  r \in Entry /\ r.state = ARP_RESOLVED /\ r.ucIP = k.ucIP
  <1> DEFINE q == [k EXCEPT !.state = ARP_RESOLVED,
                            !.ucTimeToLive = fnTimeoutValue(type),
                            !.ucRetries = ARP_MAXRETRY]
             r == [q EXCEPT !.OwnerTask = owner]
  <1>1. fnTimeoutValue(type) \in 0..MaxLife /\ ARP_MAXRETRY \in 0..ARP_MAXRETRY
    BY Numbers
  <1>2. q \in Entry /\ q.state = ARP_RESOLVED /\ q.ucIP = k.ucIP
    BY <1>1 DEF Entry
  <1>3. [k EXCEPT !.state = ARP_RESOLVED, !.ucTimeToLive = fnTimeoutValue(type),
                  !.ucRetries = ARP_MAXRETRY, !.OwnerTask = owner] = r
    OBVIOUS
  <1> HIDE DEF q
  <1>4. r \in Entry /\ r.state = ARP_RESOLVED /\ r.ucIP = k.ucIP
    BY <1>2 DEF Entry
  <1> HIDE DEF r
  <1> QED
    BY <1>3, <1>4

Entered(k, ip, type) ==
    [k EXCEPT !.state = ARP_RESOLVED, !.ucIP = ip, !.type = type,
              !.ucTimeToLive = fnTimeoutValue(type), !.ucRetries = ARP_MAXRETRY]

LEMMA EnteredEntry ==
    ASSUME NEW k \in Entry, NEW ip \in Hosts, NEW type \in Types
    PROVE  /\ Entered(k, ip, type) \in Entry
           /\ Entered(k, ip, type).state = ARP_RESOLVED
           /\ Entered(k, ip, type).ucIP = ip
  <1> DEFINE q == [k EXCEPT !.state = ARP_RESOLVED, !.ucIP = ip, !.type = type]
             r == [q EXCEPT !.ucTimeToLive = fnTimeoutValue(type),
                            !.ucRetries = ARP_MAXRETRY]
  <1>1. fnTimeoutValue(type) \in 0..MaxLife /\ ARP_MAXRETRY \in 0..ARP_MAXRETRY
    BY Numbers
  <1>2. q \in Entry /\ q.state = ARP_RESOLVED /\ q.ucIP = ip
    BY DEF Entry
  <1>3. Entered(k, ip, type) = r
    BY DEF Entered
  <1> HIDE DEF q
  <1>4. r \in Entry /\ r.state = ARP_RESOLVED /\ r.ucIP = ip
    BY <1>1, <1>2 DEF Entry
  <1> HIDE DEF r
  <1> QED
    BY <1>3, <1>4

(* An entry that is taken is not one being resolved.                       *)
LEMMA TakenEntry ==
    ASSUME NEW x \in fnAddNewARP
    PROVE  x \in Entries /\ tARP[x].state # ARP_RESOLVING
  BY DEF fnAddNewARP, InState, Flushable, ARP_FREE, ARP_RESOLVING, ARP_RESOLVED

(* One entry is taken for a host that has none.                            *)
Takes(x, ip) ==
    /\ x \in Entries /\ tARP[x].state # ARP_RESOLVING
    /\ EntriesOf(ip) = {}
    /\ tARP' \in [Entries -> Entry]
    /\ tARP'[x].ucIP = ip
    /\ \A e \in Entries \ {x} : tARP'[e] = tARP[e]

LEMMA AskTakes ==
    ASSUME TypeOK, NEW ip \in Hosts \cup {Far}, NEW task \in Tasks, fnGetIP_ARP(ip, task)
    PROVE  /\ \E x \in Entries, hop \in Hosts : Takes(x, hop)
           /\ StartTimer(E_ARP_PENDING_CHECK)
           /\ told' = {} /\ handling' = handling /\ handling = 0
  <1> DEFINE hop == IF ip = Far THEN ucDefGW ELSE ip
             type == IF hop = ucDefGW THEN ARP_FIXED_IP ELSE ARP_TEMP_IP
  <1>1. hop \in Hosts /\ type \in Types
    BY ArpAssumption DEF Types
  <1>2. EntriesOf(hop) = {} /\ fnResolveAddress(type, hop, task)
    BY DEF fnGetIP_ARP
  <1> HIDE DEF hop, type
  <1>3. PICK x \in fnAddNewARP :
          /\ tARP' = [tARP EXCEPT ![x] =
                       [state |-> ARP_RESOLVING, type |-> type, ucIP |-> hop,
                        ucTimeToLive |-> 0, ucRetries |-> ARP_MAXRETRY,
                        OwnerTask |-> task]]
          /\ StartTimer(E_ARP_PENDING_CHECK)
    BY <1>2 DEF fnResolveAddress
  <1>4. [state |-> ARP_RESOLVING, type |-> type, ucIP |-> hop,
         ucTimeToLive |-> 0, ucRetries |-> ARP_MAXRETRY, OwnerTask |-> task] \in Entry
    BY <1>1, Numbers DEF Entry
  <1>5. Takes(x, hop)
    BY <1>2, <1>3, <1>4, TakenEntry DEF TypeOK, Takes
  <1> QED
    BY <1>1, <1>3, <1>5, TakenEntry DEF fnGetIP_ARP

(* A frame resolves an entry of its host, or the host is entered.          *)
Answers(e, type) == e \in Entries /\ tARP[e].state # ARP_FREE /\ Resolve(e, type)

LEMMA AddTakes ==
    ASSUME TypeOK, NEW ip \in Hosts, NEW type \in Types, fnAddARP(ip, type)
    PROVE  \/ \E e \in Entries : Answers(e, type)
           \/ (\E x \in Entries : Takes(x, ip) /\ tARP'[x].state = ARP_RESOLVED) /\ told' = {}
  <1>1. CASE \E e \in EntriesOf(ip) : Resolve(e, type)
    BY <1>1 DEF EntriesOf, Answers
  <1>2. CASE /\ EntriesOf(ip) = {}
             /\ LET kept == IF ip = ucDefGW THEN ARP_FIXED_IP ELSE type
                IN  \E e \in fnAddNewARP :
                       tARP' = [tARP EXCEPT ![e] =
                                  [@ EXCEPT !.state = ARP_RESOLVED, !.ucIP = ip,
                                            !.type = kept,
                                            !.ucTimeToLive = fnTimeoutValue(kept),
                                            !.ucRetries = ARP_MAXRETRY]]
             /\ told' = {}
    <2> DEFINE kept == IF ip = ucDefGW THEN ARP_FIXED_IP ELSE type
    <2>1. kept \in Types
      BY DEF Types
    <2> HIDE DEF kept
    <2>2. PICK x \in fnAddNewARP :
             tARP' = [tARP EXCEPT ![x] = Entered(tARP[x], ip, kept)]
      BY <1>2 DEF kept, Entered
    <2>3. x \in Entries /\ tARP[x] \in Entry /\ tARP \in [Entries -> Entry]
      BY TakenEntry DEF TypeOK
    <2> DEFINE r == Entered(tARP[x], ip, kept)
    <2>4. r \in Entry /\ r.ucIP = ip /\ r.state = ARP_RESOLVED
      BY <2>1, <2>3, EnteredEntry
    <2>5. tARP' = [tARP EXCEPT ![x] = r]
      BY <2>2
    <2> HIDE DEF r
    <2>6. Takes(x, ip) /\ tARP'[x].state = ARP_RESOLVED
      BY <1>2, <2>3, <2>4, <2>5, TakenEntry DEF Takes
    <2> QED
      BY <1>2, <2>3, <2>6
  <1> QED
    BY <1>1, <1>2 DEF fnAddARP

LEMMA AnswerEffect ==
    ASSUME TypeOK, NEW e \in Entries, NEW type \in Types, Answers(e, type)
    PROVE  /\ tARP' \in [Entries -> Entry]
           /\ \A f \in Entries \ {e} : tARP'[f] = tARP[f]
           /\ tARP'[e].state = ARP_RESOLVED /\ tARP'[e].ucIP = tARP[e].ucIP
           /\ told' = IF tARP[e].state = ARP_RESOLVING
                      THEN Message(tARP[e], ARP_RESOLUTION_SUCCESS) ELSE {}
  <1> DEFINE owner == IF tARP[e].state = ARP_RESOLVING THEN NoTask ELSE tARP[e].OwnerTask
             r == [tARP[e] EXCEPT !.state = ARP_RESOLVED,
                                  !.ucTimeToLive = fnTimeoutValue(type),
                                  !.ucRetries = ARP_MAXRETRY, !.OwnerTask = owner]
  <1>1. tARP \in [Entries -> Entry] /\ tARP[e] \in Entry
    BY DEF TypeOK
  <1>2. owner \in Tasks \cup {NoTask}
    BY <1>1, EntryFields
  <1>3. tARP' = [tARP EXCEPT ![e] = r]
    BY <1>1 DEF Answers, Resolve, Entry
  <1>4. r \in Entry /\ r.state = ARP_RESOLVED /\ r.ucIP = tARP[e].ucIP
    <2> HIDE DEF owner
    <2> QED
      BY <1>1, <1>2, ResolvedEntry
  <1>5. told' = IF tARP[e].state = ARP_RESOLVING
                THEN Message(tARP[e], ARP_RESOLUTION_SUCCESS) ELSE {}
    BY DEF Answers, Resolve
  <1> HIDE DEF r
  <1> QED
    BY <1>1, <1>3, <1>4, <1>5

(* A refresh of the cache, and a check of its open requests.               *)
LEMMA AgedEffect ==
    ASSUME TypeOK, NEW e \in Entries
    PROVE  /\ Aged(e) \in Entry
           /\ Aged(e).state # ARP_FREE => /\ tARP[e].state # ARP_FREE
                                         /\ Aged(e).ucIP = tARP[e].ucIP
           /\ tARP[e].state = ARP_RESOLVING => Aged(e) = tARP[e]
           /\ tARP[e].state # ARP_RESOLVING /\ Aged(e).state = ARP_RESOLVING => ReResolves(e)
  <1>1. /\ tARP[e] \in Entry /\ tARP[e].ucRetries \in 0..ARP_MAXRETRY
        /\ tARP[e].ucTimeToLive \in 0..MaxLife /\ ARP_MAXRETRY \in Nat /\ MaxLife \in Nat
        /\ tARP[e].OwnerTask \in Tasks \cup {NoTask}
        /\ ARP_FREE # ARP_RESOLVING /\ ARP_FREE # ARP_RESOLVED /\ ARP_RESOLVING # ARP_RESOLVED
    BY Numbers, EntryFields DEF TypeOK, ARP_FREE, ARP_RESOLVING, ARP_RESOLVED
  <1>2. CASE ReResolves(e)
    <2>1. tARP[e].ucRetries - 1 \in 0..ARP_MAXRETRY /\ 0 \in 0..MaxLife /\ Expires(e)
      BY <1>1, <1>2 DEF ReResolves
    <2>2. Aged(e) = [tARP[e] EXCEPT !.state = ARP_RESOLVING, !.ucTimeToLive = 0,
                                    !.ucRetries = tARP[e].ucRetries - 1]
      BY <1>2, <2>1 DEF Aged
    <2>3. Aged(e) \in Entry /\ Aged(e).ucIP = tARP[e].ucIP
      BY <1>1, <2>1, <2>2 DEF Entry
    <2> QED
      BY <1>1, <1>2, <2>3 DEF ReResolves, Expires
  <1>3. CASE Expires(e) /\ ~ReResolves(e)
    <2>1. Aged(e) = FreeEntry(tARP[e].OwnerTask)
      BY <1>3 DEF Aged
    <2> QED
      BY <1>1, <1>3, <2>1, FreeEntryType DEF Expires
  <1>4. CASE ~Expires(e) /\ tARP[e].state = ARP_RESOLVED /\ tARP[e].ucTimeToLive # 0
    <2>1. tARP[e].ucTimeToLive - 1 \in 0..MaxLife
      BY <1>1, <1>4
    <2>2. Aged(e) = [tARP[e] EXCEPT !.ucTimeToLive = tARP[e].ucTimeToLive - 1]
      BY <1>4 DEF Aged, ReResolves
    <2>3. Aged(e) \in Entry /\ Aged(e).ucIP = tARP[e].ucIP /\ Aged(e).state = tARP[e].state
      BY <1>1, <2>1, <2>2 DEF Entry
    <2> QED
      BY <1>1, <1>4, <2>3
  <1>5. CASE ~Expires(e) /\ ~(tARP[e].state = ARP_RESOLVED /\ tARP[e].ucTimeToLive # 0)
    <2>1. Aged(e) = tARP[e]
      BY <1>5 DEF Aged, ReResolves
    <2> QED
      BY <1>1, <2>1
  <1> QED
    BY <1>2, <1>3, <1>4, <1>5

LEMMA CheckEffect ==
    ASSUME TypeOK, fnARP_check_pending
    PROVE  /\ tARP' \in [Entries -> Entry]
           /\ \A e \in Entries :
                 /\ Retries(e) => /\ tARP'[e].state = ARP_RESOLVING
                                  /\ tARP'[e].ucIP = tARP[e].ucIP
                                  /\ tARP'[e].OwnerTask = tARP[e].OwnerTask
                 /\ GivenUp(e) => tARP'[e].state = ARP_FREE
                 /\ tARP[e].state # ARP_RESOLVING => tARP'[e] = tARP[e]
                 /\ tARP[e].state = ARP_RESOLVING => Retries(e) \/ GivenUp(e)
  <1>1. tARP' = [e \in Entries |->
                   CASE Retries(e) -> [tARP[e] EXCEPT !.ucRetries = @ - 1]
                     [] GivenUp(e) -> FreeEntry(tARP[e].OwnerTask)
                     [] OTHER      -> tARP[e]]
    BY DEF fnARP_check_pending
  <1>2. SUFFICES ASSUME NEW e \in Entries
                 PROVE  /\ tARP'[e] \in Entry
                        /\ Retries(e) => /\ tARP'[e].state = ARP_RESOLVING
                                         /\ tARP'[e].ucIP = tARP[e].ucIP
                                         /\ tARP'[e].OwnerTask = tARP[e].OwnerTask
                        /\ GivenUp(e) => tARP'[e].state = ARP_FREE
                        /\ tARP[e].state # ARP_RESOLVING => tARP'[e] = tARP[e]
                        /\ tARP[e].state = ARP_RESOLVING => Retries(e) \/ GivenUp(e)
    BY <1>1
  <1>3. /\ tARP[e] \in Entry /\ tARP[e].ucRetries \in 0..ARP_MAXRETRY /\ ARP_MAXRETRY \in Nat
        /\ tARP[e].OwnerTask \in Tasks \cup {NoTask}
    BY Numbers, EntryFields DEF TypeOK
  <1>4. CASE Retries(e)
    <2>1. tARP[e].ucRetries - 1 \in 0..ARP_MAXRETRY /\ tARP[e].state = ARP_RESOLVING
          /\ ~GivenUp(e)
      BY <1>3, <1>4 DEF Retries, GivenUp
    <2>2. tARP'[e] = [tARP[e] EXCEPT !.ucRetries = tARP[e].ucRetries - 1]
      BY <1>1, <1>4, <2>1
    <2>3. /\ tARP'[e] \in Entry /\ tARP'[e].state = tARP[e].state
          /\ tARP'[e].ucIP = tARP[e].ucIP /\ tARP'[e].OwnerTask = tARP[e].OwnerTask
      BY <1>3, <2>1, <2>2 DEF Entry
    <2> QED
      BY <1>4, <2>1, <2>3
  <1>5. CASE GivenUp(e)
    <2>1. tARP'[e] = FreeEntry(tARP[e].OwnerTask) /\ ~Retries(e)
      BY <1>1, <1>5 DEF Retries, GivenUp
    <2> QED
      BY <1>3, <1>5, <2>1, FreeEntryType DEF GivenUp
  <1>6. CASE tARP[e].state # ARP_RESOLVING
    <2>1. ~Retries(e) /\ ~GivenUp(e)
      BY <1>6 DEF Retries, GivenUp
    <2> QED
      BY <1>1, <1>3, <1>6, <2>1
  <1> QED
    BY <1>4, <1>5, <1>6 DEF Retries, GivenUp

-----------------------------------------------------------------------------
(*                           Type correctness                              *)

LEMMA TypeInit == Init => TypeOK
  <1> SUFFICES ASSUME Init PROVE TypeOK
    OBVIOUS
  <1>1. tARP \in [Entries -> Entry]
    BY FreeEntryType DEF Init
  <1>2. Kernel!TimersTypeOK
    BY Numbers DEF Init, Kernel!TimersTypeOK, Kernel!NON_EVENT
  <1> QED
    BY <1>1, <1>2 DEF Init, TypeOK

Results == {ARP_RESOLUTION_SUCCESS, ARP_RESOLUTION_FAILED}

LEMMA MessageType ==
    ASSUME TypeOK, NEW e \in Entries, tARP[e].ucIP \in Hosts, NEW result \in Results
    PROVE  Message(tARP[e], result) \in SUBSET (Tasks \X Hosts \X Results)
  <1>1. tARP[e].OwnerTask \in Tasks \cup {NoTask}
    BY EntryFields DEF TypeOK
  <1> QED
    BY <1>1 DEF Message

-----------------------------------------------------------------------------
(*                     Addresses and their entries                         *)

(* An entry in use is of a host, and no host has two.                      *)
CacheSound ==
    /\ \A e \in Entries : tARP[e].state # ARP_FREE => tARP[e].ucIP \in Hosts
    /\ \A e, f \in Entries :
          /\ tARP[e].state # ARP_FREE /\ tARP[f].state # ARP_FREE
          /\ tARP[e].ucIP = tARP[f].ucIP
          => e = f

CInv == TypeOK /\ CacheSound

LEMMA Shrinks ==
    ASSUME CacheSound,
           \A e \in Entries : tARP'[e].state # ARP_FREE =>
              tARP[e].state # ARP_FREE /\ tARP'[e].ucIP = tARP[e].ucIP
    PROVE  CacheSound'
  BY DEF CacheSound

LEMMA Grows ==
    ASSUME CacheSound, NEW x \in Entries, NEW ip \in Hosts, Takes(x, ip)
    PROVE  CacheSound'
  <1>1. \A e \in Entries : tARP[e].state # ARP_FREE => tARP[e].ucIP # ip
    BY DEF Takes, EntriesOf
  <1> QED
    BY <1>1 DEF Takes, CacheSound

(* The owners of the entries being resolved, with their hosts.             *)
Asked == {<<tARP[e].OwnerTask, tARP[e].ucIP>> :
             e \in {f \in InState(ARP_RESOLVING) : tARP[f].OwnerTask # NoTask}}

(* The message of a step is to the owner of an entry whose resolution ends.*)
TellsOnEnd ==
    \A a \in Tasks \X Hosts :
       (a \in Asked /\ a \notin Asked' /\ ~fnDeleteArp)
          <=> \E m \in told' : <<m[1], m[2]>> = a

LEMMA AskedIs ==
    \A a : a \in Asked <=>
       \E e \in Entries : /\ tARP[e].state = ARP_RESOLVING /\ tARP[e].OwnerTask # NoTask
                         /\ a = <<tARP[e].OwnerTask, tARP[e].ucIP>>
  BY DEF Asked, InState

LEMMA AskedNextIs ==
    \A a : a \in Asked' <=>
       \E e \in Entries : /\ tARP'[e].state = ARP_RESOLVING /\ tARP'[e].OwnerTask # NoTask
                         /\ a = <<tARP'[e].OwnerTask, tARP'[e].ucIP>>
  BY DEF Asked, InState

LEMMA QuietStep ==
    ASSUME told' = {},
           \A e \in Entries : tARP[e].state = ARP_RESOLVING => tARP'[e] = tARP[e]
    PROVE  TellsOnEnd
  <1>1. \A a : a \in Asked => a \in Asked'
    BY AskedIs, AskedNextIs
  <1> QED
    BY <1>1 DEF TellsOnEnd

LEMMA AnswerStep ==
    ASSUME CInv, NEW e \in Entries, NEW type \in Types, Answers(e, type)
    PROVE  /\ tARP' \in [Entries -> Entry] /\ told' \in SUBSET (Tasks \X Hosts \X Results)
           /\ CacheSound' /\ TellsOnEnd
           /\ \A f \in Entries : tARP'[f].state = ARP_RESOLVING => tARP[f].state = ARP_RESOLVING
  <1>1. /\ tARP' \in [Entries -> Entry]
        /\ \A f \in Entries \ {e} : tARP'[f] = tARP[f]
        /\ tARP'[e].state = ARP_RESOLVED /\ tARP'[e].ucIP = tARP[e].ucIP
        /\ told' = IF tARP[e].state = ARP_RESOLVING
                   THEN Message(tARP[e], ARP_RESOLUTION_SUCCESS) ELSE {}
    BY AnswerEffect DEF CInv
  <1>2. tARP[e].state # ARP_FREE /\ tARP[e].ucIP \in Hosts /\ TypeOK
    BY DEF Answers, CInv, CacheSound
  <1>3. told' \in SUBSET (Tasks \X Hosts \X Results)
    BY <1>1, <1>2, MessageType DEF Results
  <1>4. CacheSound'
    BY <1>1, <1>2, Shrinks DEF CInv
  <1>5. ARP_RESOLVED # ARP_RESOLVING /\ ARP_RESOLVING # ARP_FREE
    BY DEF ARP_RESOLVING, ARP_RESOLVED, ARP_FREE
  <1>6. TellsOnEnd
    <2> DEFINE o == tARP[e].OwnerTask
               ip == tARP[e].ucIP
    <2>1. CASE tARP[e].state # ARP_RESOLVING
      BY <1>1, <2>1, QuietStep
    <2>2. CASE tARP[e].state = ARP_RESOLVING /\ o = NoTask
      <3>1. told' = {}
        BY <1>1, <2>2 DEF Message
      <3>2. \A a : a \in Asked => a \in Asked'
        BY <1>1, <2>2, AskedIs, AskedNextIs
      <3> QED
        BY <3>1, <3>2 DEF TellsOnEnd
    <2>3. CASE tARP[e].state = ARP_RESOLVING /\ o # NoTask
      <3>1. told' = {<<o, ip, ARP_RESOLUTION_SUCCESS>>}
        BY <1>1, <2>3 DEF Message
      <3>2. <<o, ip>> \in Asked
        BY <2>3, AskedIs
      <3>3. <<o, ip>> \notin Asked'
        <4>1. SUFFICES ASSUME NEW f \in Entries, tARP'[f].state = ARP_RESOLVING,
                              tARP'[f].ucIP = ip
                       PROVE  FALSE
          BY AskedNextIs
        <4>2. f # e /\ tARP[f].state = ARP_RESOLVING /\ tARP[f].ucIP = ip
          BY <1>1, <1>5, <4>1
        <4> QED
          BY <1>2, <1>5, <4>2 DEF CInv, CacheSound
      <3>4. ~fnDeleteArp
        BY <3>1 DEF fnDeleteArp
      <3>5. \A a : a \in Asked /\ a \notin Asked' => a = <<o, ip>>
        BY <1>1, AskedIs, AskedNextIs
      <3>6. \A a : (\E m \in told' : <<m[1], m[2]>> = a) <=> a = <<o, ip>>
        BY <3>1
      <3> HIDE DEF o, ip
      <3> QED
        BY <3>2, <3>3, <3>4, <3>5, <3>6 DEF TellsOnEnd
    <2> QED
      BY <2>1, <2>2, <2>3
  <1> QED
    BY <1>1, <1>3, <1>4, <1>5, <1>6

LEMMA CheckStep ==
    ASSUME CInv, fnARP_check_pending
    PROVE  /\ tARP' \in [Entries -> Entry] /\ told' \in SUBSET (Tasks \X Hosts \X Results)
           /\ CacheSound' /\ TellsOnEnd
  <1>1. /\ tARP' \in [Entries -> Entry]
        /\ \A e \in Entries :
              /\ Retries(e) => /\ tARP'[e].state = ARP_RESOLVING
                               /\ tARP'[e].ucIP = tARP[e].ucIP
                               /\ tARP'[e].OwnerTask = tARP[e].OwnerTask
              /\ GivenUp(e) => tARP'[e].state = ARP_FREE
              /\ tARP[e].state # ARP_RESOLVING => tARP'[e] = tARP[e]
              /\ tARP[e].state = ARP_RESOLVING => Retries(e) \/ GivenUp(e)
    BY CheckEffect DEF CInv
  <1>2. told' = UNION {Message(tARP[e], ARP_RESOLUTION_FAILED) :
                         e \in {f \in Entries : GivenUp(f)}}
    BY DEF fnARP_check_pending
  <1>3. ARP_RESOLVED # ARP_RESOLVING /\ ARP_RESOLVING # ARP_FREE
    BY DEF ARP_RESOLVING, ARP_RESOLVED, ARP_FREE
  <1>4. CacheSound'
    <2>1. \A e \in Entries : tARP'[e].state # ARP_FREE =>
             tARP[e].state # ARP_FREE /\ tARP'[e].ucIP = tARP[e].ucIP
      BY <1>1, <1>3
    <2> QED
      BY <2>1, Shrinks DEF CInv
  <1>5. told' \in SUBSET (Tasks \X Hosts \X Results)
    <2>1. \A e \in Entries : GivenUp(e) => tARP[e].ucIP \in Hosts
      BY <1>3 DEF GivenUp, CInv, CacheSound
    <2>2. \A e \in Entries : GivenUp(e) =>
             Message(tARP[e], ARP_RESOLUTION_FAILED) \in SUBSET (Tasks \X Hosts \X Results)
      BY <2>1, MessageType DEF CInv, Results
    <2> QED
      BY <1>2, <2>2
  <1>6. \A m : m \in told' <=>
           \E e \in Entries : /\ GivenUp(e) /\ tARP[e].OwnerTask # NoTask
                             /\ m = <<tARP[e].OwnerTask, tARP[e].ucIP, ARP_RESOLUTION_FAILED>>
    BY <1>2 DEF Message
  <1>7. ASSUME NEW a \in Tasks \X Hosts, a \in Asked, a \notin Asked'
        PROVE  \E m \in told' : <<m[1], m[2]>> = a
    <2>1. PICK e \in Entries : /\ tARP[e].state = ARP_RESOLVING /\ tARP[e].OwnerTask # NoTask
                               /\ a = <<tARP[e].OwnerTask, tARP[e].ucIP>>
      BY <1>7, AskedIs
    <2>2. GivenUp(e)
      BY <1>1, <1>7, <2>1, AskedNextIs
    <2>3. <<tARP[e].OwnerTask, tARP[e].ucIP, ARP_RESOLUTION_FAILED>> \in told'
      BY <1>6, <2>1, <2>2
    <2> QED
      BY <2>1, <2>3
  <1>8. ASSUME NEW a \in Tasks \X Hosts, NEW m \in told', <<m[1], m[2]>> = a
        PROVE  a \in Asked /\ a \notin Asked' /\ ~fnDeleteArp
    <2>1. PICK e \in Entries : /\ GivenUp(e) /\ tARP[e].OwnerTask # NoTask
                               /\ m = <<tARP[e].OwnerTask, tARP[e].ucIP, ARP_RESOLUTION_FAILED>>
      BY <1>6
    <2>2. a = <<tARP[e].OwnerTask, tARP[e].ucIP>> /\ tARP[e].state = ARP_RESOLVING
      BY <1>8, <2>1 DEF GivenUp
    <2>3. a \in Asked
      BY <2>1, <2>2, AskedIs
    <2>4. a \notin Asked'
      <3>1. SUFFICES ASSUME NEW f \in Entries, tARP'[f].state = ARP_RESOLVING,
                            tARP'[f].ucIP = tARP[e].ucIP
                     PROVE  FALSE
        BY <2>2, AskedNextIs
      <3>2. Retries(f) /\ tARP[f].ucIP = tARP[e].ucIP /\ tARP[f].state = ARP_RESOLVING
        BY <1>1, <1>3, <3>1 DEF Retries
      <3>3. f = e
        BY <1>3, <2>2, <3>2 DEF CInv, CacheSound
      <3> QED
        BY <2>1, <3>2, <3>3 DEF Retries, GivenUp
    <2>5. ~fnDeleteArp
      BY <1>8 DEF fnDeleteArp
    <2> QED
      BY <2>3, <2>4, <2>5
  <1> QED
    BY <1>1, <1>4, <1>5, <1>7, <1>8 DEF TellsOnEnd

LEMMA RefreshStep ==
    ASSUME CInv, fnRefreshARP
    PROVE  /\ tARP' \in [Entries -> Entry] /\ told' = {}
           /\ CacheSound' /\ TellsOnEnd
  <1>1. tARP' = [e \in Entries |-> Aged(e)] /\ told' = {} /\ TypeOK
    BY DEF fnRefreshARP, CInv
  <1>2. tARP' \in [Entries -> Entry]
    BY <1>1, AgedEffect
  <1>3. CacheSound'
    <2>1. \A e \in Entries : tARP'[e].state # ARP_FREE =>
             tARP[e].state # ARP_FREE /\ tARP'[e].ucIP = tARP[e].ucIP
      BY <1>1, AgedEffect
    <2> QED
      BY <2>1, Shrinks DEF CInv
  <1>4. TellsOnEnd
    <2>1. \A e \in Entries : tARP[e].state = ARP_RESOLVING => tARP'[e] = tARP[e]
      BY <1>1, AgedEffect
    <2> QED
      BY <1>1, <2>1, QuietStep
  <1> QED
    BY <1>1, <1>2, <1>3, <1>4

LEMMA TakesStep ==
    ASSUME CInv, NEW x \in Entries, NEW ip \in Hosts, Takes(x, ip), told' = {}
    PROVE  tARP' \in [Entries -> Entry] /\ CacheSound' /\ TellsOnEnd
  <1>1. \A e \in Entries : tARP[e].state = ARP_RESOLVING => tARP'[e] = tARP[e]
    BY DEF Takes
  <1> QED
    BY <1>1, Grows, QuietStep DEF Takes, CInv

LEMMA CInvInit == Init => CInv
  <1> SUFFICES ASSUME Init PROVE CInv
    OBVIOUS
  <1>1. \A e \in Entries : tARP[e].state = ARP_FREE
    BY FreeEntryType DEF Init
  <1> QED
    BY <1>1, TypeInit DEF CInv, CacheSound

(* What the tasks and the frames do to the cache and to the kernel timer.  *)
CacheStep ==
    /\ tARP' \in [Entries -> Entry] /\ told' \in SUBSET (Tasks \X Hosts \X Results)
    /\ CacheSound' /\ TellsOnEnd

LEMMA ForeignStep ==
    ASSUME CInv, NEW ip \in Hosts,
           EnterPermanent(ip) \/ HearHost(ip) \/ fnHandleARP_response(ip)
    PROVE  /\ CacheStep /\ UNCHANGED <<kernelVars, handling>>
           /\ \A f \in Entries : tARP'[f].state = ARP_RESOLVING => tARP[f].state = ARP_RESOLVING
  <1>1. UNCHANGED <<kernelVars, handling>>
    BY DEF EnterPermanent, HearHost, fnHandleARP_response
  <1>2. ASSUME NEW e \in Entries, NEW type \in Types, Answers(e, type)
        PROVE  /\ CacheStep
               /\ \A f \in Entries : tARP'[f].state = ARP_RESOLVING => tARP[f].state = ARP_RESOLVING
    BY <1>2, AnswerStep DEF CacheStep
  <1>3. ASSUME NEW type \in Types, fnAddARP(ip, type)
        PROVE  /\ CacheStep
               /\ \A f \in Entries : tARP'[f].state = ARP_RESOLVING => tARP[f].state = ARP_RESOLVING
    <2>1. CASE \E e \in Entries : Answers(e, type)
      BY <2>1, <1>2
    <2>2. CASE (\E x \in Entries : Takes(x, ip) /\ tARP'[x].state = ARP_RESOLVED) /\ told' = {}
      <3>1. PICK x \in Entries : Takes(x, ip) /\ tARP'[x].state = ARP_RESOLVED
        BY <2>2
      <3>2. CacheStep
        BY <2>2, <3>1, TakesStep DEF CacheStep
      <3>3. ARP_RESOLVED # ARP_RESOLVING
        BY DEF ARP_RESOLVING, ARP_RESOLVED
      <3> QED
        BY <3>1, <3>2, <3>3 DEF Takes
    <2> QED
      BY <1>3, <2>1, <2>2, AddTakes DEF CInv
  <1>4. CASE EnterPermanent(ip)
    BY <1>1, <1>3, <1>4 DEF EnterPermanent, Types
  <1>5. CASE HearHost(ip)
    BY <1>1, <1>3, <1>5 DEF HearHost, Types
  <1>6. CASE fnHandleARP_response(ip)
    <2>1. PICK e \in EntriesOf(ip) : Resolve(e, tARP[e].type)
      BY <1>6 DEF fnHandleARP_response
    <2>2. e \in Entries /\ tARP[e].type \in Types /\ Answers(e, tARP[e].type)
      BY <2>1, EntryFields DEF EntriesOf, Answers, CInv, TypeOK
    <2> QED
      BY <1>1, <1>2, <2>2
  <1> QED
    BY <1>4, <1>5, <1>6

LEMMA CacheNext ==
    ASSUME CInv, Next
    PROVE  CacheStep
  <1>1. ASSUME NEW ip \in Hosts \cup {Far}, NEW task \in Tasks, fnGetIP_ARP(ip, task)
        PROVE  CacheStep
    <2>1. PICK x \in Entries, hop \in Hosts : Takes(x, hop)
      BY <1>1, AskTakes DEF CInv
    <2>2. told' = {}
      BY <1>1, AskTakes DEF CInv
    <2> QED
      BY <2>1, <2>2, TakesStep DEF CacheStep
  <1>2. ASSUME fnDeleteArp PROVE CacheStep
    <2>1. tARP' = [e \in Entries |-> FreeEntry(NoTask)] /\ told' = {}
      BY <1>2 DEF fnDeleteArp
    <2>2. \A e \in Entries : tARP'[e] \in Entry /\ tARP'[e].state = ARP_FREE
      BY <2>1, FreeEntryType
    <2>3. CacheSound' /\ tARP' \in [Entries -> Entry]
      BY <2>1, <2>2, Shrinks DEF CInv
    <2> QED
      BY <1>2, <2>1, <2>3 DEF CacheStep, TellsOnEnd
  <1>3. ASSUME NEW ip \in Hosts,
               EnterPermanent(ip) \/ HearHost(ip) \/ fnHandleARP_response(ip)
        PROVE  CacheStep
    BY <1>3, ForeignStep
  <1>4. ASSUME fnRtmkSystemTick \/ uTaskerSchedule PROVE CacheStep
    <2>1. tARP' = tARP /\ told' = {}
      BY <1>4 DEF fnRtmkSystemTick, uTaskerSchedule
    <2> QED
      BY <2>1, QuietStep, Shrinks DEF CacheStep, CInv, TypeOK
  <1>5. ASSUME fnTaskArp PROVE CacheStep
    BY <1>5, CheckStep, RefreshStep DEF fnTaskArp, CacheStep
  <1> QED
    BY <1>1, <1>2, <1>3, <1>4, <1>5 DEF Next

LEMMA KernelNext ==
    ASSUME TypeOK, Next
    PROVE  /\ Kernel!TimersTypeOK'
           /\ handling' \in {0, E_ARP_CHECK, E_ARP_PENDING_CHECK}
  <1>1. Kernel!TimersTypeOK /\ handling \in {0, E_ARP_CHECK, E_ARP_PENDING_CHECK}
    BY DEF TypeOK
  <1>2. ASSUME NEW ip \in Hosts \cup {Far}, NEW task \in Tasks, fnGetIP_ARP(ip, task)
        PROVE  StartTimer(E_ARP_PENDING_CHECK) /\ handling' = handling
    BY <1>2, AskTakes
  <1>3. ASSUME \/ fnDeleteArp
               \/ \E ip \in Hosts : \/ EnterPermanent(ip) \/ HearHost(ip)
                                   \/ fnHandleARP_response(ip)
        PROVE  UNCHANGED kernelVars /\ handling' = handling
    BY <1>3 DEF fnDeleteArp, EnterPermanent, HearHost, fnHandleARP_response
  <1>4. ASSUME fnRtmkSystemTick PROVE Kernel!Elapse /\ handling' = handling
    BY <1>4 DEF fnRtmkSystemTick
  <1>5. ASSUME uTaskerSchedule
        PROVE  Kernel!HandOver(OWN_TASK) /\ handling' = pending[OWN_TASK]
    BY <1>5 DEF uTaskerSchedule
  <1>6. ASSUME fnTaskArp
        PROVE  /\ handling' = 0
               /\ \E event \in {E_ARP_CHECK, E_ARP_PENDING_CHECK} : StartTimer(event)
    BY <1>6 DEF fnTaskArp, fnRefreshARP, fnARP_check_pending
  <1> QED
    BY <1>1, <1>2, <1>3, <1>4, <1>5, <1>6, KernelSteps DEF Next

LEMMA HistoryNext ==
    ASSUME TypeOK, Next
    PROVE  /\ requests' \in SUBSET (Tasks \X Hosts)
           /\ askedLate' \in BOOLEAN
  <1>1. requests \in SUBSET (Tasks \X Hosts) /\ askedLate \in BOOLEAN
    BY DEF TypeOK
  <1>2. ASSUME NEW made \in SUBSET (Tasks \X Hosts), Remember(made)
        PROVE  /\ requests' \in SUBSET (Tasks \X Hosts)
               /\ askedLate' \in BOOLEAN
    BY <1>1, <1>2 DEF Remember
  <1>3. ASSUME NEW ip \in Hosts \cup {Far}, NEW task \in Tasks, fnGetIP_ARP(ip, task)
        PROVE  \E made \in SUBSET (Tasks \X Hosts) : Remember(made)
    <2>1. (IF ip = Far THEN ucDefGW ELSE ip) \in Hosts
      BY ArpAssumption
    <2> QED
      BY <1>3, <2>1 DEF fnGetIP_ARP
  <1>4. ASSUME \/ fnDeleteArp \/ fnTaskArp
               \/ \E ip \in Hosts : \/ EnterPermanent(ip) \/ HearHost(ip)
                                   \/ fnHandleARP_response(ip)
        PROVE  \E made \in SUBSET (Tasks \X Hosts) : Remember(made)
    BY <1>4 DEF fnDeleteArp, fnTaskArp, EnterPermanent, HearHost, fnHandleARP_response
  <1>5. ASSUME fnRtmkSystemTick \/ uTaskerSchedule
        PROVE  requests' = requests /\ askedLate' = askedLate
    BY <1>5 DEF fnRtmkSystemTick, uTaskerSchedule, history
  <1> QED
    BY <1>1, <1>2, <1>3, <1>4, <1>5 DEF Next

LEMMA CInvNext == CInv /\ [Next]_vars => CInv'
  <1> SUFFICES ASSUME CInv, [Next]_vars PROVE CInv'
    OBVIOUS
  <1>1. CASE Next
    BY <1>1, CacheNext, KernelNext, HistoryNext DEF CInv, CacheStep, TypeOK, Results
  <1>2. CASE UNCHANGED vars
    BY <1>2 DEF vars, kernelVars, history, CInv, TypeOK, CacheSound, Kernel!TimersTypeOK
  <1> QED
    BY <1>1, <1>2

-----------------------------------------------------------------------------
(*                              Theorems                                   *)

(* The cache, the timer and the messages stay within their types; above    *)
(* all no life time and no retry counter of stack/arp.c wraps below zero.  *)
THEOREM TypesHold == Spec => []TypeOK
  <1>1. CInv => TypeOK
    BY DEF CInv
  <1> QED
    BY <1>1, CInvInit, CInvNext, PTL DEF Spec

(* However requests, frames, expiry and flushing of entries interleave,    *)
(* fnAddARP and fnResolveAddress never give an address a second entry.     *)
THEOREM OneEntry == Spec => []OneEntryPerHost
  <1>1. ASSUME CInv PROVE OneEntryPerHost
    <2>1. SUFFICES ASSUME NEW ip \in Hosts PROVE Cardinality(EntriesOf(ip)) <= 1
      BY DEF OneEntryPerHost
    <2>2. CASE EntriesOf(ip) = {}
      BY <2>2, FS_EmptySet
    <2>3. CASE EntriesOf(ip) # {}
      <3>1. PICK e : e \in EntriesOf(ip)
        BY <2>3
      <3>2. EntriesOf(ip) = {e}
        BY <1>1, <3>1 DEF EntriesOf, CInv, CacheSound
      <3> QED
        BY <3>2, FS_Singleton
    <2> QED
      BY <2>2, <2>3
  <1> QED
    BY <1>1, CInvInit, CInvNext, PTL DEF Spec

-----------------------------------------------------------------------------
(*                     Requests and their messages                         *)

(* Every request has its entry, and an open resolution that none has asked *)
(* for is one of the gateway.                                              *)
Requested ==
    /\ requests \subseteq Asked
    /\ \A e \in Entries :
          /\ tARP[e].state # ARP_FREE /\ tARP[e].type = ARP_FIXED_IP =>
                tARP[e].ucIP = ucDefGW
          /\ tARP[e].state = ARP_RESOLVING /\ tARP[e].ucIP # ucDefGW =>
                <<tARP[e].OwnerTask, tARP[e].ucIP>> \in requests

HInv == CInv /\ Requested

(* What a step other than a request does to the entries in use.            *)
Kept(f) ==
    /\ tARP[f].state # ARP_FREE
    /\ tARP'[f].ucIP = tARP[f].ucIP /\ tARP'[f].type = tARP[f].type
    /\ tARP'[f].state = ARP_RESOLVING =>
          \/ tARP[f].state = ARP_RESOLVING /\ tARP'[f].OwnerTask = tARP[f].OwnerTask
          \/ tARP[f].state # ARP_RESOLVING /\ tARP[f].type = ARP_FIXED_IP
Renewed(f) ==
    /\ tARP'[f].state = ARP_RESOLVED
    /\ tARP'[f].type = ARP_FIXED_IP => tARP'[f].ucIP = ucDefGW
Steady == \A f \in Entries : tARP'[f].state # ARP_FREE => Kept(f) \/ Renewed(f)

LEMMA ResolveSteady ==
    ASSUME TypeOK, NEW e \in Entries, NEW type, Answers(e, type)
    PROVE  Steady
  <1>1. tARP \in [Entries -> Entry] /\ tARP[e] \in Entry
    BY DEF TypeOK
  <1>2. /\ \A f \in Entries \ {e} : tARP'[f] = tARP[f]
        /\ tARP'[e].ucIP = tARP[e].ucIP /\ tARP'[e].type = tARP[e].type
        /\ tARP'[e].state = ARP_RESOLVED /\ tARP[e].state # ARP_FREE
    BY <1>1 DEF Answers, Resolve, Entry
  <1>3. ARP_RESOLVED # ARP_RESOLVING
    BY DEF ARP_RESOLVING, ARP_RESOLVED
  <1> QED
    BY <1>2, <1>3 DEF Steady, Kept

LEMMA AddSteady ==
    ASSUME TypeOK, NEW ip \in Hosts, NEW type \in {ARP_TEMP_IP, ARP_PERMANENT_IP},
           fnAddARP(ip, type)
    PROVE  Steady
  <1>1. CASE \E e \in EntriesOf(ip) : Resolve(e, type)
    BY <1>1, ResolveSteady DEF EntriesOf, Answers
  <1>2. CASE ~\E e \in EntriesOf(ip) : Resolve(e, type)
    <2> DEFINE kept == IF ip = ucDefGW THEN ARP_FIXED_IP ELSE type
    <2>1. kept = ARP_FIXED_IP => ip = ucDefGW
      BY DEF ARP_FIXED_IP, ARP_TEMP_IP, ARP_PERMANENT_IP
    <2>2. PICK x \in fnAddNewARP :
             tARP' = [tARP EXCEPT ![x] = [tARP[x] EXCEPT
                        !.state = ARP_RESOLVED, !.ucIP = ip, !.type = kept,
                        !.ucTimeToLive = fnTimeoutValue(kept), !.ucRetries = ARP_MAXRETRY]]
      BY <1>2 DEF fnAddARP
    <2> HIDE DEF kept
    <2>3. x \in Entries /\ tARP[x] \in Entry /\ tARP \in [Entries -> Entry]
      BY TakenEntry DEF TypeOK
    <2>4. /\ \A f \in Entries \ {x} : tARP'[f] = tARP[f]
          /\ tARP'[x].state = ARP_RESOLVED /\ tARP'[x].ucIP = ip /\ tARP'[x].type = kept
      BY <2>2, <2>3 DEF Entry
    <2> QED
      BY <2>1, <2>4 DEF Steady, Kept, Renewed
  <1> QED
    BY <1>1, <1>2

LEMMA AgedSteady ==
    ASSUME TypeOK, fnRefreshARP
    PROVE  Steady
  <1> SUFFICES ASSUME NEW f \in Entries, tARP'[f].state # ARP_FREE PROVE Kept(f)
    BY DEF Steady
  <1>1. tARP'[f] = Aged(f) /\ tARP[f] \in Entry /\ tARP[f].OwnerTask \in Tasks \cup {NoTask}
    BY EntryFields DEF fnRefreshARP, TypeOK
  <1>2. ARP_FREE # ARP_RESOLVING /\ ARP_FREE # ARP_RESOLVED /\ ARP_RESOLVING # ARP_RESOLVED
    BY DEF ARP_FREE, ARP_RESOLVING, ARP_RESOLVED
  <1>3. CASE ReResolves(f)
    <2>1. Expires(f) /\ tARP[f].state = ARP_RESOLVED /\ tARP[f].type = ARP_FIXED_IP
      BY <1>3 DEF ReResolves, Expires
    <2>2. Aged(f) = [tARP[f] EXCEPT !.state = ARP_RESOLVING, !.ucTimeToLive = 0,
                                    !.ucRetries = tARP[f].ucRetries - 1]
      BY <1>3, <2>1 DEF Aged
    <2>3. Aged(f).ucIP = tARP[f].ucIP /\ Aged(f).type = tARP[f].type
      BY <1>1, <2>2 DEF Entry
    <2> QED
      BY <1>1, <1>2, <2>1, <2>3 DEF Kept
  <1>4. CASE Expires(f) /\ ~ReResolves(f)
    <2>1. Aged(f) = FreeEntry(tARP[f].OwnerTask)
      BY <1>4 DEF Aged
    <2> QED
      BY <1>1, <2>1, FreeEntryType
  <1>5. CASE ~Expires(f) /\ tARP[f].state = ARP_RESOLVED /\ tARP[f].ucTimeToLive # 0
    <2>1. Aged(f) = [tARP[f] EXCEPT !.ucTimeToLive = tARP[f].ucTimeToLive - 1]
      BY <1>5 DEF Aged, ReResolves
    <2>2. /\ Aged(f).ucIP = tARP[f].ucIP /\ Aged(f).type = tARP[f].type
          /\ Aged(f).state = tARP[f].state
      BY <1>1, <2>1 DEF Entry
    <2> QED
      BY <1>1, <1>2, <1>5, <2>2 DEF Kept
  <1>6. CASE ~Expires(f) /\ ~(tARP[f].state = ARP_RESOLVED /\ tARP[f].ucTimeToLive # 0)
    <2>1. Aged(f) = tARP[f]
      BY <1>6 DEF Aged, ReResolves
    <2> QED
      BY <1>1, <2>1 DEF Kept
  <1> QED
    BY <1>3, <1>4, <1>5, <1>6

LEMMA CheckSteady ==
    ASSUME TypeOK, fnARP_check_pending
    PROVE  Steady
  <1> SUFFICES ASSUME NEW f \in Entries, tARP'[f].state # ARP_FREE PROVE Kept(f)
    BY DEF Steady
  <1>1. /\ Retries(f) => /\ tARP'[f].state = ARP_RESOLVING
                         /\ tARP'[f].ucIP = tARP[f].ucIP
                         /\ tARP'[f].OwnerTask = tARP[f].OwnerTask
        /\ GivenUp(f) => tARP'[f].state = ARP_FREE
        /\ tARP[f].state # ARP_RESOLVING => tARP'[f] = tARP[f]
        /\ tARP[f].state = ARP_RESOLVING => Retries(f) \/ GivenUp(f)
    BY CheckEffect
  <1>2. ARP_FREE # ARP_RESOLVING
    BY DEF ARP_FREE, ARP_RESOLVING
  <1>3. Retries(f) => tARP'[f].type = tARP[f].type
    <2>1. SUFFICES ASSUME Retries(f) PROVE tARP'[f].type = tARP[f].type
      OBVIOUS
    <2>2. tARP'[f] = [tARP[f] EXCEPT !.ucRetries = tARP[f].ucRetries - 1]
      BY <2>1 DEF fnARP_check_pending, GivenUp, Retries
    <2>3. tARP[f] \in Entry
      BY DEF TypeOK
    <2> QED
      BY <2>2, <2>3 DEF Entry
  <1>4. CASE tARP[f].state # ARP_RESOLVING
    BY <1>1, <1>4 DEF Kept
  <1>5. CASE tARP[f].state = ARP_RESOLVING
    BY <1>1, <1>2, <1>3, <1>5 DEF Kept
  <1> QED
    BY <1>4, <1>5

LEMMA SteadyStep ==
    ASSUME HInv, Steady,
           requests' = {r \in requests \cup {} :
                           \E e \in Entries : /\ tARP'[e].state = ARP_RESOLVING
                                             /\ tARP'[e].ucIP = r[2]}
    PROVE  Requested'
  <1>1. /\ ARP_FREE # ARP_RESOLVING /\ ARP_RESOLVED # ARP_RESOLVING
        /\ CacheSound /\ requests \subseteq Asked
        /\ \A e \in Entries :
              /\ tARP[e].state # ARP_FREE /\ tARP[e].type = ARP_FIXED_IP =>
                    tARP[e].ucIP = ucDefGW
              /\ tARP[e].state = ARP_RESOLVING /\ tARP[e].ucIP # ucDefGW =>
                    <<tARP[e].OwnerTask, tARP[e].ucIP>> \in requests
    BY DEF ARP_FREE, ARP_RESOLVING, ARP_RESOLVED, HInv, CInv, Requested
  <1>2. ASSUME NEW r \in requests' PROVE r \in Asked'
    <2>1. PICK f \in Entries : tARP'[f].state = ARP_RESOLVING /\ tARP'[f].ucIP = r[2]
      BY <1>2
    <2>2. PICK e \in Entries : /\ tARP[e].state = ARP_RESOLVING /\ tARP[e].OwnerTask # NoTask
                               /\ r = <<tARP[e].OwnerTask, tARP[e].ucIP>>
      BY <1>1, <1>2, AskedIs
    <2>3. Kept(f)
      BY <1>1, <2>1 DEF Steady, Renewed
    <2>4. f = e
      BY <1>1, <2>1, <2>2, <2>3 DEF CacheSound, Kept
    <2>5. tARP'[e].OwnerTask = tARP[e].OwnerTask /\ tARP'[e].ucIP = tARP[e].ucIP
      BY <2>1, <2>2, <2>3, <2>4 DEF Kept
    <2> QED
      BY <2>1, <2>2, <2>4, <2>5, AskedNextIs
  <1>3. ASSUME NEW f \in Entries, tARP'[f].state # ARP_FREE, tARP'[f].type = ARP_FIXED_IP
        PROVE  tARP'[f].ucIP = ucDefGW
    BY <1>1, <1>3 DEF Steady, Kept, Renewed
  <1>4. ASSUME NEW f \in Entries, tARP'[f].state = ARP_RESOLVING, tARP'[f].ucIP # ucDefGW
        PROVE  <<tARP'[f].OwnerTask, tARP'[f].ucIP>> \in requests'
    <2>1. Kept(f)
      BY <1>1, <1>4 DEF Steady, Renewed
    <2>2. /\ tARP[f].state = ARP_RESOLVING /\ tARP'[f].OwnerTask = tARP[f].OwnerTask
          /\ tARP'[f].ucIP = tARP[f].ucIP
      BY <1>1, <1>4, <2>1 DEF Kept
    <2>3. <<tARP[f].OwnerTask, tARP[f].ucIP>> \in requests
      BY <1>1, <1>4, <2>2
    <2> QED
      BY <1>4, <2>2, <2>3
  <1> QED
    BY <1>2, <1>3, <1>4 DEF Requested

LEMMA AskStep ==
    ASSUME HInv, NEW ip \in Hosts \cup {Far}, NEW task \in Tasks, fnGetIP_ARP(ip, task)
    PROVE  Requested'
  <1> DEFINE hop == IF ip = Far THEN ucDefGW ELSE ip
             type == IF hop = ucDefGW THEN ARP_FIXED_IP ELSE ARP_TEMP_IP
             k == [state |-> ARP_RESOLVING, type |-> type, ucIP |-> hop,
                   ucTimeToLive |-> 0, ucRetries |-> ARP_MAXRETRY, OwnerTask |-> task]
  <1>1. /\ ARP_FREE # ARP_RESOLVING /\ CacheSound /\ TypeOK /\ requests \subseteq Asked
        /\ \A e \in Entries :
              /\ tARP[e].state # ARP_FREE /\ tARP[e].type = ARP_FIXED_IP =>
                    tARP[e].ucIP = ucDefGW
              /\ tARP[e].state = ARP_RESOLVING /\ tARP[e].ucIP # ucDefGW =>
                    <<tARP[e].OwnerTask, tARP[e].ucIP>> \in requests
    BY DEF ARP_FREE, ARP_RESOLVING, HInv, CInv, Requested
  <1>2. /\ EntriesOf(hop) = {} /\ fnResolveAddress(type, hop, task)
        /\ requests' = {r \in requests \cup {<<task, hop>>} :
                           \E e \in Entries : /\ tARP'[e].state = ARP_RESOLVING
                                             /\ tARP'[e].ucIP = r[2]}
    BY DEF fnGetIP_ARP, Remember
  <1>3. PICK x \in fnAddNewARP : tARP' = [tARP EXCEPT ![x] = k]
    BY <1>2 DEF fnResolveAddress
  <1>4. /\ k.state = ARP_RESOLVING /\ k.ucIP = hop /\ k.OwnerTask = task
        /\ k.type = ARP_FIXED_IP => hop = ucDefGW
    BY DEF ARP_FIXED_IP, ARP_TEMP_IP
  <1>5. task # NoTask
    BY ArpAssumption
  <1> HIDE DEF k, hop, type
  <1>6. /\ x \in Entries /\ tARP[x].state # ARP_RESOLVING
        /\ tARP'[x] = k /\ \A f \in Entries \ {x} : tARP'[f] = tARP[f]
    BY <1>1, <1>3, TakenEntry DEF TypeOK
  <1>7. ASSUME NEW r \in requests' PROVE r \in Asked'
    <2>1. CASE r = <<task, hop>>
      BY <1>4, <1>5, <1>6, <2>1, AskedNextIs
    <2>2. CASE r \in requests
      <3>1. PICK e \in Entries : /\ tARP[e].state = ARP_RESOLVING /\ tARP[e].OwnerTask # NoTask
                                 /\ r = <<tARP[e].OwnerTask, tARP[e].ucIP>>
        BY <1>1, <2>2, AskedIs
      <3>2. tARP'[e] = tARP[e]
        BY <1>6, <3>1
      <3> QED
        BY <3>1, <3>2, AskedNextIs
    <2> QED
      BY <1>2, <1>7, <2>1, <2>2
  <1>8. ASSUME NEW f \in Entries, tARP'[f].state # ARP_FREE, tARP'[f].type = ARP_FIXED_IP
        PROVE  tARP'[f].ucIP = ucDefGW
    BY <1>1, <1>4, <1>6, <1>8
  <1>9. ASSUME NEW f \in Entries, tARP'[f].state = ARP_RESOLVING, tARP'[f].ucIP # ucDefGW
        PROVE  <<tARP'[f].OwnerTask, tARP'[f].ucIP>> \in requests'
    <2>1. CASE f = x
      BY <1>2, <1>4, <1>6, <1>9, <2>1
    <2>2. CASE f # x
      <3>1. <<tARP[f].OwnerTask, tARP[f].ucIP>> \in requests
        BY <1>1, <1>6, <1>9, <2>2
      <3> QED
        BY <1>2, <1>6, <1>9, <2>2, <3>1
    <2> QED
      BY <2>1, <2>2
  <1> QED
    BY <1>7, <1>8, <1>9 DEF Requested

LEMMA HInvInit == Init => HInv
  <1> SUFFICES ASSUME Init PROVE HInv
    OBVIOUS
  <1>1. requests = {} /\ \A e \in Entries : tARP[e].state = ARP_FREE
    BY FreeEntryType DEF Init
  <1>2. ARP_FREE # ARP_RESOLVING
    BY DEF ARP_FREE, ARP_RESOLVING
  <1> QED
    BY <1>1, <1>2, CInvInit DEF HInv, Requested

LEMMA HInvNext ==
    ASSUME HInv, [Next]_vars
    PROVE  HInv'
  <1>1. CInv' /\ CInv /\ TypeOK
    BY CInvNext DEF HInv, CInv
  <1>2. ASSUME Steady, Remember({}) PROVE Requested'
    BY <1>2, SteadyStep DEF Remember
  <1>3. ASSUME NEW ip \in Hosts \cup {Far}, NEW task \in Tasks, fnGetIP_ARP(ip, task)
        PROVE  Requested'
    BY <1>3, AskStep
  <1>4. ASSUME fnDeleteArp PROVE Requested'
    <2>1. \A f \in Entries : tARP'[f].state = ARP_FREE
      BY <1>4, FreeEntryType DEF fnDeleteArp
    <2> QED
      BY <1>1, <1>2, <1>4, <2>1 DEF fnDeleteArp, Steady, HInv
  <1>5. ASSUME NEW ip \in Hosts, EnterPermanent(ip) \/ HearHost(ip)
        PROVE  Requested'
    BY <1>1, <1>2, <1>5, AddSteady DEF EnterPermanent, HearHost
  <1>6. ASSUME NEW ip \in Hosts, fnHandleARP_response(ip)
        PROVE  Requested'
    BY <1>1, <1>2, <1>6, ResolveSteady DEF fnHandleARP_response, EntriesOf, Answers
  <1>7. ASSUME fnTaskArp PROVE Requested'
    BY <1>1, <1>2, <1>7, AgedSteady, CheckSteady DEF fnTaskArp
  <1>8. ASSUME UNCHANGED <<tARP, history>> PROVE Requested'
    BY <1>8 DEF HInv, Requested, Asked, InState, history
  <1>9. fnRtmkSystemTick \/ uTaskerSchedule \/ UNCHANGED vars => UNCHANGED <<tARP, history>>
    BY DEF fnRtmkSystemTick, uTaskerSchedule, vars
  <1> QED
    BY <1>1, <1>3, <1>4, <1>5, <1>6, <1>7, <1>8, <1>9 DEF HInv, Next

(* Every request ends with one message to the task that made it, unless    *)
(* the cache is emptied, and a task that has asked for nothing is told of  *)
(* the gateway only.                                                       *)
THEOREM EndsAreTold == Spec => TasksAreTold
  <1> DEFINE ToldStep(a) ==
               LET ends == a \in requests /\ a \notin requests'
                   isTold == \E m \in told' : <<m[1], m[2]>> = a
               IN  /\ ends /\ ~fnDeleteArp => isTold
                   /\ isTold => ends \/ (a[2] = ucDefGW /\ a \notin requests)
  <1>1. ASSUME HInv, Next, NEW a \in Tasks \X Hosts PROVE ToldStep(a)
    <2>1. TellsOnEnd
      BY <1>1, CacheNext DEF HInv, CacheStep
    <2>2. HInv' /\ requests \subseteq Asked /\ requests' \subseteq Asked'
      BY <1>1, HInvNext DEF HInv, Requested
    <2>3. a \in Asked /\ a \notin requests => a[2] = ucDefGW
      BY <1>1, AskedIs DEF HInv, Requested
    <2>4. a \in requests /\ a \notin requests' => a \notin Asked'
      <3>1. SUFFICES ASSUME a \in requests, a \in Asked' PROVE a \in requests'
        OBVIOUS
      <3>2. PICK e \in Entries : tARP'[e].state = ARP_RESOLVING /\ tARP'[e].ucIP = a[2]
        BY <3>1, AskedNextIs
      <3>3. ASSUME NEW made, Remember(made) PROVE a \in requests'
        BY <3>1, <3>2, <3>3 DEF Remember
      <3>4. \/ \E made : Remember(made)
            \/ requests' = requests
        BY <1>1 DEF Next, fnGetIP_ARP, fnDeleteArp, EnterPermanent, HearHost,
                    fnHandleARP_response, fnTaskArp, fnRtmkSystemTick,
                    uTaskerSchedule, history
      <3> QED
        BY <3>1, <3>3, <3>4
    <2> QED
      BY <1>1, <2>1, <2>2, <2>3, <2>4 DEF TellsOnEnd
  <1>2. HInv /\ [Next]_vars => [\A a \in Tasks \X Hosts : ToldStep(a)]_vars
    BY <1>1
  <1>3. HInv /\ [Next]_vars => HInv'
    BY HInvNext
  <1> QED
    BY <1>2, <1>3, HInvInit, PTL DEF Spec, TasksAreTold

-----------------------------------------------------------------------------
(*                          The shared timer                               *)

(* The timer is a single shot that always has an event, one at a time.     *)
TimerSound ==
    /\ period[OWN_TASK] = 0
    /\ left[OWN_TASK] # 0 => armed[OWN_TASK] # 0
    /\ handling # 0 => pending[OWN_TASK] = 0
    /\ NextEvent # 0

PInv == CInv /\ TimerSound

LEMMA NoneResolving ==
    InState(ARP_RESOLVING) = {} <=> \A e \in Entries : tARP[e].state # ARP_RESOLVING
  BY DEF InState

LEMMA NoneResolvingNext ==
    InState(ARP_RESOLVING)' = {} <=> \A e \in Entries : tARP'[e].state # ARP_RESOLVING
  BY DEF InState

LEMMA PInvInit == Init => PInv
  <1> SUFFICES ASSUME Init PROVE PInv
    OBVIOUS
  <1>1. NextEvent = E_ARP_CHECK
    BY Numbers DEF Init, NextEvent
  <1> QED
    BY <1>1, CInvInit DEF PInv, TimerSound, Init, E_ARP_CHECK

(* An event is next when it is handled, when it waits, or when the timer   *)
(* runs for it.                                                            *)
LEMMA NextEventIs ==
    /\ handling # 0 => NextEvent = handling
    /\ handling = 0 /\ pending[OWN_TASK] # 0 => NextEvent = pending[OWN_TASK]
    /\ handling = 0 /\ pending[OWN_TASK] = 0 /\ left[OWN_TASK] # 0 =>
          NextEvent = armed[OWN_TASK]
    /\ handling = 0 /\ pending[OWN_TASK] = 0 /\ left[OWN_TASK] = 0 => NextEvent = 0
  BY DEF NextEvent

LEMMA NextEventNextIs ==
    /\ handling' # 0 => NextEvent' = handling'
    /\ handling' = 0 /\ pending'[OWN_TASK] # 0 => NextEvent' = pending'[OWN_TASK]
    /\ handling' = 0 /\ pending'[OWN_TASK] = 0 /\ left'[OWN_TASK] # 0 =>
          NextEvent' = armed'[OWN_TASK]
  BY DEF NextEvent

(* The step that RequestsArePolled names.                                  *)
AskedLate ==
    /\ pending[OWN_TASK] = E_ARP_CHECK
    /\ \E ip \in Hosts \cup {Far}, task \in Tasks : fnGetIP_ARP(ip, task)

PollStep == PInv' /\ (Polled => Polled' \/ AskedLate)

LEMMA PInvNext ==
    ASSUME PInv, [Next]_vars
    PROVE  PollStep
  <1>1. CInv' /\ CInv /\ TypeOK /\ Kernel!TimersTypeOK
    BY CInvNext DEF PInv, CInv, TypeOK
  <1>2. /\ period[OWN_TASK] = 0
        /\ left[OWN_TASK] # 0 => armed[OWN_TASK] # 0
        /\ handling # 0 => pending[OWN_TASK] = 0
        /\ NextEvent # 0
        /\ Polled /\ (\E e \in Entries : tARP[e].state = ARP_RESOLVING) =>
              NextEvent = E_ARP_PENDING_CHECK
        /\ E_ARP_PENDING_CHECK # 0 /\ E_ARP_CHECK # 0 /\ E_ARP_CHECK # E_ARP_PENDING_CHECK
    BY NoneResolving DEF PInv, TimerSound, Polled, E_ARP_PENDING_CHECK, E_ARP_CHECK
  <1>3. ASSUME period'[OWN_TASK] = 0,
               left'[OWN_TASK] # 0 => armed'[OWN_TASK] # 0,
               handling' # 0 => pending'[OWN_TASK] = 0,
               NextEvent' # 0,
               Polled /\ ~AskedLate /\ (\E e \in Entries : tARP'[e].state = ARP_RESOLVING) =>
                  NextEvent' = E_ARP_PENDING_CHECK
        PROVE  PollStep
    BY <1>1, <1>3, NoneResolvingNext DEF PInv, TimerSound, Polled, PollStep
  <1>4. ASSUME NEW ip \in Hosts \cup {Far}, NEW task \in Tasks, fnGetIP_ARP(ip, task)
        PROVE  PollStep
    <2>1. /\ StartTimer(E_ARP_PENDING_CHECK) /\ handling = 0 /\ handling' = 0
      BY <1>1, <1>4, AskTakes
    <2>2. /\ left'[OWN_TASK] # 0 /\ armed'[OWN_TASK] = E_ARP_PENDING_CHECK
          /\ period' = period /\ pending' = pending
          /\ pending[OWN_TASK] \in {0, E_ARP_CHECK, E_ARP_PENDING_CHECK}
      BY <1>1, <2>1, KernelSteps
    <2>3. NextEvent' # 0 /\ (~AskedLate => NextEvent' = E_ARP_PENDING_CHECK)
      BY <1>2, <1>4, <2>1, <2>2, NextEventNextIs DEF AskedLate
    <2> QED
      BY <1>2, <1>3, <2>1, <2>2, <2>3
  <1>5. ASSUME UNCHANGED <<kernelVars, handling>>,
               \A e \in Entries : tARP'[e].state = ARP_RESOLVING => tARP[e].state = ARP_RESOLVING
        PROVE  PollStep
    <2>1. NextEvent' = NextEvent
      BY <1>5 DEF NextEvent, kernelVars
    <2> QED
      BY <1>2, <1>3, <1>5, <2>1 DEF kernelVars
  <1>6. ASSUME fnDeleteArp PROVE PollStep
    <2>1. \A e \in Entries : tARP'[e].state # ARP_RESOLVING
      BY <1>6, FreeEntryType DEF fnDeleteArp, ARP_FREE, ARP_RESOLVING
    <2> QED
      BY <1>5, <1>6, <2>1 DEF fnDeleteArp
  <1>7. ASSUME NEW ip \in Hosts,
               EnterPermanent(ip) \/ HearHost(ip) \/ fnHandleARP_response(ip)
        PROVE  PollStep
    BY <1>1, <1>5, <1>7, ForeignStep
  <1>8. ASSUME fnRtmkSystemTick PROVE PollStep
    <2>1. /\ Kernel!Elapse /\ tARP' = tARP /\ handling' = handling
          /\ pending[OWN_TASK] # 0 \/ handling # 0 => left[OWN_TASK] # 1
      BY <1>8 DEF fnRtmkSystemTick, HandledInTime
    <2>2. /\ left[OWN_TASK] \notin {0, 1} => left'[OWN_TASK] # 0
          /\ left[OWN_TASK] = 0 => left'[OWN_TASK] = 0
          /\ left[OWN_TASK] = 1 => left'[OWN_TASK] = period[OWN_TASK]
          /\ pending'[OWN_TASK] = IF left[OWN_TASK] = 1
                                  THEN armed[OWN_TASK] ELSE pending[OWN_TASK]
          /\ period' = period /\ armed' = armed
      BY <1>1, <2>1, KernelSteps
    <2>3. NextEvent' = NextEvent
      <3>1. CASE handling # 0
        BY <2>1, <3>1, NextEventIs, NextEventNextIs
      <3>2. CASE handling = 0 /\ pending[OWN_TASK] # 0
        BY <2>1, <2>2, <3>2, NextEventIs, NextEventNextIs
      <3>3. CASE handling = 0 /\ pending[OWN_TASK] = 0
        <4>1. left[OWN_TASK] # 0 /\ NextEvent = armed[OWN_TASK] /\ armed[OWN_TASK] # 0
          BY <1>2, <3>3, NextEventIs
        <4>2. CASE left[OWN_TASK] = 1
          BY <2>1, <2>2, <3>3, <4>1, <4>2, NextEventNextIs
        <4>3. CASE left[OWN_TASK] # 1
          BY <2>1, <2>2, <3>3, <4>1, <4>3, NextEventNextIs
        <4> QED
          BY <4>2, <4>3
      <3> QED
        BY <3>1, <3>2, <3>3
    <2>4. left'[OWN_TASK] # 0 => armed'[OWN_TASK] # 0
      BY <1>2, <2>2
    <2>5. handling' # 0 => pending'[OWN_TASK] = 0
      BY <1>2, <2>1, <2>2
    <2> QED
      BY <1>2, <1>3, <2>1, <2>2, <2>3, <2>4, <2>5
  <1>9. ASSUME uTaskerSchedule PROVE PollStep
    <2>1. /\ Kernel!HandOver(OWN_TASK) /\ tARP' = tARP
          /\ handling = 0 /\ handling' = pending[OWN_TASK]
      BY <1>9 DEF uTaskerSchedule
    <2>2. /\ pending[OWN_TASK] # 0 /\ pending'[OWN_TASK] = 0
          /\ left' = left /\ period' = period /\ armed' = armed
      BY <1>1, <2>1, KernelSteps
    <2>3. NextEvent' = NextEvent
      BY <2>1, <2>2, NextEventIs, NextEventNextIs
    <2> QED
      BY <1>2, <1>3, <2>1, <2>2, <2>3
  <1>10. ASSUME fnTaskArp PROVE PollStep
    <2>1. handling' = 0 /\ handling # 0 /\ pending[OWN_TASK] = 0
      BY <1>2, <1>10 DEF fnTaskArp
    <2>2. ASSUME NEW event \in {E_ARP_CHECK, E_ARP_PENDING_CHECK}, StartTimer(event)
          PROVE  /\ period'[OWN_TASK] = 0 /\ left'[OWN_TASK] # 0 /\ armed'[OWN_TASK] = event
                 /\ NextEvent' = event /\ event # 0
      <3>1. /\ left'[OWN_TASK] # 0 /\ armed'[OWN_TASK] = event
            /\ period' = period /\ pending' = pending
        BY <1>1, <2>2, KernelSteps
      <3> QED
        BY <1>2, <2>1, <3>1, NextEventNextIs
    <2>3. CASE handling = E_ARP_CHECK /\ fnRefreshARP
      <3>1. Polled => \A e \in Entries : tARP[e].state # ARP_RESOLVING
        BY <1>2, <2>1, <2>3, NextEventIs
      <3>2. CASE \E e \in Entries : ReResolves(e)
        <4>1. StartTimer(E_ARP_PENDING_CHECK)
          BY <2>3, <3>2 DEF fnRefreshARP
        <4> QED
          BY <1>2, <1>3, <2>1, <2>2, <4>1
      <3>3. CASE ~\E e \in Entries : ReResolves(e)
        <4>1. StartTimer(E_ARP_CHECK)
          BY <2>3, <3>3 DEF fnRefreshARP
        <4>2. Polled => \A e \in Entries : tARP'[e].state # ARP_RESOLVING
          BY <1>1, <2>3, <3>1, <3>3, AgedEffect DEF fnRefreshARP
        <4> QED
          BY <1>2, <1>3, <2>1, <2>2, <4>1, <4>2
      <3> QED
        BY <3>2, <3>3
    <2>4. CASE handling = E_ARP_PENDING_CHECK /\ fnARP_check_pending
      <3>1. CASE \E e \in Entries : Retries(e)
        <4>1. StartTimer(E_ARP_PENDING_CHECK)
          BY <2>4, <3>1 DEF fnARP_check_pending
        <4> QED
          BY <1>2, <1>3, <2>1, <2>2, <4>1
      <3>2. CASE ~\E e \in Entries : Retries(e)
        <4>1. StartTimer(E_ARP_CHECK)
          BY <2>4, <3>2 DEF fnARP_check_pending
        <4>2. \A e \in Entries : tARP'[e].state # ARP_RESOLVING
          <5>1. ARP_FREE # ARP_RESOLVING
            BY DEF ARP_FREE, ARP_RESOLVING
          <5> QED
            BY <1>1, <2>4, <3>2, <5>1, CheckEffect
        <4> QED
          BY <1>2, <1>3, <2>1, <2>2, <4>1, <4>2
      <3> QED
        BY <3>1, <3>2
    <2> QED
      BY <1>10, <2>3, <2>4 DEF fnTaskArp
  <1>11. CASE UNCHANGED vars
    BY <1>5, <1>11 DEF vars
  <1> QED
    BY <1>4, <1>6, <1>7, <1>8, <1>9, <1>10, <1>11 DEF Next

(* The timer of the ARP task is never lost, and nothing but a request made *)
(* while the event of a refresh waits takes it from the fast rate while an *)
(* address is being resolved.                                              *)
THEOREM AlwaysPolled == Spec => RequestsArePolled
  <1>1. PInv /\ [Next]_vars => PInv'
    BY PInvNext DEF PollStep
  <1>2. PInv /\ [Next]_vars => [/\ NextEvent' # 0
                                /\ Polled /\ ~Polled' => AskedLate]_vars
    BY PInvNext DEF PollStep, PInv, TimerSound
  <1> QED
    BY <1>1, <1>2, PInvInit, PTL DEF Spec, RequestsArePolled, AskedLate

=============================================================================
