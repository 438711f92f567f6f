---------------------------- MODULE GlobalTimer -----------------------------
(***************************************************************************)
(* The global timer task (uTasker/GlobalTimer.c), software timers only:    *)
(* any number of tasks set and stop timers, each named by its owner and    *)
(* its event, which share the single kernel timer of TASK_TIMER.           *)
(*                                                                         *)
(* The kernel timer is the one TaskTimers specifies and UTaskerKernel      *)
(* implements.  All calls come from tasks, which never overlap; the tick   *)
(* interrupt strikes between any two steps.  A call needs no finer grain:  *)
(* it reads the kernel timer and sets it anew in one protected section,    *)
(* and nothing else it touches is used by the tick.  Expiry takes three    *)
(* steps: the tick that fires the kernel timer, the scheduler that queues  *)
(* its event (HandOver), and fnTimer.  Other tasks run between the first   *)
(* two.                                                                    *)
(***************************************************************************)
EXTENDS Integers, FiniteSets

CONSTANTS
    TIMER_QUANTITY,  (* timer blocks                                       *)
    Owners,          (* tasks that use the global timers                   *)
    Events,          (* the event numbers they pass, never 0               *)
    Delays,          (* the delays they pass                               *)
    DelayMod,        (* 2^w, DELAY_LIMIT being w bits wide                 *)
    StaleStarts      (* may a timer be started, none other being in use,   *)
                     (* while an event of the kernel timer still waits?    *)

OWN_TASK == "TASK_TIMER"
E_TIMER_FIRED == 1

(* The sum of two delays fits in a DELAY_LIMIT: the time a timer has to go *)
(* and the time since the kernel timer was started are added.              *)
ASSUME GlobalTimerAssumption ==
    /\ TIMER_QUANTITY \in Nat \ {0}
    /\ 0 \notin Owners
    /\ Events \subseteq Nat \ {0}
    /\ DelayMod \in Nat \ {0, 1}
    /\ Delays \subseteq Nat \ {0}
    /\ \A d, e \in Delays : d + e < DelayMod
    /\ StaleStarts \in BOOLEAN

Blocks == 1..TIMER_QUANTITY
Timers == Owners \X Events

VARIABLES
    stTimer,      (* the timer blocks                                      *)
    NextFire,     (* the delay the kernel timer was last started with      *)
    left, period, armed, pending, (* the kernel timer, see TaskTimers      *)
    handling,     (* fnTimer has been called for an event                  *)
    sent          (* output: the timers whose events the last step sent    *)

kernelVars == <<left, period, armed, pending>>
vars == <<stTimer, NextFire, kernelVars, handling, sent>>

Kernel == INSTANCE TaskTimers WITH
    Timers <- {OWN_TASK}, MaxDelay <- DelayMod - 1,
    TimerEvents <- {E_TIMER_FIRED}

(* What a free block still holds is never used: it is left out.            *)
FreeBlock == [OwnerTask |-> 0, ucEvent |-> 0, TimerDelay |-> 0]
TimerBlocks == [OwnerTask : Owners, ucEvent : Events, TimerDelay : 0..DelayMod-1]

TypeOK ==
    /\ stTimer \in [Blocks -> TimerBlocks \cup {FreeBlock}]
    /\ NextFire \in 0..DelayMod-1
    /\ Kernel!TimersTypeOK
    /\ handling \in BOOLEAN
    /\ sent \in SUBSET Timers

-----------------------------------------------------------------------------
(*                              The blocks                                 *)

InUse == {b \in Blocks : stTimer[b].OwnerTask # 0}

TimerOf(b) == <<stTimer[b].OwnerTask, stTimer[b].ucEvent>>

fnGetOwnerTimer(t) == {b \in InUse : TimerOf(b) = t}

(* The first free block.                                                   *)
fnGetFreeTimer ==
    {b \in Blocks \ InUse : \A c \in Blocks \ InUse : b <= c}

fnGetNotTimer(b) == InUse \ {b}

(* The timers of B with the lowest delay, and that delay.                  *)
fnGetSWFired(B) ==
    {b \in B : \A c \in B : stTimer[b].TimerDelay <= stTimer[c].TimerDelay}
LowestDelay(B) == stTimer[CHOOSE b \in fnGetSWFired(B) : TRUE].TimerDelay

(* Arithmetic in the width of DELAY_LIMIT.                                 *)
DelayAdd(a, d) == IF a + d < DelayMod THEN a + d ELSE a + d - DelayMod
DelaySub(a, d) == IF a >= d THEN a - d ELSE a - d + DelayMod

uTaskerRemainingTime == left[OWN_TASK]

(* An event of the kernel timer waits to be handled by fnTimer.            *)
EventWaits == pending[OWN_TASK] # 0 \/ handling

(* The time since the kernel timer was last started, as far as counted.    *)
Elapsed == DelaySub(NextFire, uTaskerRemainingTime)

(* What each timer in use still has to go.                                 *)
TimeLeft(b) == stTimer[b].TimerDelay - (NextFire - uTaskerRemainingTime)

-----------------------------------------------------------------------------
Init ==
    /\ stTimer = [b \in Blocks |-> FreeBlock]
    /\ NextFire = 0
    /\ left = [k \in {OWN_TASK} |-> 0]
    /\ period = [k \in {OWN_TASK} |-> 0]
    /\ armed = [k \in {OWN_TASK} |-> 0]
    /\ pending = [k \in {OWN_TASK} |-> 0]
    /\ handling = FALSE
    /\ sent = {}

uTaskerMonoTimer(d) ==
    Kernel!Start(OWN_TASK, d, E_TIMER_FIRED) /\ NextFire' = d


(* The delays of the blocks in B are reduced by d.                         *)
fnReduceSWTimers(blocks, B, d) ==
    [b \in Blocks |->
        IF b \in B
        THEN [blocks[b] EXCEPT !.TimerDelay = DelaySub(@, d)]
        ELSE blocks[b]]

(* The kernel timer fires at the same time or earlier: it goes on, and the *)
(* new delay is counted from its start.                                    *)
QueueBehind(b, t, d) ==
    /\ stTimer' = [stTimer EXCEPT ![b] =
                      [OwnerTask |-> t[1], ucEvent |-> t[2],
                       TimerDelay |-> DelayAdd(d, Elapsed)]]
    /\ UNCHANGED <<NextFire, kernelVars>>

(* The kernel timer is started anew for b, the first to fire; the delays   *)
(* of the others count from now.                                           *)
StartFirst(b, t, d) ==
    /\ stTimer' = [fnReduceSWTimers(stTimer, fnGetNotTimer(b), Elapsed)
                      EXCEPT ![b] = [OwnerTask |-> t[1], ucEvent |-> t[2],
                                     TimerDelay |-> d]]
    /\ uTaskerMonoTimer(d)

fnStartNewTimer(b, t, d) ==
    IF fnGetNotTimer(b) = {} \/ uTaskerRemainingTime > d
    THEN StartFirst(b, t, d)
    ELSE QueueBehind(b, t, d)

(* Retrigger the timer or take a free block; without one the call returns  *)
(* GLOBAL_TIMER_NOT_STARTED and nothing is changed.                        *)
uTaskerGlobalMonoTimer(t, d) ==
    /\ ~handling
    /\ \E b \in IF fnGetOwnerTimer(t) # {} THEN fnGetOwnerTimer(t)
                                           ELSE fnGetFreeTimer :
          /\ StaleStarts \/ ~EventWaits \/ fnGetNotTimer(b) # {}
          /\ fnStartNewTimer(b, t, d)
    /\ sent' = {}
    /\ UNCHANGED handling

(* The blocks are freed; the kernel timer stops with the last one.         *)
StopBlocks(B) ==
    /\ B # {}
    /\ stTimer' = [b \in Blocks |-> IF b \in B THEN FreeBlock ELSE stTimer[b]]
    /\ IF InUse \subseteq B THEN Kernel!Stop(OWN_TASK)
                            ELSE UNCHANGED kernelVars
    /\ UNCHANGED NextFire

(* One timer, or with event 0 all timers of the owner.                     *)
uTaskerGlobalStopTimer(owner, event) ==
    /\ ~handling
    /\ StopBlocks({b \in InUse : /\ stTimer[b].OwnerTask = owner
                                 /\ event \in {0, stTimer[b].ucEvent}})
    /\ sent' = {}
    /\ UNCHANGED handling

-----------------------------------------------------------------------------
(*                               Expiry                                    *)

fnRtmkSystemTick ==
    /\ Kernel!Elapse
    /\ sent' = {}
    /\ UNCHANGED <<stTimer, NextFire, handling>>

(* uTaskerSchedule queues the event to TASK_TIMER and calls fnTimer.       *)
uTaskerSchedule ==
    /\ ~handling
    /\ Kernel!HandOver(OWN_TASK)
    /\ handling' = TRUE
    /\ sent' = {}
    /\ UNCHANGED <<stTimer, NextFire>>

(* Faulty: the kernel timer is taken to have fired for the first timer.    *)
DueUnchecked == fnGetSWFired(InUse)

(* If all timers with the lowest delay were deleted or put off, none is    *)
(* due: the kernel timer fired for a dead timer.                           *)
DueTimers ==
    {b \in fnGetSWFired(InUse) : stTimer[b].TimerDelay <= NextFire}

(* Faulty: after a dead timer the others are not started again.            *)
FireOrGiveUp ==
    LET due == DueTimers
        ref == IF due # {} THEN LowestDelay(due) ELSE NextFire
        kept == InUse \ due
        blocks == [b \in Blocks |-> IF b \in due THEN FreeBlock ELSE stTimer[b]]
    IN  /\ sent' = {TimerOf(b) : b \in due}
        /\ stTimer' = fnReduceSWTimers(blocks, kept, ref)
        /\ IF due # {} /\ kept # {}
           THEN uTaskerMonoTimer(DelaySub(LowestDelay(kept), ref))
           ELSE UNCHANGED <<NextFire, kernelVars>>

(* The events of all timers that are due are sent and their blocks freed;  *)
(* the delays of the others are reduced by the time that has passed, and   *)
(* the kernel timer is started for the first of them.                      *)
fnSWTimerFired ==
    LET due == DueTimers
        ref == IF due # {} THEN LowestDelay(due) ELSE NextFire
        kept == InUse \ due
        blocks == [b \in Blocks |-> IF b \in due THEN FreeBlock ELSE stTimer[b]]
    IN  /\ sent' = {TimerOf(b) : b \in due}
        /\ stTimer' = fnReduceSWTimers(blocks, kept, ref)
        /\ IF kept # {}
           THEN uTaskerMonoTimer(DelaySub(LowestDelay(kept), ref))
           ELSE UNCHANGED <<NextFire, kernelVars>>

fnTimer ==
    /\ handling
    /\ fnSWTimerFired
    /\ handling' = FALSE

Next ==
    \/ \E t \in Timers, d \in Delays : uTaskerGlobalMonoTimer(t, d)
    \/ \E owner \in Owners, event \in Events \cup {0} :
          uTaskerGlobalStopTimer(owner, event)
    \/ fnRtmkSystemTick
    \/ uTaskerSchedule
    \/ fnTimer

Spec == Init /\ [][Next]_vars

(* The tick goes on, the scheduler calls an activated task, and fnTimer    *)
(* returns.  No task is obliged to set or to stop a timer.                 *)
FairSpec ==
    Spec /\ WF_vars(fnRtmkSystemTick) /\ WF_vars(uTaskerSchedule) /\ WF_vars(fnTimer)

-----------------------------------------------------------------------------
(*                              Properties                                 *)

(* A timer in use is never forgotten: the kernel timer runs, no longer     *)
(* than any timer in use still has to go, or its event waits and fnTimer   *)
(* will start it anew.                                                     *)
KernelTimerCovers ==
    InUse # {} =>
        \/ EventWaits
        \/ /\ uTaskerRemainingTime # 0
           /\ \A b \in InUse : TimeLeft(b) >= uTaskerRemainingTime

(* The multiplexed timers are countdowns of their own: none is sent early, *)
(* those due at the same time are sent together, and setting, stopping or  *)
(* expiry of one leaves the time of the others alone.                      *)
Abstract == INSTANCE SoftwareTimers WITH
    left <- [t \in {TimerOf(b) : b \in InUse} |->
                TimeLeft(CHOOSE b \in InUse : TimerOf(b) = t)]

ImplementsSoftwareTimers == Abstract!SoftwareTimersSpec

(* However often the other timers are set and stopped, a timer runs out    *)
(* unless it is itself stopped or retriggered again and again.             *)
EveryTimerRunsOut ==
    \A t \in Timers :
        \/ []<>(fnGetOwnerTimer(t) = {})
        \/ []<><<\E d \in Delays : uTaskerGlobalMonoTimer(t, d)>>_vars

(* GlobalTimer.c:403 (comment 3): an event of the kernel timer that is due *)
(* to a deleted timer and could not be stopped "must not generate an       *)
(* event": a timer is sent only once its own time has passed.              *)
NeverSentEarly ==
    [][\A b \in InUse : TimerOf(b) \in sent' => TimeLeft(b) = 0]_vars

=============================================================================
