--------------------------- MODULE UTaskerKernel ----------------------------
(***************************************************************************)
(* The kernel of uTasker (uTasker/uTasker.c) with the message writes that  *)
(* wake tasks (uTasker/Driver.c).                                          *)
(*                                                                         *)
(* There is one main context: it walks the task table for ever and calls   *)
(* the entry of each task that is to be scheduled, so tasks never overlap. *)
(* There is one interrupt level: the tick interrupt and device interrupts  *)
(* strike between any two steps of the main context that do not lie in one *)
(* section protected by uDisable_Interrupt().  An action is therefore      *)
(* either a whole protected section, or one unprotected access.            *)
(*                                                                         *)
(* What a task does when it is called is any sequence of at most MaxOps    *)
(* kernel calls around the reading of its messages: most tasks read until  *)
(* their input queue is empty, some (stack/dns.c, mqtt.c, pop3.c, smtp.c,  *)
(* tftp.c) read one message and return.                                    *)
(***************************************************************************)
EXTENDS Integers, Sequences, FiniteSets

CONSTANTS
    NumTasks,     (* tasks in the task table                               *)
    TaskTable,    (* TaskTable[t]: its row of ctTaskTable                  *)
    SingleReaders,(* tasks that read one message each time they are called *)
    LowPowerTask, (* the task that sleeps when idle, 0 if there is none    *)
    TickMod,      (* 2^w, UTASK_TICK being w bits wide                     *)
    Delays,       (* delays the tasks pass to uTaskerMonoTimer             *)
    TimerEvents,  (* non-zero event numbers they pass                      *)
    Requests,     (* states they pass to uTaskerStateChange                *)
    MaxOps,       (* kernel calls a task makes each time it is called      *)
    MaxIrqs       (* device interrupts during one pass of the scheduler    *)

Tasks == 1..NumTasks

(* ucTaskState is a set of flag bits: STOP is no bit at all.               *)
GO        == "GO"
SUSPENDED == "SUSPENDED"
ACTIVATE  == "ACTIVATE"
POLLING   == "POLLING"
UTASKER_STOP == {}
Flags == {GO, SUSPENDED, ACTIVATE, POLLING}

NON_EVENT == 0

(* -1 in DELAY_LIMIT: a timer is reserved but does not run at start.       *)
NO_DELAY_RESERVE_MONO == TickMod - 1

ASSUME KernelAssumption ==
    /\ NumTasks \in Nat \ {0}
    /\ TickMod \in Nat /\ TickMod > 2
    /\ TaskTable \in [Tasks ->
          [TaskDelay      : 0..TickMod-1,
           TaskRepetition : 0..TickMod-1,
           ucTaskState    : SUBSET Flags,
           QueLength      : Nat]]
    /\ \A t \in Tasks :
          TaskTable[t].ucTaskState \in {UTASKER_STOP, {GO}, {ACTIVATE}, {POLLING}}
    /\ SingleReaders \subseteq Tasks
    /\ LowPowerTask \in 0..NumTasks
    /\ LowPowerTask # 0 => TaskTable[LowPowerTask].QueLength = 0
    /\ Delays \subseteq 0..TickMod-1
    /\ TimerEvents \subseteq Nat \ {NON_EVENT}
    /\ Requests \subseteq {UTASKER_STOP, {GO}, {ACTIVATE}, {POLLING}}
    /\ MaxOps \in Nat
    /\ MaxIrqs \in Nat

(* The rows for which uTaskerStart makes an entry in the timer list.       *)
TimerTasks == {t \in Tasks : \/ TaskTable[t].TaskDelay # 0
                             \/ TaskTable[t].TaskRepetition # 0}
QueueTasks == {t \in Tasks : TaskTable[t].QueLength # 0}

VARIABLES
    uTaskerSystemTick,  (* the tick counter, modulo TickMod                *)
    ucTaskState,        (* task table: flag bits                           *)
    TaskRepetition,     (* task table: period in ticks, 0 for none         *)
    ucEvent,            (* task table: timer event still to be queued      *)
    ucTimerEnabled,     (* timer list: the timer is running                *)
    taskDelay,          (* timer list: tick at which it fires              *)
    timerEvent,         (* timer list: its ucEvent, sent when it fires     *)
    queue,              (* input queues, in messages                       *)
    pc,                 (* where the main context is                       *)
    cur,                (* the row of the task table it is at              *)
    drained,            (* the called task will read no more messages      *)
    ops,                (* kernel calls it may still make                  *)
    call,               (* arguments of its uTaskerStateChange             *)
    irqs                (* device interrupts that this pass may still see  *)

taskVars  == <<ucTaskState, TaskRepetition, ucEvent>>
timerVars == <<ucTimerEnabled, taskDelay, timerEvent>>
mainVars  == <<pc, cur, drained, ops, call>>
vars == <<uTaskerSystemTick, taskVars, timerVars, queue, mainVars, irqs>>

TimerMessage(e) == [source |-> "TIMER_EVENT", event |-> e]
InterruptMessage == [source |-> "INTERRUPT_EVENT", event |-> NON_EVENT]
TaskMessage == [source |-> "TASK", event |-> NON_EVENT]
Messages == {TimerMessage(e) : e \in TimerEvents}
               \cup {InterruptMessage, TaskMessage}

(* The arguments are dead when no uTaskerStateChange is under way.         *)
NoCall == [task |-> 1, state |-> {ACTIVATE}]

TypeOK ==
    /\ uTaskerSystemTick \in 0..TickMod-1
    /\ ucTaskState    \in [Tasks -> SUBSET Flags]
    /\ TaskRepetition \in [Tasks -> 0..TickMod-1]
    /\ ucEvent        \in [Tasks -> TimerEvents \cup {NON_EVENT}]
    /\ ucTimerEnabled \in [TimerTasks -> BOOLEAN]
    /\ taskDelay      \in [TimerTasks -> 0..TickMod-1]
    /\ timerEvent     \in [TimerTasks -> TimerEvents \cup {NON_EVENT}]
    /\ queue          \in [Tasks -> Seq(Messages)]
    /\ \A t \in Tasks : Len(queue[t]) <= TaskTable[t].QueLength
    /\ pc      \in {"scan", "claim", "run", "change", "set", "sleep"}
    /\ cur     \in Tasks
    /\ drained \in BOOLEAN
    /\ ops     \in 0..MaxOps
    /\ call    \in [task : Tasks, state : Requests \cup {{ACTIVATE}}]
    /\ irqs    \in 0..MaxIrqs

-----------------------------------------------------------------------------
(*                       Arithmetic on UTASK_TICK                          *)

(* a + d and b - a in the width of UTASK_TICK, for operands below TickMod. *)
TickAdd(a, d) == IF a + d < TickMod THEN a + d ELSE a + d - TickMod
TicksTo(a, b) == IF b >= a THEN b - a ELSE b - a + TickMod

uTaskerRemainingTime(t) ==
    IF ucTimerEnabled[t] THEN TicksTo(uTaskerSystemTick, taskDelay[t]) ELSE 0

(* A timer takes at least one tick.                                        *)
Ticks(delay) == IF delay = 0 THEN 1 ELSE delay

(* Faulty: the period is added to the time at which the timer would fire.  *)
RestartedLater(t) == TickAdd(taskDelay[t], TaskRepetition[t])

(* When a periodic timer fires that starts its period again now.           *)
Restarted(t) == TickAdd(uTaskerSystemTick, TaskRepetition[t])

-----------------------------------------------------------------------------
(*                   Task states and the input queues                      *)

Schedulable(t) == ucTaskState[t] \cap {POLLING, GO, ACTIVATE} # {}

(* What uTaskerStateChange(t, UTASKER_ACTIVATE) leaves in a task's state.  *)
Activated(s) == IF POLLING \in s THEN s ELSE {ACTIVATE}

(* fnFillBuf on a queue that holds whole messages: a message that finds no *)
(* room is cut to nothing, and the caller goes on to wake the task.        *)
Filled(t, m) == IF Len(queue[t]) < TaskTable[t].QueLength
                THEN [queue EXCEPT ![t] = Append(@, m)]
                ELSE queue

-----------------------------------------------------------------------------
(*                             uTaskerStart                                *)

StartDelay(t) ==
    CASE TaskTable[t].TaskDelay = NO_DELAY_RESERVE_MONO -> 0
      [] TaskTable[t].TaskDelay = 0 -> TaskTable[t].TaskRepetition
      [] OTHER -> TaskTable[t].TaskDelay

Init ==
    /\ uTaskerSystemTick = 0
    /\ ucTaskState    = [t \in Tasks |-> TaskTable[t].ucTaskState]
    /\ TaskRepetition = [t \in Tasks |-> TaskTable[t].TaskRepetition]
    /\ ucEvent        = [t \in Tasks |-> NON_EVENT]
    /\ ucTimerEnabled = [t \in TimerTasks |-> StartDelay(t) # 0]
    /\ taskDelay      = [t \in TimerTasks |-> StartDelay(t)]
    /\ timerEvent     = [t \in TimerTasks |-> NON_EVENT]
    /\ queue          = [t \in Tasks |-> <<>>]
    /\ pc = "scan"
    /\ cur = 1
    /\ drained = FALSE
    /\ ops = 0
    /\ call = NoCall
    /\ irqs = MaxIrqs

-----------------------------------------------------------------------------
(*              uTaskerSchedule, the loop of the main context              *)

(* Faulty: after a call the table is searched from its start again.        *)
AdvanceRestarts ==
    cur' = IF pc = "scan" /\ cur < NumTasks THEN cur + 1 ELSE 1

Advance == cur' = IF cur < NumTasks THEN cur + 1 ELSE 1

(* main() calls uTaskerSchedule again at the end of each pass.             *)
NewPass == irqs' = IF cur = NumTasks THEN MaxIrqs ELSE irqs

(* The state is read with interrupts enabled.                              *)
ScanSkip ==
    /\ pc = "scan"
    /\ ~Schedulable(cur)
    /\ Advance
    /\ NewPass
    /\ UNCHANGED <<uTaskerSystemTick, taskVars, timerVars, queue,
                   pc, drained, ops, call>>

ScanHit ==
    /\ pc = "scan"
    /\ Schedulable(cur)
    /\ pc' = "claim"
    /\ UNCHANGED <<uTaskerSystemTick, taskVars, timerVars, queue,
                   cur, drained, ops, call, irqs>>

(* The protected section before the call: a pending timer event becomes a  *)
(* message, whose write itself activates the task, and the task is stopped *)
(* so that it is called only this once.  A task in GO without a repetition *)
(* is called again and again and its event is left pending.                *)
Claim ==
    LET handled == TaskRepetition[cur] # 0 \/ GO \notin ucTaskState[cur]
        posts   == handled /\ ucEvent[cur] # NON_EVENT
        state   == IF posts /\ cur \in QueueTasks
                   THEN Activated(ucTaskState[cur]) ELSE ucTaskState[cur]
        stops   == handled /\ state \cap {SUSPENDED, POLLING} = {}
    IN  /\ pc = "claim"
        /\ queue' = IF posts THEN Filled(cur, TimerMessage(ucEvent[cur]))
                             ELSE queue
        /\ ucEvent' = IF posts THEN [ucEvent EXCEPT ![cur] = NON_EVENT]
                               ELSE ucEvent
        /\ ucTaskState' = [ucTaskState EXCEPT ![cur] =
                              IF stops THEN UTASKER_STOP ELSE state]
        /\ pc' = "run"
        /\ drained' = FALSE
        /\ ops' = MaxOps
        /\ UNCHANGED <<uTaskerSystemTick, TaskRepetition, timerVars,
                       cur, call, irqs>>

(* Faulty: the task is stopped when its entry has returned.                *)
ReturnAndStop ==
    /\ pc = "run"
    /\ drained
    /\ pc' = "scan"
    /\ drained' = FALSE
    /\ ops' = 0
    /\ Advance
    /\ NewPass
    /\ ucTaskState' = [ucTaskState EXCEPT ![cur] =
                          IF POLLING \in @ THEN @ ELSE UTASKER_STOP]
    /\ UNCHANGED <<uTaskerSystemTick, TaskRepetition, ucEvent, timerVars,
                   queue, call>>

(* The entry returns.                                                      *)
Return ==
    /\ pc = "run"
    /\ drained
    /\ pc' = "scan"
    /\ drained' = FALSE
    /\ ops' = 0
    /\ Advance
    /\ NewPass
    /\ UNCHANGED <<uTaskerSystemTick, taskVars, timerVars, queue, call>>

-----------------------------------------------------------------------------
(*                  Kernel calls of the task that runs                     *)

ReadMessage ==
    /\ pc = "run"
    /\ ~drained
    /\ queue[cur] # <<>>
    /\ queue' = [queue EXCEPT ![cur] = Tail(@)]
    /\ drained' = (cur \in SingleReaders)
    /\ UNCHANGED <<uTaskerSystemTick, taskVars, timerVars,
                   pc, cur, ops, call, irqs>>

ReadNothing ==
    /\ pc = "run"
    /\ ~drained
    /\ queue[cur] = <<>>
    /\ drained' = TRUE
    /\ UNCHANGED <<uTaskerSystemTick, taskVars, timerVars, queue,
                   pc, cur, ops, call, irqs>>

KernelCall ==
    /\ pc = "run"
    /\ cur # LowPowerTask
    /\ ops > 0
    /\ ops' = ops - 1
    /\ UNCHANGED <<uTaskerSystemTick, cur, drained, irqs>>

(* uTaskerStateChange(t, s) begins; fnWrite of a message ends with it.     *)
CallStateChange(t, s) ==
    /\ KernelCall
    /\ pc' = "change"
    /\ call' = [task |-> t, state |-> s]
    /\ UNCHANGED <<taskVars, timerVars>>

RequestState(t, s) ==
    /\ CallStateChange(t, s)
    /\ UNCHANGED queue

fnWriteInternal(t) ==
    /\ CallStateChange(t, {ACTIVATE})
    /\ queue' = Filled(t, TaskMessage)

(* uTaskerStateChange up to its decision: a task with a timer is stopped,  *)
(* and its period starts again, in a protected section; a polling task     *)
(* ignores an activation; any other state is written later, unprotected.   *)
ChangeStop ==
    LET t == call.task
    IN  /\ pc = "change"
        /\ call.state = UTASKER_STOP
        /\ t \in TimerTasks
        /\ taskDelay' = IF TaskRepetition[t] = 0 THEN taskDelay
                        ELSE [taskDelay EXCEPT ![t] = Restarted(t)]
        /\ ucTaskState' = [ucTaskState EXCEPT ![t] = UTASKER_STOP]
        /\ pc' = "run"
        /\ call' = NoCall
        /\ UNCHANGED <<uTaskerSystemTick, TaskRepetition, ucEvent,
                       ucTimerEnabled, timerEvent, queue,
                       cur, drained, ops, irqs>>

ChangeDecide ==
    LET ignored == ACTIVATE \in call.state
                      /\ POLLING \in ucTaskState[call.task]
    IN  /\ pc = "change"
        /\ ~(call.state = UTASKER_STOP /\ call.task \in TimerTasks)
        /\ pc' = IF ignored THEN "run" ELSE "set"
        /\ call' = IF ignored THEN NoCall ELSE call
        /\ UNCHANGED <<uTaskerSystemTick, taskVars, timerVars, queue,
                       cur, drained, ops, irqs>>

ChangeSet ==
    /\ pc = "set"
    /\ ucTaskState' = [ucTaskState EXCEPT ![call.task] = call.state]
    /\ pc' = "run"
    /\ call' = NoCall
    /\ UNCHANGED <<uTaskerSystemTick, TaskRepetition, ucEvent, timerVars,
                   queue, cur, drained, ops, irqs>>

(* A zero event sets the period of the task instead of a single shot.      *)
uTaskerMonoTimer(t, delay, time_out_nr) ==
    LET disarm == time_out_nr = NON_EVENT /\ delay = 0
    IN  /\ KernelCall
        /\ ucTaskState' = [ucTaskState EXCEPT ![t] = @ \ {SUSPENDED}]
        /\ timerEvent'  = [timerEvent EXCEPT ![t] = time_out_nr]
        /\ TaskRepetition' = IF time_out_nr = NON_EVENT
                             THEN [TaskRepetition EXCEPT ![t] = delay]
                             ELSE TaskRepetition
        /\ ucTimerEnabled' = [ucTimerEnabled EXCEPT ![t] = ~disarm]
        /\ taskDelay' = IF disarm THEN taskDelay
                        ELSE [taskDelay EXCEPT ![t] =
                                TickAdd(uTaskerSystemTick, Ticks(delay))]
        /\ UNCHANGED <<ucEvent, queue, pc, call>>

(* Faulty: the flag is assigned to the state and not added to it.          *)
StopTimerOverwrites(t) ==
    /\ KernelCall
    /\ timerEvent'     = [timerEvent EXCEPT ![t] = NON_EVENT]
    /\ ucTimerEnabled' = [ucTimerEnabled EXCEPT ![t] = FALSE]
    /\ ucTaskState'    = [ucTaskState EXCEPT ![t] = {SUSPENDED}]
    /\ UNCHANGED <<TaskRepetition, ucEvent, taskDelay, queue, pc, call>>

uTaskerStopTimer(t) ==
    /\ KernelCall
    /\ timerEvent'     = [timerEvent EXCEPT ![t] = NON_EVENT]
    /\ ucTimerEnabled' = [ucTimerEnabled EXCEPT ![t] = FALSE]
    /\ ucTaskState'    = [ucTaskState EXCEPT ![t] = @ \cup {SUSPENDED}]
    /\ UNCHANGED <<TaskRepetition, ucEvent, taskDelay, queue, pc, call>>

(* Faulty: the processor sleeps without the test of uNoSchedule.           *)
SleepAlways ==
    /\ pc = "run"
    /\ cur = LowPowerTask
    /\ ops > 0
    /\ pc' = "sleep"
    /\ ops' = ops - 1
    /\ UNCHANGED <<uTaskerSystemTick, taskVars, timerVars, queue,
                   cur, drained, call, irqs>>

(* fnLowPower: uNoSchedule finds no other task to run and returns with     *)
(* interrupts disabled, and the processor sleeps until one is pending.     *)
fnLowPower ==
    /\ pc = "run"
    /\ cur = LowPowerTask
    /\ ops > 0
    /\ \A t \in Tasks \ {cur} : ~Schedulable(t)
    /\ pc' = "sleep"
    /\ ops' = ops - 1
    /\ UNCHANGED <<uTaskerSystemTick, taskVars, timerVars, queue,
                   cur, drained, call, irqs>>

-----------------------------------------------------------------------------
(*                               Interrupts                                *)

(* An interrupt ends the sleep: the low power task goes on.                *)
Wake == pc' = IF pc = "sleep" THEN "run" ELSE pc

(* Faulty: the match is one tick early, and forgets the wrap.              *)
FiringEarly(tick) ==
    {t \in TimerTasks : ucTimerEnabled[t] /\ taskDelay[t] = tick + 1}

(* The timers that match the new tick.                                     *)
Firing(tick) == {t \in TimerTasks : ucTimerEnabled[t] /\ taskDelay[t] = tick}

fnRtmkSystemTick ==
    LET tick   == TickAdd(uTaskerSystemTick, 1)
        firing == Firing(tick)
        awake  == {t \in firing : SUSPENDED \notin ucTaskState[t]}
    IN  /\ uTaskerSystemTick' = tick
        /\ ucTaskState' = [t \in Tasks |->
               IF t \in awake /\ POLLING \notin ucTaskState[t]
               THEN {ACTIVATE} ELSE ucTaskState[t]]
        /\ ucEvent' = [t \in Tasks |->
               IF t \in awake THEN timerEvent[t] ELSE ucEvent[t]]
        /\ taskDelay' = [t \in TimerTasks |->
               IF t \in firing /\ TaskRepetition[t] # 0
               THEN TickAdd(taskDelay[t], TaskRepetition[t])
               ELSE taskDelay[t]]
        /\ ucTimerEnabled' = [t \in TimerTasks |->
               IF t \in firing /\ TaskRepetition[t] = 0
               THEN FALSE ELSE ucTimerEnabled[t]]
        /\ Wake
        /\ UNCHANGED <<TaskRepetition, timerEvent, queue,
                       cur, drained, ops, call, irqs>>

DeviceInterrupt(t) ==
    /\ irqs > 0
    /\ irqs' = irqs - 1
    /\ ucTaskState' = [ucTaskState EXCEPT ![t] = Activated(@)]
    /\ Wake
    /\ UNCHANGED <<uTaskerSystemTick, TaskRepetition, ucEvent, timerVars,
                   cur, drained, ops, call>>

(* A driver reports an event with a message ...                            *)
fnInterruptMessage(t) ==
    /\ DeviceInterrupt(t)
    /\ queue' = Filled(t, InterruptMessage)

(* ... or has data in a queue of its own and only wakes the task.          *)
WakeFromInterrupt(t) ==
    /\ DeviceInterrupt(t)
    /\ UNCHANGED queue

-----------------------------------------------------------------------------
(*                             Specification                               *)

Schedule == ScanSkip \/ ScanHit \/ Claim \/ Return

Calls ==
    \/ ReadMessage \/ ReadNothing
    \/ \E t \in QueueTasks : fnWriteInternal(t)
    \/ \E t \in Tasks, s \in Requests : RequestState(t, s)
    \/ \E t \in TimerTasks, d \in Delays, e \in TimerEvents \cup {NON_EVENT} :
          uTaskerMonoTimer(t, d, e)
    \/ \E t \in TimerTasks : uTaskerStopTimer(t)
    \/ ChangeStop \/ ChangeDecide \/ ChangeSet
    \/ fnLowPower

Interrupts ==
    \/ fnRtmkSystemTick
    \/ \E t \in QueueTasks : fnInterruptMessage(t)
    \/ \E t \in Tasks : WakeFromInterrupt(t)

Next == Schedule \/ Calls \/ Interrupts

Spec == Init /\ [][Next]_vars

(* The processor keeps executing the main loop and the tick keeps coming.  *)
FairSpec == Spec /\ WF_vars(Schedule \/ Calls) /\ WF_vars(fnRtmkSystemTick)

-----------------------------------------------------------------------------
(*                               Properties                                *)

(* A running timer fires in the future and its task is not suspended: the  *)
(* match on equality in fnRtmkSystemTick is never passed over, also when   *)
(* the tick wraps, and its test of SUSPENDED never swallows a timeout.     *)
ArmedTimersFire ==
    \A t \in TimerTasks : ucTimerEnabled[t] =>
        /\ taskDelay[t] # uTaskerSystemTick
        /\ SUSPENDED \notin ucTaskState[t]

(* The main context is about to write ACTIVATE, as far as task t goes.     *)
Activating(t) == /\ pc \in {"change", "set"}
                 /\ call = [task |-> t, state |-> {ACTIVATE}]

Reading(t) == cur = t /\ ~drained /\ pc \in {"run", "change", "set"}

Attended(t) == Schedulable(t) \/ Reading(t) \/ Activating(t)

(* A message never waits in the queue of a task that nobody will call: it  *)
(* is reading, it will be called again, or its sender is about to wake it. *)
(* Holds as long as no task asks for UTASKER_STOP and all read until their *)
(* queue is empty.                                                         *)
NoLostWakeup == \A t \in Tasks : queue[t] # <<>> => Attended(t)

(* A timer that has fired is followed by a call of its task that queues    *)
(* the event, so long as no task is forced into STOP or GO meanwhile.      *)
TimerEventDeliverable ==
    \A t \in Tasks : ucEvent[t] # NON_EVENT =>
        ucTaskState[t] \cap {ACTIVATE, POLLING} # {}

(* With uTaskerStateChange free to stop a task that an interrupt has just  *)
(* sent a message to, and tasks that read one message only, work can be    *)
(* stranded, but only by these two: no other step, of the scheduler, the   *)
(* timers, an interrupt or a sender, leaves a message nobody will read.    *)
KernelStrandsNoWork ==
    [][\A t \in Tasks :
          (queue[t] = <<>> \/ Attended(t)) /\ ~(queue'[t] = <<>> \/ Attended(t)')
             => \/ /\ pc \in {"change", "set"}
                   /\ call = [task |-> t, state |-> UTASKER_STOP]
                \/ pc = "run" /\ cur = t /\ t \in SingleReaders]_vars

(* The processor sleeps with interrupts disabled only if no task has       *)
(* anything to do: the test of uNoSchedule and the sleep are one section.  *)
SleepsOnlyWhenIdle ==
    pc = "sleep" =>
        \A t \in Tasks \ {LowPowerTask} :
            queue[t] = <<>> /\ ucEvent[t] = NON_EVENT /\ ~Schedulable(t)

(* The timer list, with its wrapping tick, implements plain countdowns.    *)
Timers == INSTANCE TaskTimers WITH
    Timers   <- TimerTasks,
    MaxDelay <- TickMod - 1,
    left     <- [t \in TimerTasks |-> uTaskerRemainingTime(t)],
    period   <- [t \in TimerTasks |-> TaskRepetition[t]],
    armed    <- timerEvent,
    pending  <- [t \in TimerTasks |-> ucEvent[t]]

ImplementsTaskTimers == Timers!TimersSpec

(* A task that is to be scheduled is called, whatever the others do.       *)
ScheduledTasksRun ==
    \A t \in Tasks : Schedulable(t) ~> (pc = "run" /\ cur = t)

(* A message that was accepted is read in the end.                         *)
MessagesAreRead ==
    \A t \in Tasks : (queue[t] # <<>>) ~> (queue[t] = <<>>)

(* A running timer fires: it does not stay armed for ever unless it is set *)
(* again and again.                                                        *)
TimersRunOut ==
    \A t \in TimerTasks :
        \/ []<>(~ucTimerEnabled[t])
        \/ []<><<taskDelay'[t] # taskDelay[t]>>_vars

=============================================================================
