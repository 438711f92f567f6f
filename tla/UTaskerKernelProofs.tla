------------------------ MODULE UTaskerKernelProofs -------------------------
(***************************************************************************)
(* What is proved of the kernel for every task table, tick width, set of   *)
(* delays and bound: UTaskerKernel under KernelAssumption.                 *)
(***************************************************************************)
EXTENDS UTaskerKernel, SequenceTheorems, TLAPS

-----------------------------------------------------------------------------
(*                                Lemmas                                   *)

(* The parts of KernelAssumption about numbers, and about a row.           *)
LEMMA Numbers ==
    /\ NumTasks \in Nat \ {0}
    /\ TickMod \in Nat /\ TickMod > 2
    /\ MaxOps \in Nat
    /\ MaxIrqs \in Nat
  BY KernelAssumption

LEMMA Rows ==
    ASSUME NEW t \in Tasks
    PROVE  /\ TaskTable[t].ucTaskState \in SUBSET Flags
           /\ TaskTable[t].TaskRepetition \in 0..TickMod-1
           /\ TaskTable[t].TaskDelay \in 0..TickMod-1
           /\ TaskTable[t].QueLength \in Nat
  BY KernelAssumption

LEMMA RequestedStates ==
    Requests \subseteq {UTASKER_STOP, {GO}, {ACTIVATE}, {POLLING}}
  BY KernelAssumption

(* The pass of the scheduler stays inside the task table.                  *)
LEMMA AdvanceType ==
    ASSUME cur \in Tasks, Advance, irqs \in 0..MaxIrqs, NewPass
    PROVE  cur' \in Tasks /\ irqs' \in 0..MaxIrqs
  BY Numbers DEF Advance, NewPass, Tasks

(* Tick arithmetic stays in the width of the tick counter.                 *)
LEMMA TickAddType ==
    ASSUME NEW a \in 0..TickMod-1, NEW d \in 0..TickMod-1
    PROVE  TickAdd(a, d) \in 0..TickMod-1
  BY KernelAssumption DEF TickAdd

(* A delay that is neither zero nor a whole turn ahead is another tick.    *)
LEMMA TickAddMoves ==
    ASSUME NEW a \in 0..TickMod-1, NEW d \in 1..TickMod-1
    PROVE  TickAdd(a, d) # a
  BY KernelAssumption DEF TickAdd

(* A message write keeps the queues typed and within their length.         *)
LEMMA FilledType ==
    ASSUME TypeOK, NEW t \in Tasks, NEW m \in Messages
    PROVE  /\ Filled(t, m) \in [Tasks -> Seq(Messages)]
           /\ \A u \in Tasks : Len(Filled(t, m)[u]) <= TaskTable[u].QueLength
  <1> DEFINE q == Append(queue[t], m)
  <1>1. queue[t] \in Seq(Messages) /\ TaskTable[t].QueLength \in Nat
    BY KernelAssumption DEF TypeOK
  <1>2. q \in Seq(Messages) /\ Len(q) = Len(queue[t]) + 1
    BY <1>1
  <1>3. CASE Len(queue[t]) < TaskTable[t].QueLength
    <2>1. Filled(t, m) = [queue EXCEPT ![t] = q]
      BY <1>3 DEF Filled
    <2>2. Len(q) <= TaskTable[t].QueLength
      BY <1>1, <1>2, <1>3
    <2> QED
      BY <1>2, <2>1, <2>2 DEF TypeOK
  <1>4. CASE ~(Len(queue[t]) < TaskTable[t].QueLength)
    BY <1>4 DEF Filled, TypeOK
  <1> QED
    BY <1>3, <1>4

LEMMA MessagesType ==
    /\ TaskMessage \in Messages
    /\ InterruptMessage \in Messages
    /\ \A e \in TimerEvents : TimerMessage(e) \in Messages
  BY DEF Messages

-----------------------------------------------------------------------------
(*                           Type correctness                              *)

LEMMA TypeInit == Init => TypeOK
  <1> SUFFICES ASSUME Init PROVE TypeOK
    OBVIOUS
  <1>1. /\ uTaskerSystemTick \in 0..TickMod-1
        /\ irqs \in 0..MaxIrqs
        /\ ops \in 0..MaxOps
        /\ cur \in Tasks
    BY Numbers DEF Init, Tasks
  <1>2. ASSUME NEW t \in TimerTasks
        PROVE  t \in Tasks /\ StartDelay(t) \in 0..TickMod-1
    <2>1. t \in Tasks
      BY DEF TimerTasks
    <2> QED
      BY <2>1, Rows, Numbers DEF StartDelay
  <1>3. /\ ucTaskState \in [Tasks -> SUBSET Flags]
        /\ TaskRepetition \in [Tasks -> 0..TickMod-1]
    BY Rows DEF Init
  <1>4. ucEvent \in [Tasks -> TimerEvents \cup {NON_EVENT}]
    BY DEF Init
  <1>5. /\ ucTimerEnabled \in [TimerTasks -> BOOLEAN]
        /\ taskDelay \in [TimerTasks -> 0..TickMod-1]
        /\ timerEvent \in [TimerTasks -> TimerEvents \cup {NON_EVENT}]
    BY <1>2 DEF Init
  <1>6. /\ queue \in [Tasks -> Seq(Messages)]
        /\ \A t \in Tasks : Len(queue[t]) <= TaskTable[t].QueLength
    BY Rows DEF Init
  <1>7. call \in [task : Tasks, state : Requests \cup {{ACTIVATE}}]
    BY <1>1 DEF Init, NoCall
  <1>8. pc = "scan" /\ drained = FALSE
    BY DEF Init
  <1> QED
    BY <1>1, <1>3, <1>4, <1>5, <1>6, <1>7, <1>8 DEF TypeOK

LEMMA TypeSchedule == TypeOK /\ Schedule => TypeOK'
  <1> SUFFICES ASSUME TypeOK, Schedule PROVE TypeOK'
    OBVIOUS
  <1>1. CASE ScanSkip
    BY <1>1, AdvanceType DEF ScanSkip, TypeOK, taskVars, timerVars
  <1>2. CASE ScanHit
    BY <1>2 DEF ScanHit, TypeOK, taskVars, timerVars
  <1>3. CASE Claim
    <2>1. /\ queue' \in [Tasks -> Seq(Messages)]
          /\ \A t \in Tasks : Len(queue'[t]) <= TaskTable[t].QueLength
      BY <1>3, FilledType, MessagesType DEF Claim, TypeOK
    <2>2. ucEvent' \in [Tasks -> TimerEvents \cup {NON_EVENT}]
      BY <1>3 DEF Claim, TypeOK
    <2>3. ucTaskState' \in [Tasks -> SUBSET Flags]
      BY <1>3 DEF Claim, TypeOK, Activated, UTASKER_STOP, Flags
    <2>4. /\ pc' = "run" /\ drained' = FALSE /\ ops' = MaxOps
          /\ UNCHANGED <<uTaskerSystemTick, TaskRepetition, ucTimerEnabled,
                         taskDelay, timerEvent, cur, call, irqs>>
      BY <1>3 DEF Claim, timerVars
    <2>5. ops' \in 0..MaxOps
      BY <2>4, Numbers
    <2> QED
      BY <2>1, <2>2, <2>3, <2>4, <2>5 DEF TypeOK
  <1>4. CASE Return
    <2>1. cur' \in Tasks /\ irqs' \in 0..MaxIrqs
      BY <1>4, AdvanceType DEF Return, TypeOK
    <2>2. /\ pc' = "scan" /\ drained' = FALSE /\ ops' = 0
          /\ UNCHANGED <<uTaskerSystemTick, taskVars, timerVars, queue, call>>
      BY <1>4 DEF Return
    <2>3. ops' \in 0..MaxOps
      BY <2>2, Numbers
    <2> QED
      BY <2>1, <2>2, <2>3 DEF TypeOK, taskVars, timerVars
  <1> QED
    BY <1>1, <1>2, <1>3, <1>4 DEF Schedule

LEMMA OpsDecrease ==
    ASSUME ops \in 0..MaxOps, ops > 0, ops' = ops - 1
    PROVE  ops' \in 0..MaxOps
  BY Numbers

LEMMA TypeCalls == TypeOK /\ Calls => TypeOK'
  <1> SUFFICES ASSUME TypeOK, Calls PROVE TypeOK'
    OBVIOUS
  <1>1. CASE ReadMessage
    <2>1. /\ queue[cur] \in Seq(Messages) /\ queue[cur] # <<>>
          /\ TaskTable[cur].QueLength \in Nat
          /\ Len(queue[cur]) <= TaskTable[cur].QueLength
      BY <1>1, Rows DEF ReadMessage, TypeOK
    <2>2. /\ Tail(queue[cur]) \in Seq(Messages)
          /\ Len(Tail(queue[cur])) <= TaskTable[cur].QueLength
      BY <2>1
    <2>3. drained' \in BOOLEAN
      BY <1>1 DEF ReadMessage
    <2> QED
      BY <1>1, <2>2, <2>3 DEF ReadMessage, TypeOK, taskVars, timerVars
  <1>2. CASE ReadNothing
    BY <1>2 DEF ReadNothing, TypeOK, taskVars, timerVars
  <1>3. ASSUME NEW t \in Tasks, NEW s \in Requests \cup {{ACTIVATE}},
               CallStateChange(t, s),
               queue' \in [Tasks -> Seq(Messages)],
               \A u \in Tasks : Len(queue'[u]) <= TaskTable[u].QueLength
        PROVE  TypeOK'
    <2>1. ops' \in 0..MaxOps
      BY <1>3, OpsDecrease DEF CallStateChange, KernelCall, TypeOK
    <2> QED
      BY <1>3, <2>1
      DEF CallStateChange, KernelCall, TypeOK, taskVars, timerVars
  <1>4. ASSUME NEW t \in QueueTasks, fnWriteInternal(t) PROVE TypeOK'
    <2>1. t \in Tasks
      BY DEF QueueTasks
    <2> QED
      BY <1>3, <1>4, <2>1, FilledType, MessagesType DEF fnWriteInternal
  <1>5. ASSUME NEW t \in Tasks, NEW s \in Requests, RequestState(t, s)
        PROVE  TypeOK'
    BY <1>3, <1>5 DEF RequestState, TypeOK
  <1>6. ASSUME NEW t \in TimerTasks, NEW d \in Delays,
               NEW e \in TimerEvents \cup {NON_EVENT},
               uTaskerMonoTimer(t, d, e)
        PROVE  TypeOK'
    <2>1. t \in Tasks /\ d \in 0..TickMod-1
      BY KernelAssumption DEF TimerTasks
    <2>2. ops' \in 0..MaxOps
      BY <1>6, OpsDecrease DEF uTaskerMonoTimer, Ticks, KernelCall, TypeOK
    <2>3. taskDelay' \in [TimerTasks -> 0..TickMod-1]
      <3>1. (IF d = 0 THEN 1 ELSE d) \in 0..TickMod-1
        BY <2>1, Numbers
      <3>2. TickAdd(uTaskerSystemTick, IF d = 0 THEN 1 ELSE d) \in 0..TickMod-1
        BY <3>1, TickAddType DEF TypeOK
      <3> QED
        BY <1>6, <3>2 DEF uTaskerMonoTimer, Ticks, TypeOK
    <2>4. TaskRepetition' \in [Tasks -> 0..TickMod-1]
      BY <1>6, <2>1 DEF uTaskerMonoTimer, Ticks, TypeOK
    <2>5. ucTaskState' \in [Tasks -> SUBSET Flags]
      BY <1>6 DEF uTaskerMonoTimer, Ticks, TypeOK
    <2>6. /\ timerEvent' \in [TimerTasks -> TimerEvents \cup {NON_EVENT}]
          /\ ucTimerEnabled' \in [TimerTasks -> BOOLEAN]
      BY <1>6 DEF uTaskerMonoTimer, Ticks, TypeOK
    <2>7. UNCHANGED <<uTaskerSystemTick, ucEvent, queue, pc, call, cur,
                      drained, irqs>>
      BY <1>6 DEF uTaskerMonoTimer, Ticks, KernelCall
    <2> QED
      BY <2>2, <2>3, <2>4, <2>5, <2>6, <2>7 DEF TypeOK
  <1>7. ASSUME NEW t \in TimerTasks, uTaskerStopTimer(t) PROVE TypeOK'
    <2>1. ops' \in 0..MaxOps
      BY <1>7, OpsDecrease DEF uTaskerStopTimer, KernelCall, TypeOK
    <2>2. ucTaskState' \in [Tasks -> SUBSET Flags]
      BY <1>7 DEF uTaskerStopTimer, TypeOK, Flags
    <2>3. /\ timerEvent' \in [TimerTasks -> TimerEvents \cup {NON_EVENT}]
          /\ ucTimerEnabled' \in [TimerTasks -> BOOLEAN]
          /\ UNCHANGED <<uTaskerSystemTick, TaskRepetition, ucEvent, taskDelay,
                         queue, pc, call, cur, drained, irqs>>
      BY <1>7 DEF uTaskerStopTimer, KernelCall, TypeOK
    <2> QED
      BY <2>1, <2>2, <2>3 DEF TypeOK
  <1>8. NoCall \in [task : Tasks, state : Requests \cup {{ACTIVATE}}]
    BY Numbers DEF NoCall, Tasks
  <1>9. /\ call.task \in Tasks
        /\ call.state \in SUBSET Flags
    <2>1. /\ call.task \in Tasks
          /\ call.state \in Requests \cup {{ACTIVATE}}
      BY DEF TypeOK
    <2>2. call.state \in {UTASKER_STOP, {GO}, {ACTIVATE}, {POLLING}}
      BY <2>1, RequestedStates
    <2> QED
      BY <2>1, <2>2 DEF UTASKER_STOP, Flags
  <1>10. CASE ChangeStop
    <2>1. taskDelay' \in [TimerTasks -> 0..TickMod-1]
      <3>1. TickAdd(uTaskerSystemTick, TaskRepetition[call.task]) \in 0..TickMod-1
        BY <1>9, TickAddType DEF TypeOK
      <3> QED
        BY <1>10, <3>1 DEF ChangeStop, Restarted, TypeOK
    <2>2. ucTaskState' \in [Tasks -> SUBSET Flags]
      BY <1>10 DEF ChangeStop, Restarted, TypeOK, UTASKER_STOP
    <2>3. /\ pc' = "run" /\ call' = NoCall
          /\ UNCHANGED <<uTaskerSystemTick, TaskRepetition, ucEvent,
                         ucTimerEnabled, timerEvent, queue,
                         cur, drained, ops, irqs>>
      BY <1>10 DEF ChangeStop, Restarted
    <2> QED
      BY <1>8, <2>1, <2>2, <2>3 DEF TypeOK
  <1>11. CASE ChangeDecide
    BY <1>8, <1>11 DEF ChangeDecide, TypeOK, taskVars, timerVars
  <1>12. CASE ChangeSet
    <2>1. ucTaskState' \in [Tasks -> SUBSET Flags]
      BY <1>9, <1>12 DEF ChangeSet, TypeOK
    <2>2. /\ pc' = "run" /\ call' = NoCall
          /\ UNCHANGED <<uTaskerSystemTick, TaskRepetition, ucEvent, timerVars,
                         queue, cur, drained, ops, irqs>>
      BY <1>12 DEF ChangeSet
    <2> QED
      BY <1>8, <2>1, <2>2 DEF TypeOK, timerVars
  <1>13. CASE fnLowPower
    <2>1. ops' \in 0..MaxOps
      BY <1>13, OpsDecrease DEF fnLowPower, TypeOK
    <2> QED
      BY <1>13, <2>1 DEF fnLowPower, TypeOK, taskVars, timerVars
  <1> QED
    BY <1>1, <1>2, <1>4, <1>5, <1>6, <1>7, <1>10, <1>11, <1>12, <1>13 DEF Calls

LEMMA TypeInterrupts == TypeOK /\ Interrupts => TypeOK'
  <1> SUFFICES ASSUME TypeOK, Interrupts PROVE TypeOK'
    OBVIOUS
  <1>1. CASE fnRtmkSystemTick
    <2>1. uTaskerSystemTick' \in 0..TickMod-1
      <3>1. 1 \in 0..TickMod-1
        BY Numbers
      <3> QED
        BY <1>1, <3>1, TickAddType DEF fnRtmkSystemTick, TypeOK
    <2>2. ucTaskState' \in [Tasks -> SUBSET Flags]
      BY <1>1 DEF fnRtmkSystemTick, TypeOK, Flags
    <2>3. ucEvent' \in [Tasks -> TimerEvents \cup {NON_EVENT}]
      BY <1>1 DEF fnRtmkSystemTick, Firing, TypeOK
    <2>4. taskDelay' \in [TimerTasks -> 0..TickMod-1]
      <3>1. \A t \in TimerTasks :
               TickAdd(taskDelay[t], TaskRepetition[t]) \in 0..TickMod-1
        BY TickAddType DEF TypeOK, TimerTasks
      <3> QED
        BY <1>1, <3>1 DEF fnRtmkSystemTick, TypeOK
    <2>5. /\ ucTimerEnabled' \in [TimerTasks -> BOOLEAN]
          /\ pc' \in {"scan", "claim", "run", "change", "set", "sleep"}
          /\ UNCHANGED <<TaskRepetition, timerEvent, queue,
                         cur, drained, ops, call, irqs>>
      BY <1>1 DEF fnRtmkSystemTick, Wake, TypeOK
    <2> QED
      BY <2>1, <2>2, <2>3, <2>4, <2>5 DEF TypeOK
  <1>2. ASSUME NEW t \in Tasks, DeviceInterrupt(t),
               queue' \in [Tasks -> Seq(Messages)],
               \A u \in Tasks : Len(queue'[u]) <= TaskTable[u].QueLength
        PROVE  TypeOK'
    <2>1. irqs' \in 0..MaxIrqs
      BY <1>2, Numbers DEF DeviceInterrupt, TypeOK
    <2>2. ucTaskState' \in [Tasks -> SUBSET Flags]
      BY <1>2 DEF DeviceInterrupt, Activated, TypeOK, Flags
    <2>3. /\ pc' \in {"scan", "claim", "run", "change", "set", "sleep"}
          /\ UNCHANGED <<uTaskerSystemTick, TaskRepetition, ucEvent, timerVars,
                         cur, drained, ops, call>>
      BY <1>2 DEF DeviceInterrupt, Wake, TypeOK
    <2> QED
      BY <1>2, <2>1, <2>2, <2>3 DEF TypeOK, timerVars
  <1>3. ASSUME NEW t \in QueueTasks, fnInterruptMessage(t) PROVE TypeOK'
    <2>1. t \in Tasks
      BY DEF QueueTasks
    <2> QED
      BY <1>2, <1>3, <2>1, FilledType, MessagesType DEF fnInterruptMessage
  <1>4. ASSUME NEW t \in Tasks, WakeFromInterrupt(t) PROVE TypeOK'
    BY <1>2, <1>4 DEF WakeFromInterrupt, TypeOK
  <1> QED
    BY <1>1, <1>3, <1>4 DEF Interrupts

LEMMA TypeNext == TypeOK /\ [Next]_vars => TypeOK'
  <1>1. TypeOK /\ UNCHANGED vars => TypeOK'
    BY DEF TypeOK, vars, taskVars, timerVars, mainVars
  <1> QED
    BY <1>1, TypeSchedule, TypeCalls, TypeInterrupts DEF Next

(* Every variable of the kernel keeps its type, and no input queue ever    *)
(* holds more than its buffer: a write cuts what does not fit.             *)
THEOREM TypeCorrect == Spec => []TypeOK
  BY TypeInit, TypeNext, PTL DEF Spec

-----------------------------------------------------------------------------
(*                       Timers are never passed over                      *)

LEMMA ArmedInit == Init => ArmedTimersFire
  <1> SUFFICES ASSUME Init, NEW t \in TimerTasks, ucTimerEnabled[t]
               PROVE  /\ taskDelay[t] # uTaskerSystemTick
                      /\ SUSPENDED \notin ucTaskState[t]
    BY DEF ArmedTimersFire
  <1>1. taskDelay[t] # uTaskerSystemTick
    BY DEF Init
  <1>2. t \in Tasks
    BY DEF TimerTasks
  <1>3. TaskTable[t].ucTaskState \in
           {UTASKER_STOP, {GO}, {ACTIVATE}, {POLLING}}
    BY <1>2, KernelAssumption
  <1>4. SUSPENDED \notin ucTaskState[t]
    BY <1>2, <1>3
    DEF Init, UTASKER_STOP, GO, ACTIVATE, POLLING, SUSPENDED
  <1> QED
    BY <1>1, <1>4

(* Activating a task, or taking a flag away, does not suspend it.          *)
LEMMA ActivatedNotSuspended ==
    ASSUME NEW s, SUSPENDED \notin s
    PROVE  SUSPENDED \notin Activated(s)
  BY DEF Activated, SUSPENDED, ACTIVATE

(* A step that leaves the timer list and the tick alone, and suspends no   *)
(* task, keeps the invariant.                                              *)
LEMMA ArmedFrame ==
    ASSUME TypeOK, ArmedTimersFire,
           UNCHANGED <<uTaskerSystemTick, timerVars>>,
           \A t \in Tasks : SUSPENDED \notin ucTaskState[t]
                              => SUSPENDED \notin ucTaskState'[t]
    PROVE  ArmedTimersFire'
  BY DEF ArmedTimersFire, timerVars, TimerTasks

LEMMA ArmedNext == TypeOK /\ ArmedTimersFire /\ [Next]_vars => ArmedTimersFire'
  <1> SUFFICES ASSUME TypeOK, ArmedTimersFire, [Next]_vars
               PROVE  ArmedTimersFire'
    OBVIOUS
  <1>1. CASE UNCHANGED vars
    BY <1>1, ArmedFrame DEF vars, taskVars
  <1>2. CASE ScanSkip \/ ScanHit \/ Return
    BY <1>2, ArmedFrame DEF ScanSkip, ScanHit, Return, taskVars
  <1>3. CASE Claim
    <2>1. \A t \in Tasks : SUSPENDED \notin ucTaskState[t]
                              => SUSPENDED \notin ucTaskState'[t]
      BY <1>3, ActivatedNotSuspended DEF Claim, TypeOK, UTASKER_STOP
    <2> QED
      BY <1>3, <2>1, ArmedFrame DEF Claim
  <1>4. CASE ReadMessage \/ ReadNothing \/ fnLowPower
    BY <1>4, ArmedFrame DEF ReadMessage, ReadNothing, fnLowPower, taskVars
  <1>5. ASSUME NEW t \in Tasks, NEW s, CallStateChange(t, s)
        PROVE  ArmedTimersFire'
    BY <1>5, ArmedFrame DEF CallStateChange, KernelCall, taskVars
  <1>6. CASE (\E t \in QueueTasks : fnWriteInternal(t))
                \/ (\E t \in Tasks, s \in Requests : RequestState(t, s))
    BY <1>5, <1>6 DEF fnWriteInternal, RequestState, QueueTasks
  <1>7. ASSUME NEW t \in TimerTasks, NEW d \in Delays,
               NEW e \in TimerEvents \cup {NON_EVENT},
               uTaskerMonoTimer(t, d, e)
        PROVE  ArmedTimersFire'
    <2> SUFFICES ASSUME NEW u \in TimerTasks, ucTimerEnabled'[u]
                 PROVE  /\ taskDelay'[u] # uTaskerSystemTick'
                        /\ SUSPENDED \notin ucTaskState'[u]
      BY DEF ArmedTimersFire
    <2>1. u \in Tasks /\ t \in Tasks
      BY DEF TimerTasks
    <2>2. CASE u # t
      <3>1. /\ ucTimerEnabled[u]
            /\ taskDelay'[u] = taskDelay[u]
            /\ ucTaskState'[u] = ucTaskState[u]
            /\ uTaskerSystemTick' = uTaskerSystemTick
        BY <1>7, <2>1, <2>2 DEF uTaskerMonoTimer, Ticks, KernelCall, TypeOK
      <3> QED
        BY <3>1 DEF ArmedTimersFire
    <2>3. CASE u = t
      <3> DEFINE ticks == IF d = 0 THEN 1 ELSE d
      <3>1. ticks \in 1..TickMod-1
        BY KernelAssumption, Numbers
      <3>2. /\ taskDelay'[t] = TickAdd(uTaskerSystemTick, ticks)
            /\ SUSPENDED \notin ucTaskState'[t]
            /\ uTaskerSystemTick' = uTaskerSystemTick
        BY <1>7, <2>1, <2>3 DEF uTaskerMonoTimer, Ticks, KernelCall, TypeOK
      <3>3. TickAdd(uTaskerSystemTick, ticks) # uTaskerSystemTick
        BY <3>1, TickAddMoves DEF TypeOK
      <3> QED
        BY <2>3, <3>2, <3>3
    <2> QED
      BY <2>2, <2>3
  <1>8. ASSUME NEW t \in TimerTasks, uTaskerStopTimer(t)
        PROVE  ArmedTimersFire'
    <2> SUFFICES ASSUME NEW u \in TimerTasks, ucTimerEnabled'[u]
                 PROVE  /\ taskDelay'[u] # uTaskerSystemTick'
                        /\ SUSPENDED \notin ucTaskState'[u]
      BY DEF ArmedTimersFire
    <2>1. u \in Tasks /\ t \in Tasks
      BY DEF TimerTasks
    <2>2. u # t
      BY <1>8 DEF uTaskerStopTimer, TypeOK
    <2>3. /\ ucTimerEnabled[u]
          /\ taskDelay'[u] = taskDelay[u]
          /\ ucTaskState'[u] = ucTaskState[u]
          /\ uTaskerSystemTick' = uTaskerSystemTick
      BY <1>8, <2>1, <2>2 DEF uTaskerStopTimer, KernelCall, TypeOK
    <2> QED
      BY <2>3 DEF ArmedTimersFire
  <1>9. CASE ChangeStop
    <2> DEFINE t == call.task
    <2> SUFFICES ASSUME NEW u \in TimerTasks, ucTimerEnabled'[u]
                 PROVE  /\ taskDelay'[u] # uTaskerSystemTick'
                        /\ SUSPENDED \notin ucTaskState'[u]
      BY DEF ArmedTimersFire
    <2>1. /\ u \in Tasks /\ t \in TimerTasks /\ t \in Tasks
          /\ ucTimerEnabled[u]
          /\ uTaskerSystemTick' = uTaskerSystemTick
      BY <1>9 DEF ChangeStop, Restarted, TimerTasks
    <2>2. SUSPENDED \notin ucTaskState'[u]
      BY <1>9, <2>1 DEF ChangeStop, Restarted, TypeOK, ArmedTimersFire, UTASKER_STOP
    <2>3. CASE u = t /\ TaskRepetition[t] # 0
      <3>1. TaskRepetition[t] \in 1..TickMod-1
        BY <2>1, <2>3, Numbers DEF TypeOK
      <3>2. taskDelay'[u] = TickAdd(uTaskerSystemTick, TaskRepetition[t])
        BY <1>9, <2>1, <2>3 DEF ChangeStop, Restarted, TypeOK
      <3>3. TickAdd(uTaskerSystemTick, TaskRepetition[t]) # uTaskerSystemTick
        BY <3>1, TickAddMoves DEF TypeOK
      <3> QED
        BY <2>1, <2>2, <3>2, <3>3
    <2>4. CASE ~(u = t /\ TaskRepetition[t] # 0)
      <3>1. taskDelay'[u] = taskDelay[u]
        BY <1>9, <2>1, <2>4 DEF ChangeStop, Restarted, TypeOK
      <3> QED
        BY <2>1, <2>2, <3>1 DEF ArmedTimersFire
    <2> QED
      BY <2>3, <2>4
  <1>10. CASE ChangeDecide
    BY <1>10, ArmedFrame DEF ChangeDecide, taskVars
  <1>11. CASE ChangeSet
    <2>1. call.state \in {UTASKER_STOP, {GO}, {ACTIVATE}, {POLLING}}
      BY RequestedStates DEF TypeOK
    <2>2. SUSPENDED \notin call.state
      BY <2>1 DEF UTASKER_STOP, GO, ACTIVATE, POLLING, SUSPENDED
    <2>3. \A t \in Tasks : SUSPENDED \notin ucTaskState[t]
                              => SUSPENDED \notin ucTaskState'[t]
      BY <1>11, <2>2 DEF ChangeSet, TypeOK
    <2> QED
      BY <1>11, <2>3, ArmedFrame DEF ChangeSet
  <1>12. CASE fnRtmkSystemTick
    <2> DEFINE tick == TickAdd(uTaskerSystemTick, 1)
    <2> SUFFICES ASSUME NEW u \in TimerTasks, ucTimerEnabled'[u]
                 PROVE  /\ taskDelay'[u] # tick
                        /\ SUSPENDED \notin ucTaskState'[u]
      BY <1>12 DEF ArmedTimersFire, fnRtmkSystemTick
    <2>1. u \in Tasks
      BY DEF TimerTasks
    <2>2. /\ ucTimerEnabled[u]
          /\ u \in Firing(tick) => TaskRepetition[u] # 0
      BY <1>12 DEF fnRtmkSystemTick, TypeOK
    <2>3. SUSPENDED \notin ucTaskState'[u]
      BY <1>12, <2>1, <2>2
      DEF fnRtmkSystemTick, TypeOK, ArmedTimersFire, ACTIVATE, SUSPENDED
    <2>4. CASE u \in Firing(tick)
      <3>1. /\ TaskRepetition[u] \in 1..TickMod-1
            /\ taskDelay[u] = tick
            /\ taskDelay[u] \in 0..TickMod-1
        BY <2>1, <2>2, <2>4, Numbers DEF TypeOK, Firing
      <3>2. taskDelay'[u] = TickAdd(tick, TaskRepetition[u])
        BY <1>12, <2>2, <2>4, <3>1 DEF fnRtmkSystemTick
      <3> QED
        BY <2>3, <3>1, <3>2, TickAddMoves
    <2>5. CASE u \notin Firing(tick)
      BY <1>12, <2>2, <2>3, <2>5 DEF fnRtmkSystemTick, Firing
    <2> QED
      BY <2>4, <2>5
  <1>13. ASSUME NEW t \in Tasks, DeviceInterrupt(t) PROVE ArmedTimersFire'
    <2>1. \A u \in Tasks : SUSPENDED \notin ucTaskState[u]
                              => SUSPENDED \notin ucTaskState'[u]
      BY <1>13, ActivatedNotSuspended DEF DeviceInterrupt, TypeOK
    <2> QED
      BY <1>13, <2>1, ArmedFrame DEF DeviceInterrupt
  <1> QED
    BY <1>1, <1>2, <1>3, <1>4, <1>6, <1>7, <1>8, <1>9, <1>10, <1>11, <1>12, <1>13
    DEF Next, Schedule, Calls, Interrupts, fnInterruptMessage,
        WakeFromInterrupt, QueueTasks

(* No running timer is ever passed over by the tick, whatever the delays   *)
(* and wherever the tick counter wraps, and none belongs to a suspended    *)
(* task, so fnRtmkSystemTick discards no timeout.                          *)
THEOREM TimersSound == Spec => []ArmedTimersFire
  <1>1. TypeOK /\ ArmedTimersFire /\ [Next]_vars
           => TypeOK' /\ ArmedTimersFire'
    BY TypeNext, ArmedNext
  <1> QED
    BY TypeInit, ArmedInit, <1>1, PTL DEF Spec

-----------------------------------------------------------------------------
(*                        No wake-up is lost                               *)

(* Task t has no message, or someone will have it read.                    *)
Served(t) == queue[t] = <<>> \/ Attended(t)

(* The two ways a message can be left where nobody will read it.           *)
Strands(t) ==
    \/ /\ pc \in {"change", "set"}
       /\ call = [task |-> t, state |-> UTASKER_STOP]
    \/ pc = "run" /\ cur = t /\ t \in SingleReaders

LEMMA ActivatedSchedulable ==
    ASSUME NEW s PROVE Activated(s) \cap {POLLING, GO, ACTIVATE} # {}
  BY DEF Activated

(* A step that leaves t's queue and state alone and the reading task       *)
(* reading keeps t served, unless a write of t's state was under way.      *)
LEMMA ServedFrame ==
    ASSUME NEW t \in Tasks, Served(t),
           queue'[t] = queue[t],
           Schedulable(t) => Schedulable(t)',
           Reading(t) => Reading(t)',
           ~Activating(t)
    PROVE  Served(t)'
  BY DEF Served, Attended

LEMMA ServedNext ==
    ASSUME TypeOK, Next, NEW t \in Tasks, Served(t)
    PROVE  Served(t)' \/ Strands(t)
  <1>1. CASE ScanSkip
    BY <1>1, ServedFrame
    DEF ScanSkip, taskVars, Schedulable, Reading, Activating
  <1>2. CASE ScanHit
    BY <1>2, ServedFrame
    DEF ScanHit, taskVars, Schedulable, Reading, Activating
  <1>3. CASE Claim
    <2>1. CASE t = cur
      BY <1>3, <2>1 DEF Claim, Served, Attended, Reading
    <2>2. CASE t # cur
      <3>1. queue'[t] = queue[t] /\ ucTaskState'[t] = ucTaskState[t]
        BY <1>3, <2>2 DEF Claim, Filled, TypeOK
      <3>2. ~Activating(t) /\ ~Reading(t)
        BY <1>3 DEF Claim, Activating, Reading
      <3> QED
        BY <3>1, <3>2, ServedFrame DEF Schedulable
    <2> QED
      BY <2>1, <2>2
  <1>4. CASE Return
    BY <1>4, ServedFrame
    DEF Return, taskVars, Schedulable, Reading, Activating
  <1>5. CASE ReadMessage
    <2>1. CASE t = cur
      <3>1. CASE t \in SingleReaders
        BY <1>5, <2>1, <3>1 DEF ReadMessage, Strands
      <3>2. CASE t \notin SingleReaders
        BY <1>5, <2>1, <3>2 DEF ReadMessage, Served, Attended, Reading
      <3> QED
        BY <3>1, <3>2
    <2>2. CASE t # cur
      <3>1. queue'[t] = queue[t] /\ ucTaskState'[t] = ucTaskState[t]
        BY <1>5, <2>2 DEF ReadMessage, TypeOK, taskVars
      <3>2. ~Activating(t) /\ ~Reading(t)
        BY <1>5, <2>2 DEF ReadMessage, Activating, Reading
      <3> QED
        BY <3>1, <3>2, ServedFrame DEF Schedulable
    <2> QED
      BY <2>1, <2>2
  <1>6. CASE ReadNothing
    <2>1. CASE t = cur
      BY <1>6, <2>1 DEF ReadNothing, Served
    <2>2. CASE t # cur
      BY <1>6, <2>2, ServedFrame
      DEF ReadNothing, taskVars, Schedulable, Reading, Activating
    <2> QED
      BY <2>1, <2>2
  <1>7. ASSUME NEW u \in Tasks, NEW s \in Requests, RequestState(u, s)
        PROVE  Served(t)'
    BY <1>7, ServedFrame
    DEF RequestState, CallStateChange, KernelCall, taskVars,
        Schedulable, Reading, Activating
  <1>8. ASSUME NEW u \in QueueTasks, fnWriteInternal(u)
        PROVE  Served(t)'
    <2>1. CASE t = u
      BY <1>8, <2>1
      DEF fnWriteInternal, CallStateChange, Served, Attended, Activating
    <2>2. CASE t # u
      <3>1. queue'[t] = queue[t]
        BY <1>8, <2>2 DEF fnWriteInternal, Filled, TypeOK
      <3> QED
        BY <1>8, <3>1, ServedFrame
        DEF fnWriteInternal, CallStateChange, KernelCall, taskVars,
            Schedulable, Reading, Activating
    <2> QED
      BY <2>1, <2>2
  <1>9. ASSUME NEW u \in TimerTasks, NEW d, NEW e, uTaskerMonoTimer(u, d, e)
        PROVE  Served(t)'
    <2>1. Schedulable(t) => Schedulable(t)'
      BY <1>9 DEF uTaskerMonoTimer, Ticks, Schedulable, TypeOK, GO, POLLING, ACTIVATE,
                  SUSPENDED
    <2> QED
      BY <1>9, <2>1, ServedFrame
      DEF uTaskerMonoTimer, Ticks, KernelCall, Reading, Activating
  <1>10. ASSUME NEW u \in TimerTasks, uTaskerStopTimer(u)
         PROVE  Served(t)'
    <2>1. Schedulable(t) => Schedulable(t)'
      BY <1>10 DEF uTaskerStopTimer, Schedulable, TypeOK
    <2> QED
      BY <1>10, <2>1, ServedFrame
      DEF uTaskerStopTimer, KernelCall, Reading, Activating
  <1>11. call = [task |-> call.task, state |-> call.state]
    BY DEF TypeOK
  <1>12. CASE ChangeStop
    <2>1. CASE t = call.task
      BY <1>11, <1>12, <2>1 DEF ChangeStop, Restarted, Strands
    <2>2. CASE t # call.task
      <3>1. queue'[t] = queue[t] /\ ucTaskState'[t] = ucTaskState[t]
        BY <1>12, <2>2 DEF ChangeStop, Restarted, TypeOK
      <3>2. ~Activating(t)
        BY <2>2 DEF Activating
      <3>3. Reading(t) => Reading(t)'
        BY <1>12 DEF ChangeStop, Restarted, Reading
      <3> QED
        BY <3>1, <3>2, <3>3, ServedFrame DEF Schedulable
    <2> QED
      BY <2>1, <2>2
  <1>13. CASE ChangeDecide
    <2>1. /\ queue'[t] = queue[t] /\ ucTaskState'[t] = ucTaskState[t]
          /\ Reading(t) => Reading(t)'
      BY <1>13 DEF ChangeDecide, taskVars, Reading
    <2>2. CASE Activating(t)
      <3>1. call.task = t /\ call.state = {ACTIVATE}
        BY <2>2 DEF Activating
      <3>2. CASE POLLING \in ucTaskState[t]
        BY <2>1, <3>2 DEF Served, Attended, Schedulable
      <3>3. CASE POLLING \notin ucTaskState[t]
        <4>1. pc' = "set" /\ call' = call
          BY <1>13, <3>1, <3>3 DEF ChangeDecide
        <4> QED
          BY <2>2, <4>1 DEF Served, Attended, Activating
      <3> QED
        BY <3>2, <3>3
    <2>3. CASE ~Activating(t)
      BY <2>1, <2>3, ServedFrame DEF Schedulable
    <2> QED
      BY <2>2, <2>3
  <1>14. CASE ChangeSet
    <2>1. CASE t = call.task
      <3>1. call.state \in {UTASKER_STOP, {GO}, {ACTIVATE}, {POLLING}}
        BY RequestedStates DEF TypeOK
      <3>2. CASE call.state = UTASKER_STOP
        BY <1>11, <1>14, <2>1, <3>2 DEF ChangeSet, Strands
      <3>3. CASE call.state # UTASKER_STOP
        BY <1>14, <2>1, <3>1, <3>3
        DEF ChangeSet, Served, Attended, Schedulable, TypeOK
      <3> QED
        BY <3>2, <3>3
    <2>2. CASE t # call.task
      <3>1. queue'[t] = queue[t] /\ ucTaskState'[t] = ucTaskState[t]
        BY <1>14, <2>2 DEF ChangeSet, TypeOK
      <3>2. ~Activating(t)
        BY <2>2 DEF Activating
      <3>3. Reading(t) => Reading(t)'
        BY <1>14 DEF ChangeSet, Reading
      <3> QED
        BY <3>1, <3>2, <3>3, ServedFrame DEF Schedulable
    <2> QED
      BY <2>1, <2>2
  <1>15. CASE fnLowPower
    <2>1. CASE t = cur
      <3>1. TaskTable[t].QueLength = 0
        BY <1>15, <2>1, KernelAssumption DEF fnLowPower, Tasks
      <3>2. queue[t] = <<>>
        BY <3>1 DEF TypeOK
      <3> QED
        BY <1>15, <3>2 DEF fnLowPower, Served
    <2>2. CASE t # cur
      BY <1>15, <2>2, ServedFrame
      DEF fnLowPower, taskVars, Schedulable, Reading, Activating
    <2> QED
      BY <2>1, <2>2
  <1>16. CASE fnRtmkSystemTick
    <2>1. Schedulable(t) => Schedulable(t)'
      BY <1>16 DEF fnRtmkSystemTick, Schedulable, TypeOK
    <2>2. Reading(t) => Reading(t)'
      BY <1>16 DEF fnRtmkSystemTick, Wake, Reading
    <2>3. Activating(t) => Activating(t)'
      BY <1>16 DEF fnRtmkSystemTick, Wake, Activating
    <2> QED
      BY <1>16, <2>1, <2>2, <2>3 DEF fnRtmkSystemTick, Served, Attended
  <1>17. ASSUME NEW u \in Tasks, DeviceInterrupt(u),
                t = u \/ queue'[t] = queue[t]
         PROVE  Served(t)'
    <2>1. CASE t = u
      BY <1>17, <2>1, ActivatedSchedulable
      DEF DeviceInterrupt, Served, Attended, Schedulable, TypeOK
    <2>2. CASE t # u
      <3>1. ucTaskState'[t] = ucTaskState[t]
        BY <1>17, <2>2 DEF DeviceInterrupt, TypeOK
      <3>2. Reading(t) => Reading(t)'
        BY <1>17 DEF DeviceInterrupt, Wake, Reading
      <3>3. Activating(t) => Activating(t)'
        BY <1>17 DEF DeviceInterrupt, Wake, Activating
      <3> QED
        BY <1>17, <2>2, <3>1, <3>2, <3>3 DEF Served, Attended, Schedulable
    <2> QED
      BY <2>1, <2>2
  <1>18. ASSUME NEW u \in QueueTasks, fnInterruptMessage(u) PROVE Served(t)'
    <2>1. t = u \/ queue'[t] = queue[t]
      BY <1>18 DEF fnInterruptMessage, Filled, TypeOK
    <2> QED
      BY <1>17, <1>18, <2>1 DEF fnInterruptMessage, QueueTasks
  <1>19. ASSUME NEW u \in Tasks, WakeFromInterrupt(u) PROVE Served(t)'
    BY <1>17, <1>19 DEF WakeFromInterrupt
  <1> QED
    BY <1>1, <1>2, <1>3, <1>4, <1>5, <1>6, <1>7, <1>8, <1>9, <1>10, <1>12,
       <1>13, <1>14, <1>15, <1>16, <1>18, <1>19
    DEF Next, Schedule, Calls, Interrupts

(* No step of the scheduler, the timers, an interrupt or a sender leaves a *)
(* message at a task that nobody will call: only a request to stop that    *)
(* task does, or a task that returns after reading a single message.       *)
THEOREM NoWorkStranded == Spec => KernelStrandsNoWork
  <1>1. ASSUME TypeOK, [Next]_vars, NEW t \in Tasks,
               Served(t), ~(Served(t)')
        PROVE  Strands(t)
    <2>1. CASE UNCHANGED vars
      BY <1>1, <2>1
      DEF vars, taskVars, mainVars, Served, Attended, Schedulable, Reading,
          Activating
    <2>2. CASE Next
      BY <1>1, <2>2, ServedNext
    <2> QED
      BY <1>1, <2>1, <2>2
  <1>2. TypeOK /\ [Next]_vars =>
           [\A t \in Tasks :
               (queue[t] = <<>> \/ Attended(t))
                  /\ ~(queue'[t] = <<>> \/ Attended(t)')
               => \/ /\ pc \in {"change", "set"}
                     /\ call = [task |-> t, state |-> UTASKER_STOP]
                  \/ pc = "run" /\ cur = t /\ t \in SingleReaders]_vars
    BY <1>1 DEF Served, Strands
  <1> QED
    BY <1>2, TypeCorrect, PTL DEF Spec, KernelStrandsNoWork

(* If no task asks for UTASKER_STOP and all read until their queue is      *)
(* empty, a message is never left in the queue of a task nobody will call. *)
THEOREM NoWakeupLost ==
    ASSUME UTASKER_STOP \notin Requests, SingleReaders = {}
    PROVE  Spec => []NoLostWakeup
  <1>1. Init => NoLostWakeup
    BY DEF Init, NoLostWakeup
  <1>2. ASSUME TypeOK, NoLostWakeup, [Next]_vars PROVE NoLostWakeup'
    <2> SUFFICES ASSUME NEW t \in Tasks PROVE Served(t)'
      BY DEF NoLostWakeup, Served
    <2>1. Served(t)
      BY <1>2 DEF NoLostWakeup, Served
    <2>2. CASE UNCHANGED vars
      BY <2>1, <2>2
      DEF vars, taskVars, mainVars, Served, Attended, Schedulable, Reading,
          Activating
    <2>3. CASE Next
      <3>1. ~Strands(t)
        <4>1. call.state \in Requests \cup {{ACTIVATE}}
          BY <1>2 DEF TypeOK
        <4>2. call.state # UTASKER_STOP
          BY <4>1 DEF UTASKER_STOP
        <4> QED
          BY <4>2 DEF Strands
      <3> QED
        BY <1>2, <2>1, <2>3, <3>1, ServedNext
    <2> QED
      BY <1>2, <2>2, <2>3
  <1> QED
    BY <1>1, <1>2, TypeCorrect, PTL DEF Spec

-----------------------------------------------------------------------------
(*                 Timer events and the low power task                     *)

LEMMA DeliverableNext ==
    ASSUME UTASKER_STOP \notin Requests, {GO} \notin Requests,
           TypeOK, TimerEventDeliverable, [Next]_vars
    PROVE  TimerEventDeliverable'
  <1> SUFFICES ASSUME NEW t \in Tasks, ucEvent'[t] # NON_EVENT
               PROVE  ucTaskState'[t] \cap {ACTIVATE, POLLING} # {}
    BY DEF TimerEventDeliverable
  <1>0. ASSUME ucEvent'[t] = ucEvent[t],
               \A f \in {ACTIVATE, POLLING} :
                  f \in ucTaskState[t] => f \in ucTaskState'[t]
        PROVE  ucTaskState'[t] \cap {ACTIVATE, POLLING} # {}
    BY <1>0 DEF TimerEventDeliverable
  <1>1. CASE UNCHANGED vars
    BY <1>0, <1>1 DEF vars, taskVars
  <1>2. CASE ScanSkip \/ ScanHit \/ Return \/ ReadMessage \/ ReadNothing
                \/ ChangeDecide \/ fnLowPower
    BY <1>0, <1>2 DEF ScanSkip, ScanHit, Return, ReadMessage, ReadNothing,
                      ChangeDecide, fnLowPower, taskVars
  <1>3. CASE Claim
    <2>1. CASE t # cur
      BY <1>0, <1>3, <2>1 DEF Claim, TypeOK
    <2>2. CASE t = cur
      <3>1. ucEvent[t] # NON_EVENT
        BY <1>3, <2>2 DEF Claim, TypeOK
      <3>2. ~(TaskRepetition[cur] # 0 \/ GO \notin ucTaskState[cur])
        BY <1>3, <2>2, <3>1 DEF Claim, TypeOK
      <3>3. ucEvent'[t] = ucEvent[t] /\ ucTaskState'[t] = ucTaskState[t]
        BY <1>3, <2>2, <3>2 DEF Claim, TypeOK
      <3> QED
        BY <1>0, <3>3
    <2> QED
      BY <2>1, <2>2
  <1>4. ASSUME NEW u, NEW s, CallStateChange(u, s)
        PROVE  ucTaskState'[t] \cap {ACTIVATE, POLLING} # {}
    BY <1>0, <1>4 DEF CallStateChange, taskVars
  <1>5. ASSUME NEW u \in TimerTasks, NEW d, NEW e, uTaskerMonoTimer(u, d, e)
        PROVE  ucTaskState'[t] \cap {ACTIVATE, POLLING} # {}
    BY <1>0, <1>5 DEF uTaskerMonoTimer, Ticks, TypeOK, ACTIVATE, POLLING, SUSPENDED
  <1>6. ASSUME NEW u \in TimerTasks, uTaskerStopTimer(u)
        PROVE  ucTaskState'[t] \cap {ACTIVATE, POLLING} # {}
    BY <1>0, <1>6 DEF uTaskerStopTimer, TypeOK
  <1>7. call.state \in {{ACTIVATE}, {POLLING}}
    BY RequestedStates DEF TypeOK
  <1>8. CASE ChangeStop
    BY <1>7, <1>8 DEF ChangeStop, Restarted, UTASKER_STOP
  <1>9. CASE ChangeSet
    <2>1. CASE t = call.task
      BY <1>7, <1>9, <2>1 DEF ChangeSet, TypeOK
    <2>2. CASE t # call.task
      BY <1>0, <1>9, <2>2 DEF ChangeSet, TypeOK
    <2> QED
      BY <2>1, <2>2
  <1>10. CASE fnRtmkSystemTick
    <2> DEFINE awake == {u \in Firing(TickAdd(uTaskerSystemTick, 1)) :
                            SUSPENDED \notin ucTaskState[u]}
    <2>1. CASE t \in awake
      BY <1>10, <2>1 DEF fnRtmkSystemTick
    <2>2. CASE t \notin awake
      BY <1>0, <1>10, <2>2 DEF fnRtmkSystemTick
    <2> QED
      BY <2>1, <2>2
  <1>11. ASSUME NEW u \in Tasks, DeviceInterrupt(u)
         PROVE  ucTaskState'[t] \cap {ACTIVATE, POLLING} # {}
    <2>1. CASE t = u
      BY <1>11, <2>1 DEF DeviceInterrupt, Activated, TypeOK
    <2>2. CASE t # u
      BY <1>0, <1>11, <2>2 DEF DeviceInterrupt, TypeOK
    <2> QED
      BY <2>1, <2>2
  <1> QED
    BY <1>1, <1>2, <1>3, <1>4, <1>5, <1>6, <1>8, <1>9, <1>10, <1>11
    DEF Next, Schedule, Calls, Interrupts, fnWriteInternal, RequestState,
        fnInterruptMessage, WakeFromInterrupt, QueueTasks

(* If no task is forced into STOP or GO, the event of a timer that fired   *)
(* always has a call of its task ahead of it that queues the event.        *)
THEOREM TimerEventsDeliverable ==
    ASSUME UTASKER_STOP \notin Requests, {GO} \notin Requests
    PROVE  Spec => []TimerEventDeliverable
  <1>1. Init => TimerEventDeliverable
    BY DEF Init, TimerEventDeliverable
  <1>2. TypeOK /\ TimerEventDeliverable /\ [Next]_vars
           => TimerEventDeliverable'
    BY DeliverableNext
  <1> QED
    BY <1>1, <1>2, TypeCorrect, PTL DEF Spec

(* Under the same conditions the processor never sleeps over a message, a  *)
(* timer event or a scheduled task.                                        *)
THEOREM SleepIsSafe ==
    ASSUME UTASKER_STOP \notin Requests, {GO} \notin Requests,
           SingleReaders = {}
    PROVE  Spec => []SleepsOnlyWhenIdle
  <1>1. Init => SleepsOnlyWhenIdle
    BY DEF Init, SleepsOnlyWhenIdle
  <1>2. ASSUME TypeOK, NoLostWakeup, TimerEventDeliverable,
               SleepsOnlyWhenIdle, [Next]_vars
        PROVE  SleepsOnlyWhenIdle'
    <2> SUFFICES ASSUME pc' = "sleep", NEW t \in Tasks \ {LowPowerTask}
                 PROVE  /\ queue'[t] = <<>>
                        /\ ucEvent'[t] = NON_EVENT
                        /\ ~(Schedulable(t)')
      BY DEF SleepsOnlyWhenIdle
    <2>1. CASE fnLowPower
      <3>1. ~Schedulable(t) /\ cur = LowPowerTask /\ pc = "run"
        BY <2>1 DEF fnLowPower
      <3>2. queue[t] = <<>>
        BY <1>2, <3>1 DEF NoLostWakeup, Attended, Reading, Activating
      <3>3. ucEvent[t] = NON_EVENT
        BY <1>2, <3>1 DEF TimerEventDeliverable, Schedulable
      <3> QED
        BY <2>1, <3>1, <3>2, <3>3 DEF fnLowPower, taskVars, Schedulable
    <2>2. CASE UNCHANGED vars
      BY <1>2, <2>2 DEF vars, taskVars, mainVars, SleepsOnlyWhenIdle, Schedulable
    <2>3. CASE Next /\ ~fnLowPower
      BY <2>3 DEF Next, Schedule, Calls, Interrupts, ScanSkip, ScanHit, Claim,
        Return, ReadMessage, ReadNothing, fnWriteInternal, RequestState,
        CallStateChange, KernelCall, uTaskerMonoTimer, uTaskerStopTimer,
        ChangeStop, ChangeDecide, ChangeSet, fnRtmkSystemTick, Wake,
        fnInterruptMessage, WakeFromInterrupt, DeviceInterrupt
    <2> QED
      BY <1>2, <2>1, <2>2, <2>3
  <1> QED
    BY <1>1, <1>2, TypeCorrect, NoWakeupLost, TimerEventsDeliverable, PTL
    DEF Spec

-----------------------------------------------------------------------------
(*                 The timer list implements TaskTimers                    *)

(* The distance to a tick that was set d ahead is d, and shrinks by one.   *)
LEMMA TicksToAdd ==
    ASSUME NEW a \in 0..TickMod-1, NEW d \in 0..TickMod-1
    PROVE  TicksTo(a, TickAdd(a, d)) = d
  BY Numbers DEF TicksTo, TickAdd

LEMMA TicksToStep ==
    ASSUME NEW a \in 0..TickMod-1, NEW b \in 0..TickMod-1, a # b
    PROVE  /\ TicksTo(a, b) \in 1..TickMod-1
           /\ TicksTo(a, b) = 1 <=> b = TickAdd(a, 1)
           /\ TicksTo(TickAdd(a, 1), b) = TicksTo(a, b) - 1
  BY Numbers DEF TicksTo, TickAdd

LEMMA TicksToType ==
    ASSUME NEW a \in 0..TickMod-1, NEW b \in 0..TickMod-1
    PROVE  TicksTo(a, b) \in 0..TickMod-1
  BY Numbers DEF TicksTo

(* Steps that touch no timer and no pending event are invisible.           *)
LEMMA TimersStutter ==
    ASSUME UNCHANGED <<uTaskerSystemTick, timerVars, TaskRepetition>>,
           \A t \in TimerTasks : ucEvent'[t] = ucEvent[t]
    PROVE  UNCHANGED Timers!tvars
  BY DEF Timers!tvars, timerVars, uTaskerRemainingTime

LEMMA TimersClaim ==
    ASSUME TypeOK, Claim
    PROVE  [Timers!TimersNext]_(Timers!tvars)
  <1>1. /\ UNCHANGED <<uTaskerSystemTick, timerVars, TaskRepetition>>
        /\ cur \in Tasks
    BY DEF Claim, TypeOK
  <1>2. CASE ucEvent' = ucEvent
    BY <1>1, <1>2, TimersStutter
  <1>3. CASE /\ ucEvent[cur] # NON_EVENT
             /\ ucEvent' = [ucEvent EXCEPT ![cur] = NON_EVENT]
    <2>1. CASE cur \notin TimerTasks
      <3>1. \A t \in TimerTasks : ucEvent'[t] = ucEvent[t]
        BY <1>3, <2>1 DEF TypeOK, TimerTasks
      <3> QED
        BY <1>1, <3>1, TimersStutter
    <2>2. ASSUME NEW t \in TimerTasks, t = cur
          PROVE  Timers!TimersNext
      <3>1. [u \in TimerTasks |-> ucEvent'[u]] =
               [[u \in TimerTasks |-> ucEvent[u]] EXCEPT ![t] = NON_EVENT]
        BY <1>3, <2>2 DEF TypeOK, TimerTasks
      <3>2. Timers!HandOver(t)
        BY <1>1, <1>3, <2>2, <3>1
        DEF Timers!HandOver, Timers!NON_EVENT, NON_EVENT, timerVars,
            uTaskerRemainingTime
      <3> QED
        BY <2>2, <3>2 DEF Timers!TimersNext
    <2> QED
      BY <2>1, <2>2
  <1> QED
    BY <1>2, <1>3 DEF Claim

LEMMA TimersMonoTimer ==
    ASSUME TypeOK, NEW t \in TimerTasks, NEW d \in Delays,
           NEW e \in TimerEvents \cup {NON_EVENT}, uTaskerMonoTimer(t, d, e)
    PROVE  Timers!TimersNext
  <1> DEFINE ticks == IF d = 0 THEN 1 ELSE d
             l == [u \in TimerTasks |-> uTaskerRemainingTime(u)]
             p == [u \in TimerTasks |-> TaskRepetition[u]]
  <1>1. /\ d \in 0..TickMod-1
        /\ ticks \in 0..TickMod-1
        /\ t \in Tasks
        /\ uTaskerSystemTick \in 0..TickMod-1
    BY KernelAssumption, Numbers DEF TimerTasks, TypeOK
  <1>2. TicksTo(uTaskerSystemTick, TickAdd(uTaskerSystemTick, ticks)) = ticks
    BY <1>1, TicksToAdd
  <1>3. /\ uTaskerSystemTick' = uTaskerSystemTick
        /\ ucEvent' = ucEvent
        /\ timerEvent' = [timerEvent EXCEPT ![t] = e]
        /\ ucTimerEnabled' = [ucTimerEnabled EXCEPT ![t] =
                                 ~(e = NON_EVENT /\ d = 0)]
        /\ TaskRepetition' = IF e = NON_EVENT
                             THEN [TaskRepetition EXCEPT ![t] = d]
                             ELSE TaskRepetition
        /\ taskDelay' = IF e = NON_EVENT /\ d = 0 THEN taskDelay
                        ELSE [taskDelay EXCEPT ![t] =
                                TickAdd(uTaskerSystemTick, ticks)]
    BY DEF uTaskerMonoTimer, Ticks, KernelCall
  <1>4. \A u \in TimerTasks :
           uTaskerRemainingTime(u)' =
              IF ucTimerEnabled'[u]
              THEN TicksTo(uTaskerSystemTick, taskDelay'[u]) ELSE 0
    BY <1>3 DEF uTaskerRemainingTime
  <1>5. ASSUME NEW u \in TimerTasks, u # t
        PROVE  uTaskerRemainingTime(u)' = uTaskerRemainingTime(u)
    BY <1>3, <1>4, <1>5 DEF uTaskerRemainingTime, TypeOK
  <1>6. CASE e # NON_EVENT
    <2>1. uTaskerRemainingTime(t)' = ticks
      BY <1>2, <1>3, <1>4, <1>6 DEF TypeOK
    <2>2. l' = [l EXCEPT ![t] = ticks]
      BY <1>5, <2>1
    <2>3. p' = p
      BY <1>3, <1>6
    <2>4. Timers!Start(t, d, e)
      BY <1>3, <1>6, <2>2, <2>3
      DEF Timers!Start, Timers!NON_EVENT, NON_EVENT
    <2> QED
      BY <1>1, <1>6, <2>4 DEF Timers!TimersNext
  <1>7. CASE e = NON_EVENT
    <2>1. uTaskerRemainingTime(t)' = d
      <3>1. CASE d = 0
        BY <1>3, <1>4, <1>7, <3>1 DEF TypeOK
      <3>2. CASE d # 0
        BY <1>2, <1>3, <1>4, <1>7, <3>2 DEF TypeOK
      <3> QED
        BY <3>1, <3>2
    <2>2. l' = [l EXCEPT ![t] = d]
      BY <1>5, <2>1
    <2>3. p' = [p EXCEPT ![t] = d]
      BY <1>1, <1>3, <1>7 DEF TypeOK, TimerTasks
    <2>4. Timers!SetPeriod(t, d)
      BY <1>3, <1>7, <2>2, <2>3
      DEF Timers!SetPeriod, Timers!NON_EVENT, NON_EVENT
    <2> QED
      BY <1>1, <2>4 DEF Timers!TimersNext
  <1> QED
    BY <1>6, <1>7

LEMMA TimersStopTimer ==
    ASSUME TypeOK, NEW t \in TimerTasks, uTaskerStopTimer(t)
    PROVE  Timers!TimersNext
  <1> DEFINE l == [u \in TimerTasks |-> uTaskerRemainingTime(u)]
  <1>1. /\ UNCHANGED <<uTaskerSystemTick, TaskRepetition, ucEvent, taskDelay>>
        /\ timerEvent' = [timerEvent EXCEPT ![t] = NON_EVENT]
        /\ ucTimerEnabled' = [ucTimerEnabled EXCEPT ![t] = FALSE]
    BY DEF uTaskerStopTimer, KernelCall
  <1>2. l' = [l EXCEPT ![t] = 0]
    BY <1>1 DEF uTaskerRemainingTime, TypeOK
  <1>3. Timers!Stop(t)
    BY <1>1, <1>2 DEF Timers!Stop, Timers!NON_EVENT, NON_EVENT
  <1> QED
    BY <1>3 DEF Timers!TimersNext

LEMMA TimersChangeStop ==
    ASSUME TypeOK, ArmedTimersFire, ChangeStop
    PROVE  [Timers!TimersNext]_(Timers!tvars)
  <1> DEFINE t == call.task
             l == [u \in TimerTasks |-> uTaskerRemainingTime(u)]
             p == [u \in TimerTasks |-> TaskRepetition[u]]
  <1>1. /\ t \in TimerTasks /\ t \in Tasks
        /\ UNCHANGED <<uTaskerSystemTick, TaskRepetition, ucEvent,
                       ucTimerEnabled, timerEvent>>
    BY DEF ChangeStop, Restarted, TimerTasks
  <1>2. CASE ~(TaskRepetition[t] # 0 /\ ucTimerEnabled[t])
    <2>1. l' = l
      BY <1>1, <1>2 DEF ChangeStop, Restarted, uTaskerRemainingTime, TypeOK
    <2> QED
      BY <1>1, <2>1 DEF Timers!tvars
  <1>3. CASE TaskRepetition[t] # 0 /\ ucTimerEnabled[t]
    <2>1. TicksTo(uTaskerSystemTick,
                  TickAdd(uTaskerSystemTick, TaskRepetition[t]))
             = TaskRepetition[t]
      BY <1>1, TicksToAdd DEF TypeOK
    <2>2. taskDelay' = [taskDelay EXCEPT ![t] =
                          TickAdd(uTaskerSystemTick, TaskRepetition[t])]
      BY <1>3 DEF ChangeStop, Restarted
    <2>3. l' = [l EXCEPT ![t] = TaskRepetition[t]]
      BY <1>1, <1>3, <2>1, <2>2 DEF uTaskerRemainingTime, TypeOK
    <2>4. l[t] # 0 /\ p[t] # 0 /\ p[t] = TaskRepetition[t]
      <3>1. uTaskerRemainingTime(t) \in 1..TickMod-1
        BY <1>1, <1>3, TicksToStep
        DEF uTaskerRemainingTime, TypeOK, ArmedTimersFire
      <3> QED
        BY <1>1, <1>3, <3>1
    <2>5. Timers!Resynchronise(t)
      BY <1>1, <2>3, <2>4 DEF Timers!Resynchronise
    <2> QED
      BY <1>1, <2>5 DEF Timers!TimersNext
  <1> QED
    BY <1>2, <1>3

LEMMA TimersTick ==
    ASSUME TypeOK, ArmedTimersFire, fnRtmkSystemTick
    PROVE  Timers!TimersNext
  <1> DEFINE tick == TickAdd(uTaskerSystemTick, 1)
             l == [u \in TimerTasks |-> uTaskerRemainingTime(u)]
             p == [u \in TimerTasks |-> TaskRepetition[u]]
             e == [u \in TimerTasks |-> ucEvent[u]]
  <1>1. /\ uTaskerSystemTick' = tick
        /\ tick \in 0..TickMod-1
        /\ UNCHANGED <<TaskRepetition, timerEvent>>
    <2>1. 1 \in 0..TickMod-1
      BY Numbers
    <2> QED
      BY <2>1, TickAddType DEF fnRtmkSystemTick, TypeOK
  <1>2. ASSUME NEW u \in TimerTasks
        PROVE  /\ u \in Tasks
               /\ l[u] = 1 <=> u \in Firing(tick)
               /\ l'[u] = CASE l[u] > 1 -> l[u] - 1
                            [] l[u] = 1 -> TaskRepetition[u]
                            [] OTHER -> 0
               /\ e'[u] = IF l[u] = 1 THEN timerEvent[u] ELSE e[u]
    <2>1. /\ u \in Tasks
          /\ l[u] = uTaskerRemainingTime(u)
          /\ l'[u] = IF ucTimerEnabled'[u]
                     THEN TicksTo(tick, taskDelay'[u]) ELSE 0
          /\ e[u] = ucEvent[u]
          /\ e'[u] = ucEvent'[u]
          /\ taskDelay[u] \in 0..TickMod-1
          /\ TaskRepetition[u] \in 0..TickMod-1
      BY <1>1 DEF TimerTasks, uTaskerRemainingTime, TypeOK
    <2>2. CASE ~ucTimerEnabled[u]
      <3>1. /\ u \notin Firing(tick)
            /\ l[u] = 0
            /\ l'[u] = 0
            /\ e'[u] = e[u]
        BY <2>1, <2>2
        DEF fnRtmkSystemTick, Firing, uTaskerRemainingTime, TypeOK
      <3> QED
        BY <2>1, <3>1
    <2>3. CASE ucTimerEnabled[u]
      <3>1. /\ l[u] \in 1..TickMod-1
            /\ l[u] = 1 <=> taskDelay[u] = tick
            /\ TicksTo(tick, taskDelay[u]) = l[u] - 1
            /\ SUSPENDED \notin ucTaskState[u]
        BY <2>1, <2>3, TicksToStep
        DEF uTaskerRemainingTime, TypeOK, ArmedTimersFire
      <3>2. l[u] = 1 <=> u \in Firing(tick)
        BY <2>3, <3>1 DEF Firing
      <3>3. CASE u \in Firing(tick)
        <4>1. e'[u] = timerEvent[u]
          BY <2>1, <3>1, <3>3 DEF fnRtmkSystemTick
        <4>2. CASE TaskRepetition[u] = 0
          <5>1. l'[u] = 0
            BY <2>1, <3>3, <4>2 DEF fnRtmkSystemTick
          <5> QED
            BY <2>1, <3>1, <3>2, <3>3, <4>1, <4>2, <5>1
        <4>3. CASE TaskRepetition[u] # 0
          <5>1. /\ ucTimerEnabled'[u]
                /\ taskDelay'[u] = TickAdd(tick, TaskRepetition[u])
            BY <2>3, <3>1, <3>2, <3>3, <4>3 DEF fnRtmkSystemTick
          <5>2. l'[u] = TaskRepetition[u]
            BY <1>1, <2>1, <5>1, TicksToAdd
          <5> QED
            BY <2>1, <3>1, <3>2, <3>3, <4>1, <5>2
        <4> QED
          BY <4>2, <4>3
      <3>4. CASE u \notin Firing(tick)
        <4>1. /\ ucTimerEnabled'[u]
              /\ taskDelay'[u] = taskDelay[u]
              /\ ucEvent'[u] = ucEvent[u]
          BY <2>1, <2>3, <3>4 DEF fnRtmkSystemTick
        <4>2. l'[u] = l[u] - 1 /\ l[u] > 1
          BY <2>1, <3>1, <3>2, <3>4, <4>1
        <4> QED
          BY <2>1, <3>1, <3>2, <3>4, <4>1, <4>2
      <3> QED
        BY <3>3, <3>4
    <2> QED
      BY <2>2, <2>3
  <1>3. l' = [u \in TimerTasks |-> CASE l[u] > 1 -> l[u] - 1
                                    [] l[u] = 1 -> p[u]
                                    [] OTHER -> 0]
    BY <1>2
  <1>4. e' = [u \in TimerTasks |-> IF l[u] = 1 THEN timerEvent[u] ELSE e[u]]
    BY <1>2
  <1>5. Timers!Elapse
    BY <1>1, <1>3, <1>4 DEF Timers!Elapse
  <1> QED
    BY <1>5 DEF Timers!TimersNext

(* The timer list, with its wrapping tick counter, flags and task states,  *)
(* implements plain countdown timers: every timer expires exactly once,    *)
(* after exactly the ticks it was set to, and then makes its event pending.*)
THEOREM TimersImplemented == Spec => ImplementsTaskTimers
  <1>1. Init => Timers!TimersInit
    <2> SUFFICES ASSUME Init PROVE Timers!TimersInit
      OBVIOUS
    <2>1. TypeOK
      BY TypeInit
    <2>2. ASSUME NEW t \in TimerTasks
          PROVE  uTaskerRemainingTime(t) \in 0..TickMod-1
      <3>1. TicksTo(uTaskerSystemTick, taskDelay[t]) \in 0..TickMod-1
        BY <2>1, TicksToType DEF TypeOK
      <3> QED
        BY <3>1, Numbers DEF uTaskerRemainingTime
    <2>3. \A t \in TimerTasks : /\ TaskRepetition[t] \in 0..TickMod-1
                                /\ ucEvent[t] = NON_EVENT
      BY <2>1 DEF TypeOK, TimerTasks, Init
    <2> QED
      BY <2>2, <2>3
      DEF Timers!TimersInit, Init, Timers!NON_EVENT, NON_EVENT
  <1>2. ASSUME TypeOK, ArmedTimersFire, [Next]_vars
        PROVE  [Timers!TimersNext]_(Timers!tvars)
    <2>1. CASE UNCHANGED vars
      BY <2>1, TimersStutter DEF vars, taskVars
    <2>2. CASE ScanSkip \/ ScanHit \/ Return \/ ReadMessage \/ ReadNothing
                  \/ ChangeDecide \/ ChangeSet \/ fnLowPower
      BY <2>2, TimersStutter
      DEF ScanSkip, ScanHit, Return, ReadMessage, ReadNothing, ChangeDecide,
          ChangeSet, fnLowPower, taskVars
    <2>3. ASSUME NEW t, NEW s, CallStateChange(t, s)
          PROVE  [Timers!TimersNext]_(Timers!tvars)
      BY <2>3, TimersStutter DEF CallStateChange, KernelCall, taskVars
    <2>4. ASSUME NEW t, DeviceInterrupt(t)
          PROVE  [Timers!TimersNext]_(Timers!tvars)
      BY <2>4, TimersStutter DEF DeviceInterrupt
    <2> QED
      BY <1>2, <2>1, <2>2, <2>3, <2>4, TimersClaim, TimersMonoTimer,
         TimersStopTimer, TimersChangeStop, TimersTick
      DEF Next, Schedule, Calls, Interrupts, fnWriteInternal, RequestState,
          fnInterruptMessage, WakeFromInterrupt
  <1> QED
    BY <1>1, <1>2, TypeCorrect, TimersSound, PTL
    DEF Spec, ImplementsTaskTimers, Timers!TimersSpec

=============================================================================
