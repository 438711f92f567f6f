-------------------------- MODULE GlobalTimerProofs --------------------------
(***************************************************************************)
(* What is proved of the global timers for any number of timer blocks,     *)
(* owners, events and delays, and any width of DELAY_LIMIT: GlobalTimer    *)
(* under GlobalTimerAssumption.                                            *)
(***************************************************************************)
EXTENDS GlobalTimer, FiniteSetTheorems, WellFoundedInduction, TLAPS

-----------------------------------------------------------------------------
(*                             Arithmetic                                  *)

Words == 0..DelayMod-1

LEMMA DelayArithmetic ==
    ASSUME NEW a \in Words, NEW d \in Words
    PROVE  /\ DelaySub(a, d) \in Words
           /\ DelayAdd(a, d) \in Words
           /\ d <= a => DelaySub(a, d) = a - d
           /\ a + d < DelayMod => DelayAdd(a, d) = a + d
  <1>1. DelayMod \in Nat
    BY GlobalTimerAssumption
  <1> QED
    BY <1>1, SMT DEF Words, DelaySub, DelayAdd

(* Delays are positive, and short of half the range of DELAY_LIMIT.        *)
LEMMA DelayRange ==
    ASSUME NEW d \in Delays
    PROVE  d \in Words /\ d > 0
  <1>1. DelayMod \in Nat /\ d \in Nat \ {0} /\ d + d < DelayMod
    BY GlobalTimerAssumption
  <1> QED
    BY <1>1, SMT DEF Words

(* A function into the naturals takes its lowest value on a finite set: of *)
(* the sets of elements with a lower value, a minimal one is empty.        *)
LEMMA LowestValue ==
    ASSUME NEW S, IsFiniteSet(S), S # {}, NEW f \in [S -> Nat]
    PROVE  \E c \in S : \A b \in S : f[c] <= f[b]
  <1> DEFINE Below(c) == {b \in S : f[b] < f[c]}
             T == {Below(c) : c \in S}
  <1>1. \A b, c \in S : f[b] \in Nat /\ f[c] \in Nat /\ (f[c] <= f[b] \/ f[b] < f[c])
    BY Z3
  <1>2. IsWellFoundedOn(StrictSubsetOrdering(S), SUBSET S)
    BY FS_FiniteSubsetsOfFinite, FS_StrictSubsetOrderingWellFounded
  <1>3. T \subseteq SUBSET S /\ T # {}
    <2>1. PICK e \in S : TRUE
      OBVIOUS
    <2>2. Below(e) \in T
      OBVIOUS
    <2> QED
      BY <2>2
  <1>4. PICK X \in T : \A Y \in T : ~ (<<Y, X>> \in StrictSubsetOrdering(S))
    <2> HIDE DEF T
    <2> QED
      BY <1>2, <1>3, WFMin
  <1>5. PICK c \in S : X = Below(c)
    BY <1>4
  <1>6. ASSUME NEW b \in S, f[b] < f[c] PROVE FALSE
    <2>1. Below(b) \subseteq Below(c)
      <3>1. SUFFICES ASSUME NEW a \in Below(b) PROVE f[a] < f[c]
        OBVIOUS
      <3>2. f[a] \in Nat /\ f[b] \in Nat /\ f[c] \in Nat /\ f[a] < f[b]
        OBVIOUS
      <3> QED
        BY <3>2, <1>6
    <2>2. b \in Below(c) /\ b \notin Below(b)
      <3>1. f[b] \in Nat
        OBVIOUS
      <3> QED
        BY <3>1, <1>6
    <2>3. Below(b) \in T /\ Below(b) \in SUBSET S /\ Below(c) \in SUBSET S
      OBVIOUS
    <2>4. <<Below(b), Below(c)>> \in StrictSubsetOrdering(S)
      <3> HIDE DEF Below
      <3> QED
        BY <2>1, <2>2, <2>3 DEF StrictSubsetOrdering
    <2> QED
      BY <1>4, <1>5, <2>3, <2>4
  <1> QED
    BY <1>1, <1>6

(* Among blocks in use there is one with the lowest delay.                 *)
LEMMA LowestExists ==
    ASSUME TypeOK, NEW B \in SUBSET InUse, B # {}
    PROVE  /\ LowestDelay(B) \in Words
           /\ fnGetSWFired(B) # {}
           /\ \A b \in fnGetSWFired(B) : stTimer[b].TimerDelay = LowestDelay(B)
           /\ \A b \in B : LowestDelay(B) <= stTimer[b].TimerDelay
  <1> DEFINE f == [b \in B |-> stTimer[b].TimerDelay]
  <1>1. Words \subseteq Nat /\ f \in [B -> Words]
    <2>1. Words \subseteq Nat
      BY GlobalTimerAssumption DEF Words
    <2> QED
      BY <2>1 DEF TypeOK, InUse, TimerBlocks, FreeBlock, Words
  <1>2. IsFiniteSet(B)
    <2>1. IsFiniteSet(Blocks)
      BY GlobalTimerAssumption, FS_Interval DEF Blocks
    <2> QED
      BY <2>1, FS_Subset DEF InUse
  <1>3. PICK c \in B : \A b \in B : f[c] <= f[b]
    <2>1. f \in [B -> Nat]
      BY <1>1
    <2> HIDE DEF f
    <2> QED
      BY <1>2, <2>1, LowestValue
  <1>4. c \in fnGetSWFired(B)
    BY <1>3 DEF fnGetSWFired
  <1>5. \A b, e \in fnGetSWFired(B) : stTimer[b].TimerDelay = stTimer[e].TimerDelay
    <2>1. SUFFICES ASSUME NEW b \in fnGetSWFired(B), NEW e \in fnGetSWFired(B)
                   PROVE  f[b] = f[e]
      BY DEF fnGetSWFired
    <2>2. f[b] \in Nat /\ f[e] \in Nat /\ f[b] <= f[e] /\ f[e] <= f[b]
      BY <1>1 DEF fnGetSWFired
    <2> QED
      BY <2>2
  <1>6. \A b \in fnGetSWFired(B) : stTimer[b].TimerDelay = LowestDelay(B)
    BY <1>4, <1>5 DEF LowestDelay
  <1>7. \A b \in B : LowestDelay(B) <= stTimer[b].TimerDelay
    BY <1>3, <1>4, <1>6
  <1> QED
    BY <1>1, <1>4, <1>6, <1>7

-----------------------------------------------------------------------------
(*                              Types                                      *)

(* A block holds a record with three fields, whatever is in it.            *)
AnyBlock == TimerBlocks \cup {FreeBlock}

LEMMA BlockFields ==
    ASSUME NEW k \in AnyBlock
    PROVE  /\ k.TimerDelay \in Words
           /\ k.OwnerTask # 0 => k \in TimerBlocks
           /\ k.OwnerTask = 0 => k = FreeBlock
           /\ k.OwnerTask # 0 => k.OwnerTask \in Owners /\ k.ucEvent \in Events
  <1>1. 0 \in Words /\ 0 \notin Owners
    BY GlobalTimerAssumption DEF Words
  <1> QED
    BY <1>1 DEF AnyBlock, TimerBlocks, FreeBlock, Words

LEMMA ReducedBlocks ==
    ASSUME NEW blocks \in [Blocks -> AnyBlock], NEW B \in SUBSET Blocks,
           \A b \in B : blocks[b].OwnerTask # 0, NEW d \in Words
    PROVE  /\ fnReduceSWTimers(blocks, B, d) \in [Blocks -> AnyBlock]
           /\ \A b \in Blocks :
                 LET k == fnReduceSWTimers(blocks, B, d)[b]
                 IN  /\ k.OwnerTask = blocks[b].OwnerTask
                     /\ k.ucEvent = blocks[b].ucEvent
                     /\ b \in B => k.TimerDelay = DelaySub(blocks[b].TimerDelay, d)
                     /\ b \notin B => k = blocks[b]
  <1>1. SUFFICES ASSUME NEW b \in Blocks
                 PROVE  LET k == fnReduceSWTimers(blocks, B, d)[b]
                        IN  /\ k \in AnyBlock
                            /\ k.OwnerTask = blocks[b].OwnerTask
                            /\ k.ucEvent = blocks[b].ucEvent
                            /\ b \in B => k.TimerDelay = DelaySub(blocks[b].TimerDelay, d)
                            /\ b \notin B => k = blocks[b]
    BY DEF fnReduceSWTimers
  <1>2. CASE b \notin B
    BY <1>2 DEF fnReduceSWTimers
  <1>3. CASE b \in B
    <2>1. blocks[b] \in TimerBlocks /\ DelaySub(blocks[b].TimerDelay, d) \in Words
      BY <1>3, BlockFields, DelayArithmetic
    <2>2. fnReduceSWTimers(blocks, B, d)[b] =
             [blocks[b] EXCEPT !.TimerDelay = DelaySub(blocks[b].TimerDelay, d)]
      BY <1>3 DEF fnReduceSWTimers
    <2> QED
      BY <2>1, <2>2, <1>3 DEF AnyBlock, TimerBlocks, Words
  <1> QED
    BY <1>2, <1>3

(* What the steps of the kernel timer do to its four values.               *)
LEMMA KernelSteps ==
    ASSUME Kernel!TimersTypeOK
    PROVE  /\ \A d \in Words : Kernel!Start(OWN_TASK, d, E_TIMER_FIRED) =>
                 /\ Kernel!TimersTypeOK'
                 /\ d > 0 => left'[OWN_TASK] = d
                 /\ armed'[OWN_TASK] = E_TIMER_FIRED
                 /\ UNCHANGED <<period, pending>>
           /\ Kernel!Stop(OWN_TASK) =>
                 /\ Kernel!TimersTypeOK'
                 /\ left'[OWN_TASK] = 0
                 /\ UNCHANGED <<period, pending>>
           /\ Kernel!HandOver(OWN_TASK) =>
                 /\ Kernel!TimersTypeOK'
                 /\ pending[OWN_TASK] # 0 /\ pending'[OWN_TASK] = 0
                 /\ UNCHANGED <<left, period, armed>>
           /\ Kernel!Elapse =>
                 /\ Kernel!TimersTypeOK'
                 /\ left[OWN_TASK] > 1 => left'[OWN_TASK] = left[OWN_TASK] - 1
                 /\ left[OWN_TASK] = 1 => left'[OWN_TASK] = period[OWN_TASK]
                 /\ left[OWN_TASK] = 0 => left'[OWN_TASK] = 0
                 /\ pending'[OWN_TASK] = IF left[OWN_TASK] = 1
                                         THEN armed[OWN_TASK] ELSE pending[OWN_TASK]
                 /\ UNCHANGED <<period, armed>>
           /\ left[OWN_TASK] \in Words
           /\ left = [k \in {OWN_TASK} |-> left[OWN_TASK]]
  <1>1. DelayMod \in Nat /\ DelayMod > 1
    BY GlobalTimerAssumption
  <1>2. /\ left \in [{OWN_TASK} -> 0..DelayMod-1]
        /\ period \in [{OWN_TASK} -> 0..DelayMod-1]
        /\ armed \in [{OWN_TASK} -> {E_TIMER_FIRED} \cup {0}]
        /\ pending \in [{OWN_TASK} -> {E_TIMER_FIRED} \cup {0}]
    BY DEF Kernel!TimersTypeOK, Kernel!NON_EVENT
  <1>3. ASSUME NEW d \in Words, Kernel!Start(OWN_TASK, d, E_TIMER_FIRED)
        PROVE  /\ Kernel!TimersTypeOK'
               /\ d > 0 => left'[OWN_TASK] = d
               /\ armed'[OWN_TASK] = E_TIMER_FIRED
               /\ UNCHANGED <<period, pending>>
    BY <1>1, <1>2, <1>3 DEF Words, Kernel!Start, Kernel!TimersTypeOK, Kernel!NON_EVENT
  <1>4. ASSUME Kernel!Stop(OWN_TASK)
        PROVE  /\ Kernel!TimersTypeOK'
               /\ left'[OWN_TASK] = 0
               /\ UNCHANGED <<period, pending>>
    BY <1>1, <1>2, <1>4 DEF Kernel!Stop, Kernel!TimersTypeOK, Kernel!NON_EVENT
  <1>5. ASSUME Kernel!HandOver(OWN_TASK)
        PROVE  /\ Kernel!TimersTypeOK'
               /\ pending[OWN_TASK] # 0 /\ pending'[OWN_TASK] = 0
               /\ UNCHANGED <<left, period, armed>>
    BY <1>1, <1>2, <1>5 DEF Kernel!HandOver, Kernel!TimersTypeOK, Kernel!NON_EVENT
  <1>6. ASSUME Kernel!Elapse
        PROVE  /\ Kernel!TimersTypeOK'
               /\ left[OWN_TASK] > 1 => left'[OWN_TASK] = left[OWN_TASK] - 1
               /\ left[OWN_TASK] = 1 => left'[OWN_TASK] = period[OWN_TASK]
               /\ left[OWN_TASK] = 0 => left'[OWN_TASK] = 0
               /\ pending'[OWN_TASK] = IF left[OWN_TASK] = 1
                                       THEN armed[OWN_TASK] ELSE pending[OWN_TASK]
               /\ UNCHANGED <<period, armed>>
    BY <1>1, <1>2, <1>6 DEF Kernel!Elapse, Kernel!TimersTypeOK, Kernel!NON_EVENT
  <1>7. left[OWN_TASK] \in Words /\ left = [k \in {OWN_TASK} |-> left[OWN_TASK]]
    BY <1>2 DEF Words
  <1> QED
    BY <1>3, <1>4, <1>5, <1>6, <1>7

-----------------------------------------------------------------------------
(*                    What an operation does to the blocks                 *)

NewBlock(t, d) == [OwnerTask |-> t[1], ucEvent |-> t[2], TimerDelay |-> d]

LEMMA BlocksType == TypeOK => stTimer \in [Blocks -> AnyBlock]
  BY DEF TypeOK, AnyBlock

LEMMA ElapsedType ==
    ASSUME TypeOK
    PROVE  NextFire \in Words /\ uTaskerRemainingTime \in Words /\ Elapsed \in Words
  <1>1. NextFire \in Words /\ uTaskerRemainingTime \in Words
    BY KernelSteps DEF TypeOK, Words, uTaskerRemainingTime
  <1> QED
    BY <1>1, DelayArithmetic DEF Elapsed

LEMMA NewBlockType ==
    ASSUME NEW t \in Timers, NEW d \in Words
    PROVE  NewBlock(t, d) \in TimerBlocks
  BY DEF NewBlock, Timers, TimerBlocks, Words

LEMMA QueueBehindEffect ==
    ASSUME TypeOK, NEW b \in Blocks, NEW t \in Timers, NEW d \in Delays,
           QueueBehind(b, t, d)
    PROVE  /\ stTimer' \in [Blocks -> AnyBlock]
           /\ stTimer'[b] = NewBlock(t, DelayAdd(d, Elapsed))
           /\ \A c \in Blocks \ {b} : stTimer'[c] = stTimer[c]
  <1>1. DelayAdd(d, Elapsed) \in Words
    BY DelayRange, ElapsedType, DelayArithmetic
  <1>2. NewBlock(t, DelayAdd(d, Elapsed)) \in AnyBlock
    BY <1>1, NewBlockType DEF AnyBlock
  <1>3. stTimer' = [stTimer EXCEPT ![b] = NewBlock(t, DelayAdd(d, Elapsed))]
    BY DEF QueueBehind, NewBlock
  <1> QED
    BY <1>2, <1>3, BlocksType

LEMMA StartFirstEffect ==
    ASSUME TypeOK, NEW b \in Blocks, NEW t \in Timers, NEW d \in Delays,
           StartFirst(b, t, d)
    PROVE  /\ stTimer' \in [Blocks -> AnyBlock]
           /\ stTimer'[b] = NewBlock(t, d)
           /\ \A c \in Blocks \ {b} :
                 /\ stTimer'[c].OwnerTask = stTimer[c].OwnerTask
                 /\ stTimer'[c].ucEvent = stTimer[c].ucEvent
                 /\ c \in InUse => stTimer'[c].TimerDelay =
                                      DelaySub(stTimer[c].TimerDelay, Elapsed)
  <1> DEFINE reduced == fnReduceSWTimers(stTimer, fnGetNotTimer(b), Elapsed)
  <1>1. /\ fnGetNotTimer(b) \in SUBSET Blocks
        /\ \A c \in fnGetNotTimer(b) : stTimer[c].OwnerTask # 0
    BY DEF fnGetNotTimer, InUse
  <1>2. /\ reduced \in [Blocks -> AnyBlock]
        /\ \A c \in Blocks :
              /\ reduced[c].OwnerTask = stTimer[c].OwnerTask
              /\ reduced[c].ucEvent = stTimer[c].ucEvent
              /\ c \in fnGetNotTimer(b) =>
                    reduced[c].TimerDelay = DelaySub(stTimer[c].TimerDelay, Elapsed)
    BY <1>1, BlocksType, ElapsedType, ReducedBlocks
  <1>3. NewBlock(t, d) \in AnyBlock
    BY DelayRange, NewBlockType DEF AnyBlock
  <1>4. stTimer' = [reduced EXCEPT ![b] = NewBlock(t, d)]
    BY DEF StartFirst, NewBlock
  <1>5. \A c \in Blocks \ {b} : stTimer'[c] = reduced[c]
    BY <1>2, <1>4
  <1>6. stTimer' \in [Blocks -> AnyBlock] /\ stTimer'[b] = NewBlock(t, d)
    BY <1>2, <1>3, <1>4
  <1> HIDE DEF reduced
  <1> QED
    BY <1>2, <1>5, <1>6 DEF fnGetNotTimer

LEMMA StopEffect ==
    ASSUME TypeOK, NEW B, StopBlocks(B)
    PROVE  /\ stTimer' \in [Blocks -> AnyBlock]
           /\ \A c \in Blocks : IF c \in B THEN stTimer'[c] = FreeBlock
                                           ELSE stTimer'[c] = stTimer[c]
  BY BlocksType DEF StopBlocks, AnyBlock

(* The timers an expiry leaves, and the time that it takes off them.       *)
Kept == InUse \ DueTimers
Passed == IF DueTimers # {} THEN LowestDelay(DueTimers) ELSE NextFire

(* The timers that are due have one delay, the others a later one, and the *)
(* kernel timer is started for the first of those.                         *)
LEMMA DueEffect ==
    ASSUME TypeOK, fnSWTimerFired
    PROVE  /\ Passed \in Words
           /\ \A b \in DueTimers : stTimer[b].TimerDelay = Passed /\ Passed <= NextFire
           /\ \A b \in Kept : stTimer[b].TimerDelay > Passed
           /\ sent' = {TimerOf(b) : b \in DueTimers}
           /\ stTimer' \in [Blocks -> AnyBlock]
           /\ \A c \in Blocks \ InUse : stTimer'[c] = stTimer[c]
           /\ \A c \in DueTimers : stTimer'[c] = FreeBlock
           /\ \A c \in Kept :
                 /\ stTimer'[c].OwnerTask = stTimer[c].OwnerTask
                 /\ stTimer'[c].ucEvent = stTimer[c].ucEvent
                 /\ stTimer'[c].TimerDelay = stTimer[c].TimerDelay - Passed
           /\ Kept = {} => UNCHANGED <<NextFire, kernelVars>>
           /\ Kept # {} =>
                 /\ NextFire' \in Words /\ NextFire' > 0
                 /\ \A c \in Kept : NextFire' <= stTimer[c].TimerDelay - Passed
                 /\ \E c \in Kept : NextFire' = stTimer[c].TimerDelay - Passed
                 /\ uTaskerMonoTimer(NextFire')
  <1> DEFINE blocks == [b \in Blocks |-> IF b \in DueTimers THEN FreeBlock ELSE stTimer[b]]
             d == DelaySub(LowestDelay(Kept), Passed)
  <1>1. /\ sent' = {TimerOf(b) : b \in DueTimers}
        /\ stTimer' = fnReduceSWTimers(blocks, Kept, Passed)
        /\ Kept # {} => uTaskerMonoTimer(d) /\ NextFire' = d
        /\ Kept = {} => UNCHANGED <<NextFire, kernelVars>>
    BY DEF fnSWTimerFired, Kept, Passed, uTaskerMonoTimer
  <1>2. DueTimers \subseteq InUse /\ Kept \subseteq InUse /\ InUse \subseteq Blocks
    BY DEF DueTimers, fnGetSWFired, InUse, Kept
  <1>3. \A b \in InUse : stTimer[b].TimerDelay \in Nat /\ stTimer[b].TimerDelay \in Words
    BY GlobalTimerAssumption, BlocksType, BlockFields DEF InUse, Words
  <1>4. NextFire \in Words /\ NextFire \in Nat
    BY GlobalTimerAssumption, ElapsedType DEF Words
  <1>5. Passed \in Words /\ Passed \in Nat
    <2>1. DueTimers # {} => LowestDelay(DueTimers) \in Words
      BY <1>2, LowestExists
    <2> QED
      BY <2>1, <1>4, GlobalTimerAssumption DEF Words, Passed
  <1>6. \A b \in DueTimers : stTimer[b].TimerDelay = Passed /\ Passed <= NextFire
    <2>1. SUFFICES ASSUME NEW b \in DueTimers
                   PROVE  stTimer[b].TimerDelay = LowestDelay(DueTimers)
      BY <1>4 DEF DueTimers, Passed
    <2>2. b \in fnGetSWFired(DueTimers)
      BY <1>2 DEF DueTimers, fnGetSWFired
    <2> QED
      BY <1>2, <2>2, LowestExists
  <1>7. \A b \in Kept : stTimer[b].TimerDelay > Passed
    <2>1. SUFFICES ASSUME NEW b \in Kept, ~(stTimer[b].TimerDelay > Passed) PROVE FALSE
      OBVIOUS
    <2>2. stTimer[b].TimerDelay <= Passed /\ Passed <= NextFire
      <3>1. Passed <= NextFire
        <4>1. DueTimers # {} => Passed <= NextFire
          BY <1>6
        <4> QED
          BY <4>1, <1>4 DEF Passed
      <3>2. stTimer[b].TimerDelay \in Nat
        BY <1>2, <1>3
      <3> QED
        BY <1>5, <2>1, <3>1, <3>2
    <2>3. PICK c \in fnGetSWFired(InUse) : TRUE
      BY <1>2, LowestExists
    <2>4. /\ c \in InUse
          /\ stTimer[c].TimerDelay <= stTimer[b].TimerDelay
          /\ \A e \in InUse : stTimer[c].TimerDelay <= stTimer[e].TimerDelay
      BY <1>2, <2>3 DEF fnGetSWFired
    <2>5. stTimer[c].TimerDelay <= NextFire
      BY <1>2, <1>3, <1>4, <1>5, <2>2, <2>4
    <2>6. c \in DueTimers
      BY <2>3, <2>5 DEF DueTimers
    <2>7. Passed = stTimer[c].TimerDelay
      BY <2>6, <1>6
    <2>8. \A e \in InUse : stTimer[b].TimerDelay <= stTimer[e].TimerDelay
      BY <1>2, <1>3, <2>2, <2>4, <2>7
    <2>9. stTimer[b].TimerDelay <= NextFire
      BY <1>2, <1>3, <1>4, <1>5, <2>2
    <2>10. b \in DueTimers
      BY <1>2, <2>8, <2>9 DEF DueTimers, fnGetSWFired, Kept
    <2> QED
      BY <2>10 DEF Kept
  <1>8. /\ blocks \in [Blocks -> AnyBlock]
        /\ Kept \in SUBSET Blocks
        /\ \A b \in Kept : blocks[b] = stTimer[b] /\ blocks[b].OwnerTask # 0
        /\ \A b \in DueTimers : blocks[b] = FreeBlock
        /\ \A b \in Blocks \ InUse : blocks[b] = stTimer[b]
    BY <1>2, BlocksType DEF AnyBlock, InUse, Kept
  <1>9. /\ stTimer' \in [Blocks -> AnyBlock]
        /\ \A c \in Blocks \ InUse : stTimer'[c] = stTimer[c]
        /\ \A c \in DueTimers : stTimer'[c] = FreeBlock
        /\ \A c \in Kept : /\ stTimer'[c].OwnerTask = stTimer[c].OwnerTask
                           /\ stTimer'[c].ucEvent = stTimer[c].ucEvent
                           /\ stTimer'[c].TimerDelay = DelaySub(stTimer[c].TimerDelay, Passed)
    <2>1. \A c \in Blocks : c \in DueTimers \/ c \in Kept \/ c \in Blocks \ InUse
      BY DEF Kept
    <2>2. (Blocks \ InUse) \cap Kept = {} /\ DueTimers \cap Kept = {}
      BY DEF Kept
    <2> DEFINE after == fnReduceSWTimers(blocks, Kept, Passed)
    <2>3. /\ after \in [Blocks -> AnyBlock]
          /\ \A c \in Blocks :
                /\ after[c].OwnerTask = blocks[c].OwnerTask
                /\ after[c].ucEvent = blocks[c].ucEvent
                /\ c \in Kept => after[c].TimerDelay = DelaySub(blocks[c].TimerDelay, Passed)
                /\ c \notin Kept => after[c] = blocks[c]
      <3> HIDE DEF blocks
      <3> QED
        BY <1>5, <1>8, ReducedBlocks
    <2>4. stTimer' = after
      BY <1>1
    <2> HIDE DEF blocks, after
    <2> QED
      BY <1>2, <1>8, <2>2, <2>3, <2>4
  <1>10. \A c \in Kept : DelaySub(stTimer[c].TimerDelay, Passed) = stTimer[c].TimerDelay - Passed
    BY <1>2, <1>3, <1>5, <1>7, DelayArithmetic
  <1>11. Kept # {} =>
           /\ d \in Words /\ d > 0
           /\ \A c \in Kept : d <= stTimer[c].TimerDelay - Passed
           /\ \E c \in Kept : d = stTimer[c].TimerDelay - Passed
    <2>1. SUFFICES ASSUME Kept # {}
                   PROVE  /\ d \in Words /\ d > 0
                          /\ \A c \in Kept : d <= stTimer[c].TimerDelay - Passed
                          /\ \E c \in Kept : d = stTimer[c].TimerDelay - Passed
      OBVIOUS
    <2>2. PICK e \in fnGetSWFired(Kept) : TRUE
      BY <1>2, <2>1, LowestExists
    <2>3. e \in Kept /\ stTimer[e].TimerDelay = LowestDelay(Kept)
      BY <1>2, <2>1, <2>2, LowestExists DEF fnGetSWFired
    <2>4. d = stTimer[e].TimerDelay - Passed /\ d \in Words
      BY <1>2, <1>3, <1>5, <1>10, <2>3, DelayArithmetic
    <2>5. \A c \in Kept : stTimer[e].TimerDelay <= stTimer[c].TimerDelay
      BY <2>2 DEF fnGetSWFired
    <2> QED
      BY <1>2, <1>3, <1>5, <1>7, <2>3, <2>4, <2>5
  <1> HIDE DEF d
  <1> QED
    BY <1>1, <1>5, <1>6, <1>7, <1>9, <1>10, <1>11

-----------------------------------------------------------------------------
(*                           Type correctness                              *)

LEMMA TypeInit == Init => TypeOK
  <1> SUFFICES ASSUME Init PROVE TypeOK
    OBVIOUS
  <1>1. DelayMod \in Nat /\ DelayMod > 1
    BY GlobalTimerAssumption
  <1>2. stTimer \in [Blocks -> TimerBlocks \cup {FreeBlock}] /\ NextFire \in 0..DelayMod-1
    BY <1>1 DEF Init
  <1>3. Kernel!TimersTypeOK
    BY <1>1 DEF Init, Kernel!TimersTypeOK, Kernel!NON_EVENT
  <1> QED
    BY <1>2, <1>3 DEF Init, TypeOK

LEMMA TypeNext == TypeOK /\ [Next]_vars => TypeOK'
  <1> SUFFICES ASSUME TypeOK, [Next]_vars PROVE TypeOK'
    OBVIOUS
  <1>1. Kernel!TimersTypeOK /\ NextFire \in Words /\ handling \in BOOLEAN
    BY DEF TypeOK, Words
  <1>2. stTimer \in [Blocks -> AnyBlock]
    BY BlocksType
  <1>3. ASSUME stTimer' \in [Blocks -> AnyBlock], NextFire' \in Words,
               Kernel!TimersTypeOK', handling' \in BOOLEAN, sent' \in SUBSET Timers
        PROVE  TypeOK'
    BY <1>3 DEF TypeOK, AnyBlock, Words
  <1>4. ASSUME UNCHANGED kernelVars PROVE Kernel!TimersTypeOK'
    BY <1>1, <1>4 DEF kernelVars, Kernel!TimersTypeOK
  <1>5. ASSUME NEW t \in Timers, NEW d \in Delays, uTaskerGlobalMonoTimer(t, d)
        PROVE  TypeOK'
    <2>1. PICK b \in Blocks : fnStartNewTimer(b, t, d)
      BY <1>5 DEF uTaskerGlobalMonoTimer, fnGetOwnerTimer, fnGetFreeTimer, InUse
    <2>2. handling' \in BOOLEAN /\ sent' \in SUBSET Timers
      BY <1>1, <1>5 DEF uTaskerGlobalMonoTimer
    <2>3. CASE StartFirst(b, t, d)
      <3>1. Kernel!Start(OWN_TASK, d, E_TIMER_FIRED) /\ NextFire' = d
        BY <2>3 DEF StartFirst, uTaskerMonoTimer
      <3> QED
        BY <3>1, <2>2, <2>3, <1>1, <1>3, StartFirstEffect, DelayRange, KernelSteps
    <2>4. CASE QueueBehind(b, t, d)
      <3>1. UNCHANGED kernelVars /\ NextFire' = NextFire
        BY <2>4 DEF QueueBehind
      <3> QED
        BY <3>1, <2>2, <2>4, <1>1, <1>3, <1>4, QueueBehindEffect
    <2> QED
      BY <2>1, <2>3, <2>4 DEF fnStartNewTimer
  <1>6. ASSUME NEW owner \in Owners, NEW event \in Events \cup {0},
               uTaskerGlobalStopTimer(owner, event)
        PROVE  TypeOK'
    <2>1. PICK B : StopBlocks(B)
      BY <1>6 DEF uTaskerGlobalStopTimer
    <2>2. /\ handling' \in BOOLEAN /\ sent' \in SUBSET Timers
          /\ NextFire' = NextFire
          /\ Kernel!Stop(OWN_TASK) \/ UNCHANGED kernelVars
      BY <1>1, <1>6, <2>1 DEF uTaskerGlobalStopTimer, StopBlocks
    <2> QED
      BY <2>1, <2>2, <1>1, <1>3, <1>4, StopEffect, KernelSteps
  <1>7. ASSUME fnRtmkSystemTick PROVE TypeOK'
    <2>1. /\ Kernel!Elapse /\ sent' = {} /\ stTimer' = stTimer
          /\ NextFire' = NextFire /\ handling' = handling
      BY <1>7 DEF fnRtmkSystemTick
    <2> QED
      BY <2>1, <1>1, <1>2, <1>3, KernelSteps
  <1>8. ASSUME uTaskerSchedule PROVE TypeOK'
    <2>1. /\ Kernel!HandOver(OWN_TASK) /\ sent' = {} /\ stTimer' = stTimer
          /\ NextFire' = NextFire /\ handling' = TRUE
      BY <1>8 DEF uTaskerSchedule
    <2> QED
      BY <2>1, <1>1, <1>2, <1>3, KernelSteps
  <1>9. ASSUME fnTimer PROVE TypeOK'
    <2>1. fnSWTimerFired /\ handling' \in BOOLEAN
      BY <1>9 DEF fnTimer
    <2>2. sent' \in SUBSET Timers
      <3>1. \A b \in DueTimers : b \in Blocks /\ stTimer[b].OwnerTask # 0
        BY DEF DueTimers, fnGetSWFired, InUse
      <3>2. \A b \in DueTimers : TimerOf(b) \in Timers
        BY <3>1, <1>2, BlockFields DEF TimerOf, Timers
      <3> QED
        BY <3>2, <2>1, DueEffect
    <2>3. NextFire' \in Words /\ Kernel!TimersTypeOK'
      <3>1. CASE Kept = {}
        BY <3>1, <2>1, <1>1, <1>4, DueEffect
      <3>2. CASE Kept # {}
        <4>1. NextFire' \in Words /\ Kernel!Start(OWN_TASK, NextFire', E_TIMER_FIRED)
          BY <3>2, <2>1, DueEffect DEF uTaskerMonoTimer
        <4> QED
          BY <4>1, <1>1, KernelSteps
      <3> QED
        BY <3>1, <3>2
    <2> QED
      BY <2>1, <2>2, <2>3, <1>3, DueEffect
  <1>10. CASE UNCHANGED vars
    BY <1>10 DEF vars, kernelVars, TypeOK, Kernel!TimersTypeOK
  <1> QED
    BY <1>5, <1>6, <1>7, <1>8, <1>9, <1>10 DEF Next

(* Every block, the delay of the kernel timer and the kernel timer itself  *)
(* stay within their types, DELAY_LIMIT above all: uTasker/GlobalTimer.c.  *)
THEOREM TypesHold == Spec => []TypeOK
  BY TypeInit, TypeNext, PTL DEF Spec

-----------------------------------------------------------------------------
(*                             The invariant                               *)

(* The kernel timer counts down what NextFire says, once, and is at rest   *)
(* while its event waits.                                                  *)
KernelCounts ==
    /\ uTaskerRemainingTime <= NextFire
    /\ period[OWN_TASK] = 0
    /\ uTaskerRemainingTime # 0 => armed[OWN_TASK] = E_TIMER_FIRED
    /\ EventWaits => uTaskerRemainingTime = 0
    /\ handling => pending[OWN_TASK] = 0
    /\ \A d \in Delays : d + NextFire < DelayMod

(* No timer is in use that the kernel timer will not come back to, none is *)
(* due before the kernel timer fires, a new delay can be counted from its  *)
(* start without overflow, and no timer has two blocks.                    *)
BlocksCount ==
    /\ InUse # {} => EventWaits \/ uTaskerRemainingTime # 0
    /\ \A b \in InUse : NextFire <= stTimer[b].TimerDelay
    /\ \A b \in InUse : \A d \in Delays : d + TimeLeft(b) < DelayMod
    /\ \A b, c \in InUse : TimerOf(b) = TimerOf(c) => b = c

IInv == TypeOK /\ KernelCounts /\ BlocksCount

(* Under the invariant no subtraction wraps.                               *)
LEMMA Counting ==
    ASSUME IInv
    PROVE  /\ DelayMod \in Nat /\ NextFire \in Nat /\ uTaskerRemainingTime \in Nat
           /\ Elapsed \in Nat /\ Elapsed = NextFire - uTaskerRemainingTime
           /\ \A b \in InUse :
                 /\ b \in Blocks
                 /\ stTimer[b].TimerDelay \in Nat /\ stTimer[b].TimerDelay < DelayMod
                 /\ TimeLeft(b) \in Nat /\ TimeLeft(b) >= uTaskerRemainingTime
                 /\ TimeLeft(b) = stTimer[b].TimerDelay - Elapsed
                 /\ DelaySub(stTimer[b].TimerDelay, Elapsed) = TimeLeft(b)
                 /\ TimerOf(b) \in Timers
  <1>1. DelayMod \in Nat /\ DelayMod > 1
    BY GlobalTimerAssumption
  <1>2. /\ NextFire \in Nat /\ uTaskerRemainingTime \in Nat
        /\ uTaskerRemainingTime <= NextFire
        /\ NextFire \in Words /\ uTaskerRemainingTime \in Words /\ Elapsed \in Words
    BY <1>1, ElapsedType DEF IInv, KernelCounts, Words
  <1>3. Elapsed = NextFire - uTaskerRemainingTime /\ Elapsed \in Nat
    BY <1>2, DelayArithmetic DEF Elapsed
  <1>4. ASSUME NEW b \in InUse
        PROVE  /\ b \in Blocks
               /\ stTimer[b].TimerDelay \in Nat /\ stTimer[b].TimerDelay < DelayMod
               /\ TimeLeft(b) \in Nat /\ TimeLeft(b) >= uTaskerRemainingTime
               /\ TimeLeft(b) = stTimer[b].TimerDelay - Elapsed
               /\ DelaySub(stTimer[b].TimerDelay, Elapsed) = TimeLeft(b)
               /\ TimerOf(b) \in Timers
    <2>1. b \in Blocks /\ stTimer[b] \in AnyBlock /\ stTimer[b].OwnerTask # 0
      BY BlocksType DEF InUse, IInv
    <2>2. TimerOf(b) \in Timers /\ stTimer[b].TimerDelay \in Words
      BY <2>1, BlockFields DEF TimerOf, Timers
    <2>3. stTimer[b].TimerDelay \in Nat /\ stTimer[b].TimerDelay < DelayMod
      BY <1>1, <2>2 DEF Words
    <2>4. NextFire <= stTimer[b].TimerDelay
      BY DEF IInv, BlocksCount
    <2>5. TimeLeft(b) = stTimer[b].TimerDelay - Elapsed /\ TimeLeft(b) \in Nat
          /\ TimeLeft(b) >= uTaskerRemainingTime /\ Elapsed <= stTimer[b].TimerDelay
      BY <1>2, <1>3, <2>3, <2>4 DEF TimeLeft
    <2>6. DelaySub(stTimer[b].TimerDelay, Elapsed) = TimeLeft(b)
      BY <1>2, <1>3, <2>2, <2>5, DelayArithmetic
    <2> QED
      BY <2>1, <2>2, <2>3, <2>5, <2>6
  <1> QED
    BY <1>1, <1>2, <1>3, <1>4

LEMMA IInvInit == Init => IInv
  <1> SUFFICES ASSUME Init PROVE IInv
    OBVIOUS
  <1>1. InUse = {}
    BY DEF Init, InUse, FreeBlock
  <1>2. uTaskerRemainingTime = 0 /\ NextFire = 0 /\ period[OWN_TASK] = 0 /\ ~EventWaits
    BY DEF Init, uTaskerRemainingTime, EventWaits
  <1>3. \A d \in Delays : d + NextFire < DelayMod
    <2>1. SUFFICES ASSUME NEW d \in Delays PROVE d + 0 < DelayMod
      BY <1>2
    <2>2. d \in Nat /\ DelayMod \in Nat /\ d + d < DelayMod
      BY GlobalTimerAssumption
    <2> QED
      BY <2>2
  <1>4. KernelCounts
    BY <1>2, <1>3 DEF KernelCounts, Init
  <1>5. BlocksCount
    BY <1>1 DEF BlocksCount
  <1> QED
    BY <1>4, <1>5, TypeInit DEF IInv

(* Setting timer t to d: one block holds it then, and has d to go; the     *)
(* time that the others have to go is as before.                           *)
Sets(b, t, d) ==
    /\ b \in Blocks
    /\ InUse' = InUse \cup {b}
    /\ TimerOf(b)' = t /\ TimeLeft(b)' = d
    /\ \A c \in InUse \ {b} :
          /\ TimerOf(c)' = TimerOf(c) /\ TimeLeft(c)' = TimeLeft(c)
          /\ TimerOf(c) # t
    /\ b \in InUse => TimerOf(b) = t

LEMMA StartStep ==
    ASSUME IInv, StaleStarts = FALSE, NEW t \in Timers, NEW d \in Delays,
           uTaskerGlobalMonoTimer(t, d)
    PROVE  /\ KernelCounts' /\ BlocksCount'
           /\ \E b \in Blocks : Sets(b, t, d)
  <1>1. PICK b \in IF fnGetOwnerTimer(t) # {} THEN fnGetOwnerTimer(t) ELSE fnGetFreeTimer :
           (~EventWaits \/ fnGetNotTimer(b) # {}) /\ fnStartNewTimer(b, t, d)
    BY DEF uTaskerGlobalMonoTimer
  <1>2. /\ b \in Blocks
        /\ b \in InUse => TimerOf(b) = t
        /\ \A c \in InUse \ {b} : TimerOf(c) # t
    <2>1. CASE fnGetOwnerTimer(t) # {}
      BY <2>1, <1>1 DEF fnGetOwnerTimer, InUse, IInv, BlocksCount
    <2>2. CASE fnGetOwnerTimer(t) = {}
      BY <2>2, <1>1 DEF fnGetOwnerTimer, fnGetFreeTimer, InUse
    <2> QED
      BY <2>1, <2>2
  <1>3. /\ DelayMod \in Nat /\ d \in Nat /\ d \in Words /\ d > 0
        /\ \A e \in Delays : e \in Nat /\ e + d < DelayMod
        /\ t[1] # 0 /\ t = <<t[1], t[2]>> /\ ~handling /\ handling' = handling
    BY GlobalTimerAssumption, DelayRange DEF Timers, uTaskerGlobalMonoTimer
  <1>4. Kernel!TimersTypeOK /\ TypeOK
    BY DEF IInv, TypeOK
  <1>7. ASSUME stTimer'[b].OwnerTask = t[1], stTimer'[b].ucEvent = t[2],
                \A c \in Blocks \ {b} :
                    /\ stTimer'[c].OwnerTask = stTimer[c].OwnerTask
                    /\ stTimer'[c].ucEvent = stTimer[c].ucEvent
         PROVE  /\ InUse' = InUse \cup {b} /\ TimerOf(b)' = t
                /\ \A c \in InUse \ {b} : TimerOf(c)' = TimerOf(c)
    <2>1. TimerOf(b)' = t
      BY <1>3, <1>7 DEF TimerOf
    <2>2. \A c \in Blocks : c \in InUse' <=> c \in InUse \cup {b}
      BY <1>3, <1>7 DEF InUse
    <2>3. \A c \in InUse \ {b} : TimerOf(c)' = TimerOf(c)
      BY <1>7 DEF TimerOf, InUse
    <2> QED
      BY <1>2, <2>1, <2>2, <2>3 DEF InUse
  <1>5. CASE fnGetNotTimer(b) = {} \/ uTaskerRemainingTime > d
    <2>1. StartFirst(b, t, d)
      BY <1>1, <1>5 DEF fnStartNewTimer
    <2>2. /\ stTimer'[b] = NewBlock(t, d)
          /\ \A c \in Blocks \ {b} :
                /\ stTimer'[c].OwnerTask = stTimer[c].OwnerTask
                /\ stTimer'[c].ucEvent = stTimer[c].ucEvent
                /\ c \in InUse => stTimer'[c].TimerDelay = TimeLeft(c)
      BY <1>2, <1>4, <2>1, StartFirstEffect, Counting
    <2>3. /\ uTaskerRemainingTime' = d /\ NextFire' = d
          /\ armed'[OWN_TASK] = E_TIMER_FIRED /\ period' = period /\ pending' = pending
      <3>1. Kernel!Start(OWN_TASK, d, E_TIMER_FIRED) /\ NextFire' = d
        BY <2>1 DEF StartFirst, uTaskerMonoTimer
      <3> QED
        BY <3>1, <1>3, <1>4, KernelSteps DEF uTaskerRemainingTime
    <2>4. ~EventWaits /\ ~EventWaits'
      <3>1. EventWaits => fnGetNotTimer(b) # {} /\ uTaskerRemainingTime = 0
        BY <1>1 DEF IInv, KernelCounts
      <3>2. ~EventWaits
        BY <3>1, <1>3, <1>5
      <3> QED
        BY <3>2, <2>3, <1>3 DEF EventWaits
    <2>5. KernelCounts'
      BY <1>3, <2>3, <2>4 DEF KernelCounts, IInv
    <2>6. /\ InUse' = InUse \cup {b} /\ TimerOf(b)' = t
          /\ \A c \in InUse \ {b} : TimerOf(c)' = TimerOf(c)
      BY <1>7, <2>2 DEF NewBlock
    <2>7. stTimer'[b].TimerDelay = d /\ TimeLeft(b)' = d
      BY <1>3, <2>2, <2>3 DEF NewBlock, TimeLeft
    <2>8. ASSUME NEW c \in InUse \ {b}
          PROVE  TimeLeft(c)' = TimeLeft(c) /\ NextFire' <= stTimer'[c].TimerDelay
      <3>1. c \in fnGetNotTimer(b) /\ c \in Blocks \ {b}
        BY DEF fnGetNotTimer, InUse
      <3>2. stTimer'[c].TimerDelay = TimeLeft(c)
        BY <3>1, <2>2
      <3>3. TimeLeft(c) \in Nat /\ uTaskerRemainingTime \in Nat
            /\ uTaskerRemainingTime <= TimeLeft(c) /\ uTaskerRemainingTime > d
        BY <3>1, <1>5, Counting
      <3> QED
        BY <3>2, <3>3, <1>3, <2>3 DEF TimeLeft
    <2>9. Sets(b, t, d)
      BY <1>2, <2>6, <2>7, <2>8 DEF Sets
    <2>10. BlocksCount'
      <3>1. InUse' # {} => EventWaits' \/ uTaskerRemainingTime' # 0
        BY <1>3, <2>3
      <3>2. \A c \in InUse' : NextFire' <= stTimer'[c].TimerDelay
        BY <1>3, <2>3, <2>6, <2>7, <2>8
      <3>3. \A c \in InUse' : \A e \in Delays : e + TimeLeft(c)' < DelayMod
        BY <1>3, <2>6, <2>7, <2>8 DEF IInv, BlocksCount
      <3>4. \A c, e \in InUse' : TimerOf(c)' = TimerOf(e)' => c = e
        BY <1>2, <2>6 DEF IInv, BlocksCount
      <3> QED
        BY <3>1, <3>2, <3>3, <3>4 DEF BlocksCount
    <2> QED
      BY <1>2, <2>5, <2>9, <2>10
  <1>6. CASE ~(fnGetNotTimer(b) = {} \/ uTaskerRemainingTime > d)
    <2>1. QueueBehind(b, t, d)
      BY <1>1, <1>6 DEF fnStartNewTimer
    <2>2. /\ DelayAdd(d, Elapsed) = d + Elapsed
          /\ Elapsed \in Nat /\ NextFire \in Nat /\ uTaskerRemainingTime \in Nat
          /\ Elapsed = NextFire - uTaskerRemainingTime
          /\ uTaskerRemainingTime <= d
      <3>1. d + NextFire < DelayMod
        BY DEF IInv, KernelCounts
      <3>2. d + Elapsed < DelayMod
        BY <1>3, <3>1, Counting
      <3> QED
        BY <1>3, <1>4, <1>6, <3>2, Counting, ElapsedType, DelayArithmetic
    <2>3. /\ stTimer'[b] = NewBlock(t, d + Elapsed)
          /\ \A c \in Blocks \ {b} : stTimer'[c] = stTimer[c]
      BY <1>2, <1>4, <2>1, <2>2, QueueBehindEffect
    <2>4. /\ uTaskerRemainingTime' = uTaskerRemainingTime /\ NextFire' = NextFire
          /\ EventWaits' = EventWaits /\ UNCHANGED kernelVars
      BY <1>3, <2>1 DEF QueueBehind, kernelVars, uTaskerRemainingTime, EventWaits
    <2>5. KernelCounts'
      BY <1>3, <2>4 DEF KernelCounts, IInv, kernelVars
    <2>6. /\ InUse' = InUse \cup {b} /\ TimerOf(b)' = t
          /\ \A c \in InUse \ {b} : TimerOf(c)' = TimerOf(c)
      BY <1>7, <2>3 DEF NewBlock
    <2>7. stTimer'[b].TimerDelay = d + Elapsed /\ TimeLeft(b)' = d
      BY <1>3, <2>2, <2>3, <2>4 DEF NewBlock, TimeLeft
    <2>8. ASSUME NEW c \in InUse \ {b}
          PROVE  TimeLeft(c)' = TimeLeft(c) /\ NextFire' <= stTimer'[c].TimerDelay
      BY <2>3, <2>4 DEF TimeLeft, InUse, IInv, BlocksCount
    <2>9. Sets(b, t, d)
      BY <1>2, <2>6, <2>7, <2>8 DEF Sets
    <2>10. BlocksCount'
      <3>1. InUse' # {} => EventWaits' \/ uTaskerRemainingTime' # 0
        BY <1>6, <2>4 DEF fnGetNotTimer, IInv, BlocksCount
      <3>2. \A c \in InUse' : NextFire' <= stTimer'[c].TimerDelay
        BY <1>3, <2>2, <2>4, <2>6, <2>7, <2>8
      <3>3. \A c \in InUse' : \A e \in Delays : e + TimeLeft(c)' < DelayMod
        BY <1>3, <2>6, <2>7, <2>8 DEF IInv, BlocksCount
      <3>4. \A c, e \in InUse' : TimerOf(c)' = TimerOf(e)' => c = e
        BY <1>2, <2>6 DEF IInv, BlocksCount
      <3> QED
        BY <3>1, <3>2, <3>3, <3>4 DEF BlocksCount
    <2> QED
      BY <1>2, <2>5, <2>9, <2>10
  <1> QED
    BY <1>2, <1>5, <1>6

(* Stopping timers takes them out; the others go on.                       *)
Drops(B) ==
    /\ InUse' = InUse \ B
    /\ \A c \in InUse \ B : TimerOf(c)' = TimerOf(c) /\ TimeLeft(c)' = TimeLeft(c)

LEMMA StopStep ==
    ASSUME IInv, NEW B \in SUBSET InUse, StopBlocks(B), handling' = handling
    PROVE  KernelCounts' /\ BlocksCount' /\ Drops(B)
  <1>1. Kernel!TimersTypeOK /\ TypeOK /\ InUse \subseteq Blocks
    BY DEF IInv, TypeOK, InUse
  <1>2. \A c \in Blocks : IF c \in B THEN stTimer'[c] = FreeBlock
                                   ELSE stTimer'[c] = stTimer[c]
    BY <1>1, StopEffect
  <1>3. InUse' = InUse \ B
    BY <1>2 DEF InUse, FreeBlock
  <1>4. /\ NextFire' = NextFire /\ period' = period /\ pending' = pending
        /\ EventWaits' = EventWaits
        /\ \/ uTaskerRemainingTime' = 0 /\ InUse' = {}
           \/ uTaskerRemainingTime' = uTaskerRemainingTime /\ armed' = armed
    <2>1. CASE InUse \subseteq B
      <3>1. Kernel!Stop(OWN_TASK) /\ NextFire' = NextFire
        BY <2>1 DEF StopBlocks
      <3> QED
        BY <3>1, <1>1, <1>3, <2>1, KernelSteps DEF uTaskerRemainingTime, EventWaits
    <2>2. CASE ~(InUse \subseteq B)
      BY <2>2 DEF StopBlocks, kernelVars, uTaskerRemainingTime, EventWaits
    <2> QED
      BY <2>1, <2>2
  <1>5. \A c \in InUse \ B :
           /\ TimerOf(c)' = TimerOf(c) /\ TimeLeft(c)' = TimeLeft(c)
           /\ stTimer'[c] = stTimer[c]
    BY <1>1, <1>2, <1>3, <1>4 DEF TimerOf, TimeLeft
  <1>6. KernelCounts'
    <2>1. uTaskerRemainingTime \in Nat /\ NextFire \in Nat
      BY Counting
    <2>2. uTaskerRemainingTime' <= NextFire' /\ (EventWaits' => uTaskerRemainingTime' = 0)
      BY <1>4, <2>1 DEF IInv, KernelCounts
    <2> QED
      BY <1>4, <2>2 DEF IInv, KernelCounts
  <1>7. BlocksCount'
    BY <1>3, <1>4, <1>5 DEF IInv, BlocksCount
  <1> QED
    BY <1>3, <1>5, <1>6, <1>7 DEF Drops

(* A tick is one tick less for every timer, if the kernel timer runs.      *)
TicksAll ==
    /\ InUse' = InUse
    /\ \A c \in InUse :
          /\ TimerOf(c)' = TimerOf(c)
          /\ TimeLeft(c)' = IF uTaskerRemainingTime # 0 THEN TimeLeft(c) - 1
                                                       ELSE TimeLeft(c)

LEMMA TickStep ==
    ASSUME IInv, fnRtmkSystemTick
    PROVE  KernelCounts' /\ BlocksCount' /\ TicksAll
  <1>1. Kernel!TimersTypeOK /\ Kernel!Elapse
        /\ stTimer' = stTimer /\ NextFire' = NextFire /\ handling' = handling
    BY DEF IInv, TypeOK, fnRtmkSystemTick
  <1>2. /\ uTaskerRemainingTime \in Nat /\ NextFire \in Nat
        /\ uTaskerRemainingTime <= NextFire
    BY Counting DEF IInv, KernelCounts
  <1>3. /\ InUse' = InUse
        /\ \A c \in InUse : TimerOf(c)' = TimerOf(c)
    BY <1>1 DEF InUse, TimerOf
  <1>4. CASE uTaskerRemainingTime = 0
    <2>1. /\ uTaskerRemainingTime' = 0 /\ pending'[OWN_TASK] = pending[OWN_TASK]
          /\ period' = period /\ armed' = armed
      BY <1>1, <1>4, KernelSteps DEF uTaskerRemainingTime
    <2>2. EventWaits' = EventWaits
      BY <1>1, <2>1 DEF EventWaits
    <2>3. \A c \in InUse : TimeLeft(c)' = TimeLeft(c)
      BY <1>1, <1>4, <2>1 DEF TimeLeft
    <2>4. KernelCounts'
      BY <1>1, <1>4, <2>1, <2>2 DEF IInv, KernelCounts
    <2>5. BlocksCount'
      BY <1>1, <1>3, <1>4, <2>1, <2>2, <2>3 DEF IInv, BlocksCount
    <2> QED
      BY <1>3, <1>4, <2>3, <2>4, <2>5 DEF TicksAll
  <1>5. CASE uTaskerRemainingTime # 0
    <2>1. /\ ~EventWaits /\ ~handling /\ period[OWN_TASK] = 0
          /\ armed[OWN_TASK] = E_TIMER_FIRED
      BY <1>5 DEF IInv, KernelCounts, EventWaits
    <2>2. /\ uTaskerRemainingTime' = uTaskerRemainingTime - 1
          /\ period' = period /\ armed' = armed
          /\ uTaskerRemainingTime = 1 => pending'[OWN_TASK] # 0
          /\ uTaskerRemainingTime # 1 => pending'[OWN_TASK] = pending[OWN_TASK]
      <3>1. left[OWN_TASK] = 1 \/ left[OWN_TASK] > 1
        BY <1>2, <1>5 DEF uTaskerRemainingTime
      <3> QED
        BY <3>1, <1>1, <1>2, <2>1, KernelSteps DEF uTaskerRemainingTime, E_TIMER_FIRED
    <2>3. EventWaits' <=> uTaskerRemainingTime' = 0
      <3>1. EventWaits' <=> pending'[OWN_TASK] # 0
        BY <1>1, <2>1 DEF EventWaits
      <3>2. pending[OWN_TASK] = 0
        BY <2>1 DEF EventWaits
      <3> QED
        BY <3>1, <3>2, <2>2, <1>2, <1>5
    <2>4. \A c \in InUse : TimeLeft(c)' = TimeLeft(c) - 1
      <3>1. SUFFICES ASSUME NEW c \in InUse PROVE TimeLeft(c)' = TimeLeft(c) - 1
        OBVIOUS
      <3>2. stTimer[c].TimerDelay \in Nat /\ stTimer'[c].TimerDelay = stTimer[c].TimerDelay
        BY <1>1, Counting
      <3> QED
        BY <3>2, <1>1, <1>2, <2>2 DEF TimeLeft
    <2>5. KernelCounts'
      <3>1. uTaskerRemainingTime' <= NextFire'
        BY <1>1, <1>2, <2>2
      <3> QED
        BY <3>1, <1>1, <2>1, <2>2, <2>3 DEF IInv, KernelCounts
    <2>6. BlocksCount'
      <3>1. \A c \in InUse' : NextFire' <= stTimer'[c].TimerDelay
        BY <1>1, <1>3 DEF IInv, BlocksCount
      <3>2. \A c \in InUse' : \A d \in Delays : d + TimeLeft(c)' < DelayMod
        <4>1. SUFFICES ASSUME NEW c \in InUse, NEW d \in Delays
                       PROVE  d + TimeLeft(c)' < DelayMod
          BY <1>3
        <4>2. d \in Nat /\ DelayMod \in Nat /\ TimeLeft(c) \in Nat
              /\ d + TimeLeft(c) < DelayMod
          BY Counting, GlobalTimerAssumption DEF IInv, BlocksCount
        <4> QED
          BY <2>4, <4>2
      <3>3. \A c, e \in InUse' : TimerOf(c)' = TimerOf(e)' => c = e
        BY <1>3 DEF IInv, BlocksCount
      <3> QED
        BY <2>3, <3>1, <3>2, <3>3 DEF BlocksCount
    <2> QED
      BY <1>3, <1>5, <2>4, <2>5, <2>6 DEF TicksAll
  <1> QED
    BY <1>4, <1>5

(* Expiry takes out exactly the timers that have no time left, and sends   *)
(* their events.                                                           *)
LEMMA DueIsOver ==
    ASSUME IInv, handling, fnSWTimerFired
    PROVE  /\ Passed = NextFire
           /\ DueTimers = {b \in InUse : TimeLeft(b) = 0}
           /\ sent' = {TimerOf(b) : b \in DueTimers}
           /\ uTaskerRemainingTime = 0
  <1>1. uTaskerRemainingTime = 0 /\ Elapsed = NextFire /\ NextFire \in Nat
    BY Counting DEF IInv, KernelCounts, EventWaits
  <1>2. \A b \in InUse : /\ stTimer[b].TimerDelay \in Nat
                         /\ TimeLeft(b) = stTimer[b].TimerDelay - NextFire
                         /\ NextFire <= stTimer[b].TimerDelay
    BY <1>1, Counting DEF IInv, BlocksCount
  <1>3. /\ \A b \in DueTimers : stTimer[b].TimerDelay = Passed /\ Passed <= NextFire
        /\ DueTimers = {} => Passed = NextFire
        /\ sent' = {TimerOf(b) : b \in DueTimers}
        /\ DueTimers \subseteq InUse
    BY DueEffect DEF IInv, Passed, DueTimers, fnGetSWFired
  <1>4. Passed = NextFire
    <2>1. CASE DueTimers = {}
      BY <2>1, <1>3
    <2>2. CASE DueTimers # {}
      <3>1. PICK b \in DueTimers : TRUE
        BY <2>2
      <3>2. b \in InUse /\ stTimer[b].TimerDelay = Passed /\ Passed <= NextFire
        BY <1>3
      <3> QED
        BY <3>2, <1>1, <1>2
    <2> QED
      BY <2>1, <2>2
  <1>5. ASSUME NEW b \in InUse PROVE b \in DueTimers <=> TimeLeft(b) = 0
    <2>1. b \in DueTimers => TimeLeft(b) = 0
      BY <1>1, <1>2, <1>3, <1>4
    <2>2. ASSUME TimeLeft(b) = 0 PROVE b \in DueTimers
      <3>1. stTimer[b].TimerDelay = NextFire
        BY <1>1, <1>2, <2>2
      <3>2. \A c \in InUse : stTimer[b].TimerDelay <= stTimer[c].TimerDelay
        BY <3>1, <1>2
      <3> QED
        BY <3>1, <3>2, <1>1 DEF DueTimers, fnGetSWFired
    <2> QED
      BY <2>1, <2>2
  <1> QED
    BY <1>1, <1>3, <1>4, <1>5

LEMMA FireStep ==
    ASSUME IInv, fnTimer
    PROVE  KernelCounts' /\ BlocksCount' /\ Drops(DueTimers)
  <1>1. /\ fnSWTimerFired /\ handling /\ ~handling' /\ Kernel!TimersTypeOK /\ TypeOK
        /\ Passed = NextFire /\ uTaskerRemainingTime = 0 /\ pending[OWN_TASK] = 0
        /\ period[OWN_TASK] = 0
    BY DueIsOver DEF fnTimer, IInv, TypeOK, KernelCounts
  <1>2. /\ \A c \in Blocks \ InUse : stTimer'[c] = stTimer[c]
        /\ \A c \in DueTimers : stTimer'[c] = FreeBlock
        /\ \A c \in Kept :
              /\ stTimer'[c].OwnerTask = stTimer[c].OwnerTask
              /\ stTimer'[c].ucEvent = stTimer[c].ucEvent
              /\ stTimer'[c].TimerDelay = stTimer[c].TimerDelay - NextFire
        /\ Kept = {} => UNCHANGED <<NextFire, kernelVars>>
        /\ Kept # {} =>
              /\ NextFire' \in Words /\ NextFire' > 0
              /\ \A c \in Kept : NextFire' <= stTimer[c].TimerDelay - NextFire
              /\ \E c \in Kept : NextFire' = stTimer[c].TimerDelay - NextFire
              /\ uTaskerMonoTimer(NextFire')
    BY <1>1, DueEffect
  <1>3. InUse' = InUse \ DueTimers
    <2>1. \A c \in Blocks : c \in InUse' <=> c \in InUse /\ c \notin DueTimers
      BY <1>2 DEF InUse, FreeBlock, Kept
    <2> QED
      BY <2>1 DEF InUse
  <1>4. \A c \in Kept : /\ c \in InUse
                        /\ TimeLeft(c) = stTimer[c].TimerDelay - NextFire
                        /\ TimeLeft(c) \in Nat
                        /\ TimerOf(c)' = TimerOf(c)
    <2>1. NextFire - 0 = NextFire /\ Elapsed = NextFire
      BY <1>1, Counting
    <2>2. \A c \in Kept : c \in InUse /\ TimerOf(c)' = TimerOf(c)
      BY <1>2 DEF Kept, TimerOf
    <2> QED
      BY <2>1, <2>2, Counting
  <1>5. CASE Kept = {}
    <2>1. UNCHANGED <<NextFire, kernelVars>> /\ InUse' = {} /\ InUse \ DueTimers = {}
      BY <1>2, <1>3, <1>5 DEF Kept
    <2>2. KernelCounts'
      BY <1>1, <2>1 DEF IInv, KernelCounts, kernelVars, uTaskerRemainingTime, EventWaits
    <2>3. BlocksCount'
      BY <2>1 DEF BlocksCount
    <2> QED
      BY <1>3, <2>1, <2>2, <2>3 DEF Drops
  <1>6. CASE Kept # {}
    <2>1. /\ uTaskerRemainingTime' = NextFire' /\ armed'[OWN_TASK] = E_TIMER_FIRED
          /\ period' = period /\ pending' = pending /\ NextFire' \in Nat /\ NextFire' > 0
      <3>1. /\ Kernel!Start(OWN_TASK, NextFire', E_TIMER_FIRED)
            /\ NextFire' \in Words /\ NextFire' > 0 /\ NextFire' \in Nat
        BY <1>2, <1>6, GlobalTimerAssumption DEF uTaskerMonoTimer, Words
      <3> QED
        BY <3>1, <1>1, KernelSteps DEF uTaskerRemainingTime
    <2>2. ~EventWaits'
      BY <1>1, <2>1 DEF EventWaits
    <2>3. \A c \in Kept : /\ TimeLeft(c)' = TimeLeft(c)
                          /\ NextFire' <= stTimer'[c].TimerDelay
      BY <1>2, <1>4, <1>6, <2>1 DEF TimeLeft
    <2>4. KernelCounts'
      <3>1. PICK c \in Kept : NextFire' = stTimer[c].TimerDelay - NextFire
        BY <1>2, <1>6
      <3>2. \A d \in Delays : d + NextFire' < DelayMod
        BY <1>4, <3>1 DEF IInv, BlocksCount
      <3> QED
        BY <1>1, <2>1, <2>2, <3>2 DEF KernelCounts
    <2>5. BlocksCount'
      <3>1. \A c \in InUse' : \A d \in Delays : d + TimeLeft(c)' < DelayMod
        BY <1>3, <1>4, <2>3 DEF IInv, BlocksCount, Kept
      <3>2. \A c, e \in InUse' : TimerOf(c)' = TimerOf(e)' => c = e
        BY <1>3, <1>4 DEF IInv, BlocksCount, Kept
      <3> QED
        BY <1>3, <2>1, <2>3, <3>1, <3>2 DEF BlocksCount, Kept
    <2> QED
      BY <1>3, <1>4, <2>3, <2>4, <2>5 DEF Drops, Kept
  <1> QED
    BY <1>5, <1>6

LEMMA IInvNext ==
    ASSUME StaleStarts = FALSE, IInv, [Next]_vars
    PROVE  IInv'
  <1>1. TypeOK'
    BY TypeNext DEF IInv
  <1>2. ASSUME NEW t \in Timers, NEW d \in Delays, uTaskerGlobalMonoTimer(t, d)
        PROVE  KernelCounts' /\ BlocksCount'
    BY <1>2, StartStep
  <1>3. ASSUME NEW owner \in Owners, NEW event \in Events \cup {0},
               uTaskerGlobalStopTimer(owner, event)
        PROVE  KernelCounts' /\ BlocksCount'
    <2>1. PICK B \in SUBSET InUse : StopBlocks(B)
      BY <1>3 DEF uTaskerGlobalStopTimer
    <2> QED
      BY <1>3, <2>1, StopStep DEF uTaskerGlobalStopTimer
  <1>4. ASSUME uTaskerSchedule PROVE KernelCounts' /\ BlocksCount'
    <2>1. /\ Kernel!TimersTypeOK /\ Kernel!HandOver(OWN_TASK)
          /\ handling' /\ ~handling /\ stTimer' = stTimer /\ NextFire' = NextFire
      BY <1>4 DEF uTaskerSchedule, IInv, TypeOK
    <2>2. /\ pending[OWN_TASK] # 0 /\ pending'[OWN_TASK] = 0
          /\ left' = left /\ period' = period /\ armed' = armed
      BY <2>1, KernelSteps
    <2>3. EventWaits /\ EventWaits'
      BY <2>1, <2>2 DEF EventWaits
    <2>4. /\ uTaskerRemainingTime' = uTaskerRemainingTime /\ InUse' = InUse
          /\ \A c \in InUse : TimerOf(c)' = TimerOf(c) /\ TimeLeft(c)' = TimeLeft(c)
      BY <2>1, <2>2 DEF uTaskerRemainingTime, InUse, TimerOf, TimeLeft
    <2>5. KernelCounts'
      BY <2>1, <2>2, <2>3, <2>4 DEF IInv, KernelCounts
    <2>6. BlocksCount'
      BY <2>1, <2>3, <2>4 DEF IInv, BlocksCount
    <2> QED
      BY <2>5, <2>6
  <1>5. ASSUME UNCHANGED vars PROVE KernelCounts' /\ BlocksCount'
    <2>1. /\ InUse' = InUse /\ uTaskerRemainingTime' = uTaskerRemainingTime
          /\ EventWaits' = EventWaits
          /\ \A c \in InUse : TimerOf(c)' = TimerOf(c) /\ TimeLeft(c)' = TimeLeft(c)
      BY <1>5 DEF vars, kernelVars, InUse, TimeLeft, TimerOf, uTaskerRemainingTime,
                  EventWaits
    <2>2. stTimer' = stTimer /\ NextFire' = NextFire /\ period' = period
          /\ armed' = armed /\ pending' = pending /\ handling' = handling
      BY <1>5 DEF vars, kernelVars
    <2>3. KernelCounts'
      BY <2>1, <2>2 DEF IInv, KernelCounts
    <2>4. BlocksCount'
      BY <2>1, <2>2 DEF IInv, BlocksCount
    <2> QED
      BY <2>3, <2>4
  <1> QED
    BY <1>1, <1>2, <1>3, <1>4, <1>5, TickStep, FireStep DEF Next, IInv

-----------------------------------------------------------------------------
(*                              Theorems                                   *)

(* If no timer is started, none other being in use, while an event of the  *)
(* kernel timer waits, then no timer in use is ever forgotten.             *)
THEOREM NoneForgotten ==
    ASSUME StaleStarts = FALSE
    PROVE  Spec => []KernelTimerCovers
  <1>1. Init => IInv
    BY IInvInit
  <1>2. IInv /\ [Next]_vars => IInv'
    BY IInvNext
  <1>3. IInv => KernelTimerCovers
    BY Counting DEF IInv, BlocksCount, KernelTimerCovers
  <1> QED
    BY <1>1, <1>2, <1>3, PTL DEF Spec

(* Under the same condition fnSWTimerFired sends no event before its time. *)
THEOREM NoneSentEarly ==
    ASSUME StaleStarts = FALSE
    PROVE  Spec => NeverSentEarly
  <1>1. Init => IInv
    BY IInvInit
  <1>2. IInv /\ [Next]_vars => IInv'
    BY IInvNext
  <1>3. ASSUME IInv, Next, NEW b \in InUse, TimerOf(b) \in sent'
        PROVE  TimeLeft(b) = 0
    <2>1. handling /\ fnSWTimerFired
      BY <1>3 DEF Next, uTaskerGlobalMonoTimer, uTaskerGlobalStopTimer,
                  fnRtmkSystemTick, uTaskerSchedule, fnTimer
    <2>2. PICK c \in DueTimers : TimerOf(c) = TimerOf(b)
      BY <1>3, <2>1, DueIsOver
    <2>3. c \in InUse /\ TimeLeft(c) = 0
      BY <1>3, <2>1, DueIsOver
    <2> QED
      BY <1>3, <2>2, <2>3 DEF IInv, BlocksCount
  <1>4. IInv /\ [Next]_vars =>
          [\A b \in InUse : TimerOf(b) \in sent' => TimeLeft(b) = 0]_vars
    BY <1>3
  <1> QED
    BY <1>1, <1>2, <1>4, PTL DEF Spec, NeverSentEarly

-----------------------------------------------------------------------------
(*                             Refinement                                  *)

(* What the abstract specification calls left, on the running timers.      *)
TimesLeft == [t \in {TimerOf(b) : b \in InUse} |->
                TimeLeft(CHOOSE b \in InUse : TimerOf(b) = t)]

TimesFollow ==
    /\ TimesLeft = [t \in DOMAIN TimesLeft |-> TimesLeft[t]]
    /\ DOMAIN TimesLeft = {TimerOf(b) : b \in InUse}
    /\ \A b \in InUse : TimesLeft[TimerOf(b)] = TimeLeft(b)

LEMMA TimesLeftIs == IInv => TimesFollow
  <1> SUFFICES ASSUME IInv PROVE TimesFollow
    OBVIOUS
  <1>1. ASSUME NEW b \in InUse PROVE (CHOOSE c \in InUse : TimerOf(c) = TimerOf(b)) = b
    BY DEF IInv, BlocksCount
  <1> QED
    BY <1>1 DEF TimesLeft, TimesFollow

(* A function with the times of the blocks in the next state is the next   *)
(* value of left.                                                          *)
LEMMA TimesLeftNext ==
    ASSUME IInv', NEW f, f = [t \in DOMAIN f |-> f[t]],
           DOMAIN f = {TimerOf(b)' : b \in InUse'},
           \A b \in InUse' : f[TimerOf(b)'] = TimeLeft(b)'
    PROVE  TimesLeft' = f
  <1>1. TimesFollow'
    BY TimesLeftIs, PTL
  <1>2. /\ TimesLeft' = [t \in DOMAIN TimesLeft' |-> TimesLeft'[t]]
        /\ DOMAIN TimesLeft' = DOMAIN f
        /\ \A b \in InUse' : TimesLeft'[TimerOf(b)'] = TimeLeft(b)'
    BY <1>1 DEF TimesFollow
  <1>3. \A t \in DOMAIN f : f[t] = TimesLeft'[t]
    BY <1>2
  <1> QED
    BY <1>2, <1>3

LEMMA AbstractActions ==
    /\ Abstract!Running = DOMAIN TimesLeft
    /\ Abstract!Due = {t \in DOMAIN TimesLeft : TimesLeft[t] = 0}
    /\ \A t, d : Abstract!Start(t, d) <=>
          /\ TimesLeft' = [u \in DOMAIN TimesLeft \cup {t} |->
                              IF u = t THEN d ELSE TimesLeft[u]]
          /\ sent' = {}
    /\ \A T : Abstract!Stop(T) <=>
          /\ TimesLeft' = [u \in DOMAIN TimesLeft \ T |-> TimesLeft[u]]
          /\ sent' = {}
    /\ Abstract!Elapse <=>
          /\ Abstract!Due = {}
          /\ TimesLeft' = [u \in DOMAIN TimesLeft |-> TimesLeft[u] - 1]
          /\ sent' = {}
    /\ Abstract!Expire <=>
          /\ Abstract!Due # {}
          /\ TimesLeft' = [u \in DOMAIN TimesLeft \ Abstract!Due |-> TimesLeft[u]]
          /\ sent' = Abstract!Due
    /\ Abstract!Other <=> TimesLeft' = TimesLeft /\ sent' = {}
  BY DEF TimesLeft, Abstract!Running, Abstract!Due, Abstract!Start, Abstract!Stop,
         Abstract!Elapse, Abstract!Expire, Abstract!Other

LEMMA SetsIsStart ==
    ASSUME IInv, IInv', sent' = {}, NEW b, NEW t, NEW d, Sets(b, t, d)
    PROVE  Abstract!Start(t, d)
  <1> DEFINE f == [u \in DOMAIN TimesLeft \cup {t} |->
                     IF u = t THEN d ELSE TimesLeft[u]]
  <1>1. DOMAIN f = {TimerOf(c)' : c \in InUse'}
    BY TimesLeftIs DEF TimesFollow, Sets
  <1>2. \A c \in InUse' : f[TimerOf(c)'] = TimeLeft(c)'
    <2>1. SUFFICES ASSUME NEW c \in InUse' PROVE f[TimerOf(c)'] = TimeLeft(c)'
      OBVIOUS
    <2>2. CASE c = b
      BY <2>2 DEF Sets
    <2>3. CASE c # b
      <3>1. c \in InUse \ {b}
        BY <2>3 DEF Sets
      <3>2. TimerOf(c)' = TimerOf(c) /\ TimeLeft(c)' = TimeLeft(c) /\ TimerOf(c) # t
        BY <3>1 DEF Sets
      <3> QED
        BY <3>1, <3>2, TimesLeftIs DEF TimesFollow
    <2> QED
      BY <2>2, <2>3
  <1>3. TimesLeft' = f
    <2> f = [u \in DOMAIN f |-> f[u]]
      OBVIOUS
    <2> HIDE DEF f
    <2> QED
      BY <1>1, <1>2, TimesLeftNext
  <1> QED
    BY <1>3, AbstractActions

LEMMA DropsIs ==
    ASSUME IInv, IInv', NEW B \in SUBSET InUse, Drops(B)
    PROVE  TimesLeft' = [u \in DOMAIN TimesLeft \ {TimerOf(b) : b \in B} |-> TimesLeft[u]]
  <1> DEFINE T == {TimerOf(b) : b \in B}
             f == [u \in DOMAIN TimesLeft \ T |-> TimesLeft[u]]
  <1>1. \A c \in InUse : TimerOf(c) \in T <=> c \in B
    BY DEF IInv, BlocksCount
  <1>2. DOMAIN f = {TimerOf(c)' : c \in InUse'}
    BY <1>1, TimesLeftIs DEF TimesFollow, Drops
  <1>3. \A c \in InUse' : f[TimerOf(c)'] = TimeLeft(c)'
    BY <1>1, TimesLeftIs DEF TimesFollow, Drops
  <1> f = [u \in DOMAIN f |-> f[u]]
    OBVIOUS
  <1> HIDE DEF f
  <1>4. TimesLeft' = f
    BY <1>2, <1>3, TimesLeftNext
  <1> QED
    BY <1>4 DEF f

LEMMA AbstractStep ==
    ASSUME StaleStarts = FALSE, IInv, Next
    PROVE  Abstract!SoftwareTimersNext
  <1>1. IInv'
    BY IInvNext
  <1>2. ASSUME NEW t \in Timers, NEW d \in Delays, uTaskerGlobalMonoTimer(t, d)
        PROVE  Abstract!SoftwareTimersNext
    <2>1. PICK b \in Blocks : Sets(b, t, d)
      BY <1>2, StartStep
    <2>2. Abstract!Start(t, d)
      BY <1>1, <1>2, <2>1, SetsIsStart DEF uTaskerGlobalMonoTimer
    <2> QED
      BY <2>2 DEF Abstract!SoftwareTimersNext
  <1>3. ASSUME NEW owner \in Owners, NEW event \in Events \cup {0},
               uTaskerGlobalStopTimer(owner, event)
        PROVE  Abstract!SoftwareTimersNext
    <2>1. PICK B \in SUBSET InUse : StopBlocks(B)
      BY <1>3 DEF uTaskerGlobalStopTimer
    <2>2. Drops(B)
      BY <1>3, <2>1, StopStep DEF uTaskerGlobalStopTimer
    <2>3. Abstract!Stop({TimerOf(b) : b \in B})
      BY <1>1, <1>3, <2>2, DropsIs, AbstractActions DEF uTaskerGlobalStopTimer
    <2>4. {TimerOf(b) : b \in B} \in SUBSET Timers
      BY Counting
    <2> QED
      BY <2>3, <2>4 DEF Abstract!SoftwareTimersNext
  <1>4. ASSUME fnRtmkSystemTick PROVE Abstract!SoftwareTimersNext
    <2>1. TicksAll /\ sent' = {}
      BY <1>4, TickStep DEF fnRtmkSystemTick
    <2>2. CASE uTaskerRemainingTime = 0
      <3>1. \A c \in InUse : TimesLeft[TimerOf(c)'] = TimeLeft(c)'
        BY <2>1, <2>2, TimesLeftIs DEF TimesFollow, TicksAll
      <3>2. DOMAIN TimesLeft = {TimerOf(c)' : c \in InUse'}
        BY <2>1, TimesLeftIs DEF TimesFollow, TicksAll
      <3>3. TimesLeft = [u \in DOMAIN TimesLeft |-> TimesLeft[u]]
        BY DEF TimesLeft
      <3>4. TimesLeft' = TimesLeft
        BY <1>1, <2>1, <3>1, <3>2, <3>3, TimesLeftNext DEF TicksAll
      <3>5. Abstract!Other
        BY <2>1, <3>4, AbstractActions
      <3> QED
        BY <3>5 DEF Abstract!SoftwareTimersNext
    <2>3. CASE uTaskerRemainingTime # 0
      <3> DEFINE f == [u \in DOMAIN TimesLeft |-> TimesLeft[u] - 1]
      <3>1. \A c \in InUse : f[TimerOf(c)'] = TimeLeft(c)'
        BY <2>1, <2>3, TimesLeftIs DEF TimesFollow, TicksAll
      <3>2. DOMAIN f = {TimerOf(c)' : c \in InUse'}
        BY <2>1, TimesLeftIs DEF TimesFollow, TicksAll
      <3>3. f = [u \in DOMAIN f |-> f[u]]
        OBVIOUS
      <3>4. TimesLeft' = f
        <4> HIDE DEF f
        <4> QED
          BY <1>1, <2>1, <3>1, <3>2, <3>3, TimesLeftNext DEF TicksAll
      <3>5. \A c \in InUse : TimeLeft(c) # 0
        <4>1. \A c \in InUse : /\ TimeLeft(c) \in Nat /\ uTaskerRemainingTime \in Nat
                               /\ TimeLeft(c) >= uTaskerRemainingTime
          BY Counting
        <4> QED
          BY <2>3, <4>1
      <3>6. Abstract!Due = {}
        BY <3>5, TimesLeftIs, AbstractActions DEF TimesFollow
      <3>7. Abstract!Elapse
        BY <2>1, <3>4, <3>6, AbstractActions
      <3> QED
        BY <3>7 DEF Abstract!SoftwareTimersNext
    <2> QED
      BY <2>2, <2>3
  <1>5. ASSUME uTaskerSchedule PROVE Abstract!SoftwareTimersNext
    <2>1. Kernel!HandOver(OWN_TASK) /\ sent' = {} /\ stTimer' = stTimer
          /\ NextFire' = NextFire /\ Kernel!TimersTypeOK
      BY <1>5 DEF uTaskerSchedule, IInv, TypeOK
    <2>2. left' = left
      BY <2>1, KernelSteps
    <2>3. TimesLeft' = TimesLeft
      BY <2>1, <2>2 DEF TimesLeft, TimerOf, InUse, TimeLeft, uTaskerRemainingTime
    <2>4. Abstract!Other
      BY <2>1, <2>3, AbstractActions
    <2> QED
      BY <2>4 DEF Abstract!SoftwareTimersNext
  <1>6. ASSUME fnTimer PROVE Abstract!SoftwareTimersNext
    <2>1. handling /\ fnSWTimerFired
      BY <1>6 DEF fnTimer
    <2>2. /\ DueTimers = {b \in InUse : TimeLeft(b) = 0}
          /\ sent' = {TimerOf(b) : b \in DueTimers}
      BY <2>1, DueIsOver
    <2>3. Abstract!Due = {TimerOf(b) : b \in DueTimers}
      BY <2>2, TimesLeftIs, AbstractActions DEF TimesFollow
    <2>4. TimesLeft' = [u \in DOMAIN TimesLeft \ Abstract!Due |-> TimesLeft[u]]
      <3>1. DueTimers \in SUBSET InUse /\ Drops(DueTimers)
        BY <1>6, <2>2, FireStep
      <3> QED
        BY <1>1, <2>3, <3>1, DropsIs
    <2>5. CASE Abstract!Due # {}
      <3>1. Abstract!Expire
        BY <2>2, <2>3, <2>4, <2>5, AbstractActions
      <3> QED
        BY <3>1 DEF Abstract!SoftwareTimersNext
    <2>6. CASE Abstract!Due = {}
      <3>1. TimesLeft = [u \in DOMAIN TimesLeft |-> TimesLeft[u]]
        BY DEF TimesLeft
      <3>2. TimesLeft' = TimesLeft /\ sent' = {}
        BY <2>2, <2>3, <2>4, <2>6, <3>1
      <3>3. Abstract!Other
        BY <3>2, AbstractActions
      <3> QED
        BY <3>3 DEF Abstract!SoftwareTimersNext
    <2> QED
      BY <2>5, <2>6
  <1> QED
    BY <1>2, <1>3, <1>4, <1>5, <1>6 DEF Next

(* Under the same condition the timers that share the kernel timer are     *)
(* countdowns of their own: GlobalTimer implements SoftwareTimers.         *)
THEOREM Refinement ==
    ASSUME StaleStarts = FALSE
    PROVE  Spec => ImplementsSoftwareTimers
  <1>1. Init => IInv
    BY IInvInit
  <1>2. IInv /\ [Next]_vars => IInv'
    BY IInvNext
  <1>3. Init => Abstract!SoftwareTimersInit
    <2>1. SUFFICES ASSUME Init PROVE Abstract!SoftwareTimersInit
      OBVIOUS
    <2>2. InUse = {} /\ sent = {}
      BY <2>1 DEF Init, InUse, FreeBlock
    <2> QED
      BY <2>2 DEF Abstract!SoftwareTimersInit
  <1>4. IInv /\ [Next]_vars => [Abstract!SoftwareTimersNext]_(Abstract!svars)
    <2>1. SUFFICES ASSUME IInv, [Next]_vars
                   PROVE  [Abstract!SoftwareTimersNext]_(Abstract!svars)
      OBVIOUS
    <2>2. CASE Next
      BY <2>1, <2>2, AbstractStep
    <2>3. CASE UNCHANGED vars
      <3>1. stTimer' = stTimer /\ NextFire' = NextFire /\ left' = left /\ sent' = sent
        BY <2>3 DEF vars, kernelVars
      <3> QED
        BY <3>1 DEF Abstract!svars, TimerOf, InUse, TimeLeft, uTaskerRemainingTime
    <2> QED
      BY <2>1, <2>2, <2>3
  <1> QED
    BY <1>1, <1>2, <1>3, <1>4, PTL
       DEF Spec, ImplementsSoftwareTimers, Abstract!SoftwareTimersSpec

=============================================================================
