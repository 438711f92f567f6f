----------------------------- MODULE TaskTimers -----------------------------
(***************************************************************************)
(* What the task timers of uTasker/uTasker.c promise, without the way the  *)
(* kernel keeps them: no absolute tick counter that wraps, no match on     *)
(* equality, no enable flag and no task states.  A timer is the number of  *)
(* ticks it still has to go, the period it is reloaded with, the event it  *)
(* was armed with, and the event that fired and that the task has not been *)
(* given yet.  UTaskerKernel implements this specification.                *)
(***************************************************************************)
EXTENDS Naturals

CONSTANTS
    Timers,       (* the tasks that own an entry in the timer list         *)
    MaxDelay,     (* the longest delay a DELAY_LIMIT holds                 *)
    TimerEvents   (* the event numbers, all different from NON_EVENT       *)

NON_EVENT == 0

VARIABLES
    left,         (* left[t]: ticks to go, 0 when the timer is not running *)
    period,       (* period[t]: reload value, 0 for a single shot          *)
    armed,        (* armed[t]: the event to send when the timer expires    *)
    pending       (* pending[t]: event that fired, not yet handed over     *)

tvars == <<left, period, armed, pending>>

TimersTypeOK ==
    /\ left    \in [Timers -> 0..MaxDelay]
    /\ period  \in [Timers -> 0..MaxDelay]
    /\ armed   \in [Timers -> TimerEvents \cup {NON_EVENT}]
    /\ pending \in [Timers -> TimerEvents \cup {NON_EVENT}]

-----------------------------------------------------------------------------

TimersInit ==
    /\ left \in [Timers -> 0..MaxDelay]
    /\ period \in [Timers -> 0..MaxDelay]
    /\ armed = [t \in Timers |-> NON_EVENT]
    /\ pending = [t \in Timers |-> NON_EVENT]

(* One tick: every running timer is one tick nearer; those that reach zero *)
(* hand over their event (nothing, for a plain periodic wake-up) and are   *)
(* reloaded or stop.                                                       *)
Elapse ==
    /\ left' = [t \in Timers |-> CASE left[t] > 1 -> left[t] - 1
                                   [] left[t] = 1 -> period[t]
                                   [] OTHER       -> 0]
    /\ pending' = [t \in Timers |->
                      IF left[t] = 1 THEN armed[t] ELSE pending[t]]
    /\ UNCHANGED <<period, armed>>

(* A single shot that sends e after d ticks, at least one.                 *)
Start(t, d, e) ==
    /\ e # NON_EVENT
    /\ left'  = [left EXCEPT ![t] = IF d = 0 THEN 1 ELSE d]
    /\ armed' = [armed EXCEPT ![t] = e]
    /\ UNCHANGED <<period, pending>>

(* A new period; zero stops the timer.                                     *)
SetPeriod(t, d) ==
    /\ left'   = [left EXCEPT ![t] = d]
    /\ period' = [period EXCEPT ![t] = d]
    /\ armed'  = [armed EXCEPT ![t] = NON_EVENT]
    /\ UNCHANGED pending

Stop(t) ==
    /\ left'  = [left EXCEPT ![t] = 0]
    /\ armed' = [armed EXCEPT ![t] = NON_EVENT]
    /\ UNCHANGED <<period, pending>>

(* A running periodic timer starts a whole period again.                   *)
Resynchronise(t) ==
    /\ left[t] # 0
    /\ period[t] # 0
    /\ left' = [left EXCEPT ![t] = period[t]]
    /\ UNCHANGED <<period, armed, pending>>

HandOver(t) ==
    /\ pending[t] # NON_EVENT
    /\ pending' = [pending EXCEPT ![t] = NON_EVENT]
    /\ UNCHANGED <<left, period, armed>>

TimersNext ==
    \/ Elapse
    \/ \E t \in Timers :
          \/ \E d \in 0..MaxDelay :
                \/ \E e \in TimerEvents : Start(t, d, e)
                \/ SetPeriod(t, d)
          \/ Stop(t)
          \/ Resynchronise(t)
          \/ HandOver(t)

TimersSpec == TimersInit /\ [][TimersNext]_tvars

=============================================================================
