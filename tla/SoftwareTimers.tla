--------------------------- MODULE SoftwareTimers ---------------------------
(***************************************************************************)
(* What the global timer task (uTasker/GlobalTimer.c) promises to the      *)
(* tasks that share it, without the way it does so: no timer blocks, no    *)
(* deltas to a common start, and no single kernel timer that all of them   *)
(* are multiplexed on.  Each timer is a countdown of its own; setting or   *)
(* stopping one never disturbs another.  Time is the time that the timer   *)
(* task has been told of: a tick that passes while the task still has to   *)
(* deal with an earlier expiry is not counted, for any timer.              *)
(* GlobalTimer implements this specification.                              *)
(***************************************************************************)
EXTENDS Naturals

CONSTANTS
    Timers,       (* the timers: an owner task and an event number         *)
    Delays        (* the delays they are started with                      *)

VARIABLES
    left,         (* for each running timer, the ticks it has to go        *)
    sent          (* the timers whose events the last step has sent        *)

svars == <<left, sent>>

Running == DOMAIN left
Due == {t \in Running : left[t] = 0}

SoftwareTimersInit == left = [t \in {} |-> 0] /\ sent = {}

(* Start or retrigger t.                                                   *)
Start(t, d) ==
    /\ left' = [u \in Running \cup {t} |-> IF u = t THEN d ELSE left[u]]
    /\ sent' = {}

Stop(T) ==
    /\ left' = [u \in Running \ T |-> left[u]]
    /\ sent' = {}

(* One tick for all of them; none is due, or it would be overtaken.        *)
Elapse ==
    /\ Due = {}
    /\ left' = [u \in Running |-> left[u] - 1]
    /\ sent' = {}

(* All timers that are due expire together, and no other.                  *)
Expire ==
    /\ Due # {}
    /\ left' = [u \in Running \ Due |-> left[u]]
    /\ sent' = Due

(* The step has nothing to do with the timers.                             *)
Other == UNCHANGED left /\ sent' = {}

SoftwareTimersNext ==
    \/ \E t \in Timers, d \in Delays : Start(t, d)
    \/ \E T \in SUBSET Timers : Stop(T)
    \/ Elapse
    \/ Expire
    \/ Other

SoftwareTimersSpec == SoftwareTimersInit /\ [][SoftwareTimersNext]_svars

=============================================================================
