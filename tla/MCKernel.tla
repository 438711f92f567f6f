------------------------------ MODULE MCKernel ------------------------------
(***************************************************************************)
(* Task tables for checking UTaskerKernel with TLC.                        *)
(***************************************************************************)
EXTENDS UTaskerKernel

Row(delay, repetition, state, length) ==
    [TaskDelay |-> delay, TaskRepetition |-> repetition,
     ucTaskState |-> state, QueLength |-> length]

(* A periodic task that starts with a delay, and a task that is polled.    *)
PeriodicTable == <<Row(1, 2, UTASKER_STOP, 1), Row(0, 0, {POLLING}, 1)>>

(* A task that runs freely until an event stops it, and the sleeping task. *)
LowPowerTable == <<Row(2, 0, {GO}, 1), Row(0, 0, {GO}, 0)>>

ActivatingRequests == {{ACTIVATE}, {POLLING}}
StoppingRequests   == {UTASKER_STOP, {GO}}
=============================================================================
