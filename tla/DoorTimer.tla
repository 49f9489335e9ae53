------------------------------ MODULE DoorTimer ------------------------------
(****************************************************************************)
(* The timeout of the door controller's state machine                        *)
(* (firmware/door-control/main/door-control.c).  A timeout is a FreeRTOS      *)
(* task that sleeps, sets EVENT_SM_TIMEOUT_BIT in the event group that the    *)
(* main task waits on, clears its own handle and deletes itself.  Requesting  *)
(* a new timeout, or none, deletes a task that is still there.                *)
(*                                                                            *)
(* Durations are left out: a sleeping task may wake at any moment.            *)
(****************************************************************************)
EXTENDS Naturals

(* The event group's bits, in the order in which the main loop serves them.   *)
Bits == {"io", "timeout", "close", "safe", "unsafe"}

VARIABLES
    event_bits,     \* the event group: bits set and not yet collected
    timeout_task,   \* "none": handle is NULL; "waiting": in vTaskDelay;
                    \* "fired": bit set, handle not yet cleared
    alive,          \* FALSE once the main task has deleted itself
    stale           \* history: a timeout bit that is still on its way to the
                    \* state machine was set by a timeout since replaced

timerVars == <<event_bits, timeout_task, alive, stale>>

TimerTypeOK ==
    /\ event_bits \subseteq Bits
    /\ timeout_task \in {"none", "waiting", "fired"}
    /\ alive \in BOOLEAN
    /\ stale \in BOOLEAN

TimerInit ==
    /\ event_bits = {}
    /\ timeout_task = "none"
    /\ alive = TRUE
    /\ stale = FALSE

(* statemachine_triggerTimeout up to xEventGroupSetBits: the delay is over.   *)
TimeoutElapses ==
    /\ timeout_task = "waiting"
    /\ timeout_task' = "fired"
    /\ event_bits' = event_bits \cup {"timeout"}
    /\ stale' = FALSE
    /\ UNCHANGED alive

(* The rest of it: the handle is cleared and the task deletes itself.         *)
TimeoutTaskExits ==
    /\ timeout_task = "fired"
    /\ timeout_task' = "none"
    /\ UNCHANGED <<event_bits, alive, stale>>

(* Mutation: a new timeout is only started when no task had to be deleted.    *)
MutForgetRestart(armed) ==
    /\ timeout_task' = IF timeout_task = "none" /\ armed THEN "waiting" ELSE "none"
    /\ stale' = ("timeout" \in event_bits)
    /\ UNCHANGED <<event_bits, alive>>

(* The main task asks for a timeout (armed) or for none.  It deletes the old  *)
(* task but leaves a bit that task has already set.                           *)
(*                                                                            *)
(* The handle is tested and then read again by vTaskDelete(timeout_task),     *)
(* without a lock; the firmware is built for both cores of the ESP32.  When   *)
(* the old task clears the handle in between, the call is vTaskDelete(NULL),  *)
(* which deletes the calling task: the main loop is gone, and the rest of     *)
(* the caller does not run.                                                   *)
statemachine_setTimeout(armed) ==
    \/ /\ timeout_task' = IF armed THEN "waiting" ELSE "none"
       /\ stale' = ("timeout" \in event_bits)
       /\ UNCHANGED <<event_bits, alive>>
    \/ /\ timeout_task = "fired"
       /\ timeout_task' = "none"
       /\ alive' = FALSE
       /\ UNCHANGED <<event_bits, stale>>
=============================================================================
