---------------------------- MODULE SmoothSensor ----------------------------
(****************************************************************************)
(* The array of the last samples of a door                                    *)
(* (firmware/door-control/main/door-control.c), which implements DoorSensor.  *)
(****************************************************************************)
EXTENDS Naturals, FiniteSetsExt

CONSTANT SMOOTH_DOOR_STATE_SIZE   \* 8

ASSUME ArrayAssumption == SMOOTH_DOOR_STATE_SIZE \in Nat \ 0 .. 4

Samples == {"OPEN", "CLOSED", "LOCKED"}

VARIABLES
    smooth_door_state,     \* the array, indexed from 0
    smooth_door_state_i    \* where the next sample goes

arrayVars == <<smooth_door_state, smooth_door_state_i>>

Places == 0 .. SMOOTH_DOOR_STATE_SIZE - 1

(* The initialiser names the first four; the others are zero, DOOR_CLOSED.    *)
ArrayInit ==
    /\ smooth_door_state = [p \in Places |-> CASE p = 0 -> "OPEN"
                                               [] p = 2 -> "LOCKED"
                                               [] p = 3 -> "FAULT"
                                               [] OTHER -> "CLOSED"]
    /\ smooth_door_state_i = 0

(* Mutation: the first place is left out when the index wraps around.         *)
MutSkipFirst == IF smooth_door_state_i + 1 >= SMOOTH_DOOR_STATE_SIZE
                THEN 1 ELSE smooth_door_state_i + 1

next_i == IF smooth_door_state_i + 1 >= SMOOTH_DOOR_STATE_SIZE
          THEN 0 ELSE smooth_door_state_i + 1

(* push_door_state, with a sample of classify_sensor_data.                    *)
push_door_state(state) ==
    /\ smooth_door_state' = [smooth_door_state EXCEPT ![smooth_door_state_i] = state]
    /\ smooth_door_state_i' = next_i

(* The flag of get_smoothed_door_state; the reading is then the first entry.  *)
get_smoothed_door_state_ok ==
    \A p \in Places : smooth_door_state[p] = smooth_door_state[0]

ArrayNext == \E s \in Samples : push_door_state(s)

ArraySpec == ArrayInit /\ [][ArrayNext]_arrayVars

-----------------------------------------------------------------------------
(* The sample that was pushed k pushes ago, and how many of the latest agree. *)
Ago(k) == smooth_door_state[(smooth_door_state_i + SMOOTH_DOOR_STATE_SIZE - k)
                              % SMOOTH_DOOR_STATE_SIZE]

LatestRun == Max({k \in 1 .. SMOOTH_DOOR_STATE_SIZE : \A j \in 1 .. k : Ago(j) = Ago(1)})

Sensor == INSTANCE DoorSensor WITH
            PresetRun <- SMOOTH_DOOR_STATE_SIZE - 4, sample <- Ago(1), run <- LatestRun

(* Looking at all entries of the array tells whether the latest samples were  *)
(* equal often enough: the array, started as the source initialises it and    *)
(* written in a circle, is the run length that DoorControl counts             *)
(* (push_door_state, get_smoothed_door_state).                                *)
ArrayIsRunLength ==
    /\ Sensor!SensorSpec
    /\ [][get_smoothed_door_state_ok' <=> Sensor!system_stable]_arrayVars
=============================================================================
