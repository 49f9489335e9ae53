---------------------------- MODULE DoorSensor ----------------------------
(****************************************************************************)
(* The smoothed reading of a door as DoorControl uses it: the latest sample   *)
(* and the number of samples in a row that equal it.  A reading is stable     *)
(* when there are SMOOTH_DOOR_STATE_SIZE of them.  SmoothSensor has the array *)
(* of samples of the source.                                                  *)
(****************************************************************************)
EXTENDS Naturals

CONSTANTS
    SMOOTH_DOOR_STATE_SIZE,       \* equal samples that make a stable reading (8)
    PresetRun                     \* entries at the end of the initial sample
                                  \* array that read as DOOR_CLOSED (4)

ASSUME SensorAssumption ==
    /\ SMOOTH_DOOR_STATE_SIZE \in Nat \ {0}
    /\ PresetRun \in 1 .. SMOOTH_DOOR_STATE_SIZE

Readings == {"OPEN", "CLOSED", "LOCKED"}

VARIABLES sample, run

SensorInit == sample = "CLOSED" /\ run = PresetRun

push_sample(reading) ==
    /\ sample' = reading
    /\ run' = IF reading # sample THEN 1
              ELSE IF run < SMOOTH_DOOR_STATE_SIZE THEN run + 1 ELSE run

(* value_sane: all samples in the array are equal.                            *)
system_stable == run' = SMOOTH_DOOR_STATE_SIZE

SensorNext == \E reading \in Readings : push_sample(reading)

SensorSpec == SensorInit /\ [][SensorNext]_<<sample, run>>
=============================================================================
