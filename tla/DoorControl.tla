----------------------------- MODULE DoorControl -----------------------------
(****************************************************************************)
(* One door controller: the main task of                                     *)
(* firmware/door-control/main/door-control.c around the state machine, the    *)
(* MQTT and interrupt callbacks that set event bits, the door and its         *)
(* sensor, and restarts.                                                      *)
(*                                                                            *)
(* The main loop collects the event bits, serves the ones it got one after    *)
(* the other in a fixed order, samples the door and starts again; each of     *)
(* these is a step, and everything else may happen between two of them.       *)
(****************************************************************************)
EXTENDS DoorStateMachine, DoorSensor

CONSTANTS
    FORCED_STATUS_UPDATE_PERIOD,  \* loops between forced status messages (100)
    BootTries,                    \* samples at boot before giving up (100)
    Inputs,                       \* event bits the environment may set
    MaxFaults                     \* bound on lost messages and restarts

ASSUME LoopAssumption ==
    /\ FORCED_STATUS_UPDATE_PERIOD \in Nat
    /\ BootTries \in Nat
    /\ MaxFaults \in Nat
    /\ Inputs \subseteq Bits \ {"timeout"}

VARIABLES
    phase,                  \* "boot", "wait" in xEventGroupWaitBits, or "work"
    current,                \* bits of current_state not yet served
    boot_timeout,           \* samples left before the boot loop gives up
    door_state,             \* app_main's door_state: the last reading forwarded
    force_refresh_timeout,  \* loops until a status message is forced
    button_pressed,         \* app_main's button_pressed
    door,                   \* the door itself
    button,                 \* the level of the button's pin
    published,              \* the status message the broker saw last
    faults                  \* faults so far

loopVars == <<phase, current, sample, run, boot_timeout, door_state,
              force_refresh_timeout, button_pressed>>
envVars  == <<door, button, published, faults>>
vars     == <<timerVars, smVars, loopVars, envVars>>

TypeOK ==
    /\ TimerTypeOK
    /\ SmTypeOK
    /\ phase \in {"boot", "wait", "work"}
    /\ current \subseteq Bits
    /\ sample \in DoorStates
    /\ run \in 1 .. SMOOTH_DOOR_STATE_SIZE
    /\ boot_timeout \in 0 .. BootTries
    /\ door_state \in DoorStates
    /\ force_refresh_timeout \in 0 .. FORCED_STATUS_UPDATE_PERIOD
    /\ button_pressed \in BOOLEAN
    /\ door \in DoorStates
    /\ button \in BOOLEAN
    /\ published \in DoorStates \cup {"none"}
    /\ faults \in 0 .. MaxFaults

-----------------------------------------------------------------------------
(* Start and restart.                                                         *)

(* The memory of the controller at the top of app_main.                       *)
PowerOn ==
    /\ TimerInit
    /\ sm_init("CLOSED")
    /\ phase = "boot"
    /\ current = {}
    /\ SensorInit
    /\ boot_timeout = BootTries
    /\ door_state = "CLOSED"
    /\ force_refresh_timeout = 0
    /\ button_pressed = FALSE

Init ==
    /\ PowerOn
    /\ door \in DoorStates
    /\ button = FALSE
    /\ published = "none"
    /\ faults = 0

(* esp_restart and abort: the memory is gone, the world is as it was.         *)
restart ==
    /\ event_bits' = {}
    /\ timeout_task' = "none"
    /\ alive' = TRUE
    /\ stale' = FALSE
    /\ sm_door_state' = "CLOSED"
    /\ logic_state' = "IDLE"
    /\ unsafe_action' = FALSE
    /\ io' = {}
    /\ outputs' = {}
    /\ request' = "none"
    /\ phase' = "boot"
    /\ current' = {}
    /\ sample' = "CLOSED"
    /\ run' = PresetRun
    /\ boot_timeout' = BootTries
    /\ door_state' = "CLOSED"
    /\ force_refresh_timeout' = 0
    /\ button_pressed' = FALSE
    /\ UNCHANGED <<door, button, published>>

-----------------------------------------------------------------------------
(* The sensor: get_door_state.                                                *)

(* Mutation: the index into the array does not wrap around.                   *)
MutIndexRunsOn ==
    /\ sample' = door
    /\ run' = IF door # sample THEN 1 ELSE run + 1

(* classify_sensor_data reads the contacts of the door.                       *)
push_door_state == push_sample(door)

-----------------------------------------------------------------------------
(* The boot loop: sample until the reading is stable, then sm_init.           *)
Boot ==
    /\ phase = "boot"
    /\ \/ /\ push_door_state
          /\ system_stable
          /\ phase' = "wait"
          /\ door_state' = door
          /\ sm_door_state' = door
          /\ outputs' = {}
          /\ UNCHANGED <<current, boot_timeout, force_refresh_timeout, button_pressed,
                         logic_state, unsafe_action, io, request>>
          /\ UNCHANGED <<timerVars, envVars>>
       \/ /\ push_door_state
          /\ ~system_stable
          /\ boot_timeout > 0
          /\ boot_timeout' = boot_timeout - 1
          /\ outputs' = {}
          /\ UNCHANGED <<phase, current, door_state, force_refresh_timeout, button_pressed,
                         sm_door_state, logic_state, unsafe_action, io, request>>
          /\ UNCHANGED <<timerVars, envVars>>
       \/ /\ door # sample \/ run + 1 < SMOOTH_DOOR_STATE_SIZE
          /\ boot_timeout = 0
          /\ restart
          /\ UNCHANGED faults

-----------------------------------------------------------------------------
(* The main loop.                                                             *)

(* xEventGroupWaitBits returns, after 100 ms even without a bit, and clears   *)
(* what it returns.                                                           *)
WaitBits ==
    /\ phase = "wait"
    /\ phase' = "work"
    /\ current' = event_bits
    /\ event_bits' = {}
    /\ outputs' = {}
    /\ UNCHANGED <<sample, run, boot_timeout, door_state, force_refresh_timeout,
                   button_pressed, timeout_task, alive, stale, sm_door_state,
                   logic_state, unsafe_action, io, request>>
    /\ UNCHANGED envVars

(* The bits are served in this order.                                         *)
Before(b) == CASE b = "io"      -> {}
               [] b = "timeout" -> {"io"}
               [] b = "close"   -> {"io", "timeout"}
               [] b = "safe"    -> {"io", "timeout", "close"}
               [] b = "unsafe"  -> {"io", "timeout", "close", "safe"}

Serving(b) ==
    /\ phase = "work"
    /\ b \in current
    /\ Before(b) \cap current = {}
    /\ current' = current \ {b}

(* Mutation: only a press is remembered.                                      *)
MutIgnoreRelease == button_pressed \/ button

(* What button_pressed becomes.                                               *)
btn_state == button

(* A button edge: the level is compared with the one seen last, and a press   *)
(* after the debounce time is published; the controller aborts when that      *)
(* fails.                                                                     *)
ServeButton ==
    /\ Serving("io")
    /\ button_pressed' = btn_state
    /\ \E debounced \in BOOLEAN :
          outputs' = IF button /\ ~button_pressed /\ debounced THEN {"button"} ELSE {}
    /\ UNCHANGED <<phase, sample, run, boot_timeout, door_state, force_refresh_timeout,
                   sm_door_state, logic_state, unsafe_action, io, request>>
    /\ UNCHANGED <<timerVars, envVars>>

ButtonPublishFails ==
    /\ phase = "work"
    /\ "io" \in current
    /\ button /\ ~button_pressed
    /\ faults < MaxFaults
    /\ faults' = faults + 1
    /\ restart

ServeTimeout ==
    /\ Serving("timeout")
    /\ send_timeout
    /\ UNCHANGED <<phase, sample, run, boot_timeout, door_state, force_refresh_timeout,
                   button_pressed>>
    /\ UNCHANGED envVars

ServeRequest ==
    /\ \/ Serving("close") /\ send_close
       \/ Serving("safe") /\ send_open(FALSE)
       \/ Serving("unsafe") /\ send_open(TRUE)
    /\ UNCHANGED <<phase, sample, run, boot_timeout, door_state, force_refresh_timeout,
                   button_pressed>>
    /\ UNCHANGED envVars

(* publish_door_status: the message arrives, or, with QoS 0, may be lost.     *)
publish_door_status(status) ==
    \/ published' = status /\ UNCHANGED faults
    \/ /\ faults < MaxFaults
       /\ faults' = faults + 1
       /\ UNCHANGED published

(* Mutation: a reading is only forwarded when it is new.                      *)
MutNoForcedUpdate == system_stable /\ door # door_state

(* A reading is forwarded when it is stable and either new or forced.         *)
forwarded ==
    /\ system_stable
    /\ door # door_state \/ force_refresh_timeout = 0

refresh_countdown ==
    IF force_refresh_timeout > 0 THEN force_refresh_timeout - 1 ELSE 0

SampleDoor ==
    /\ phase = "work"
    /\ current = {}
    /\ push_door_state
    /\ phase' = "wait"
    /\ \/ /\ forwarded
          /\ door_state' = door
          /\ publish_door_status(door)
          /\ sm_change_door_state(door)
          /\ force_refresh_timeout' = FORCED_STATUS_UPDATE_PERIOD
       \/ /\ ~forwarded
          /\ force_refresh_timeout' = refresh_countdown
          /\ stay({})
          /\ UNCHANGED <<door_state, published, faults, sm_door_state, request>>
    /\ UNCHANGED <<current, boot_timeout, button_pressed, door, button>>

(* The status message cannot be sent at all: abort, before the state machine  *)
(* hears of the reading.                                                      *)
StatusPublishFails ==
    /\ phase = "work"
    /\ current = {}
    /\ door = sample /\ run + 1 >= SMOOTH_DOOR_STATE_SIZE
    /\ door # door_state \/ force_refresh_timeout = 0
    /\ faults < MaxFaults
    /\ faults' = faults + 1
    /\ restart

MainTask ==
    /\ alive
    /\ \/ Boot
       \/ WaitBits
       \/ ServeButton \/ ButtonPublishFails
       \/ ServeTimeout
       \/ ServeRequest
       \/ SampleDoor \/ StatusPublishFails

-----------------------------------------------------------------------------
(* Everybody else.                                                            *)

(* Nothing but the event group and the outside world changes.                 *)
OutsideMain ==
    /\ outputs' = {}
    /\ UNCHANGED <<timeout_task, alive, stale, sm_door_state, logic_state, unsafe_action,
                   io, request, published, faults>>
    /\ UNCHANGED loopVars

(* on_mqtt_data_received: a request for this door sets its bit.               *)
RequestArrives ==
    /\ \E b \in Inputs \ {"io"} : event_bits' = event_bits \cup {b}
    /\ OutsideMain
    /\ UNCHANGED <<door, button>>

(* io_changed_level: an edge on the button's pin.                             *)
ButtonEdge ==
    /\ "io" \in Inputs
    /\ button' = ~button
    /\ event_bits' = event_bits \cup {"io"}
    /\ OutsideMain
    /\ UNCHANGED door

(* The door is opened, closed, locked or unlocked, by hand, with a key or by  *)
(* the motor.                                                                 *)
DoorMoves ==
    /\ door' \in IF door = "CLOSED" THEN {"OPEN", "LOCKED"} ELSE {"CLOSED"}
    /\ OutsideMain
    /\ UNCHANGED <<event_bits, button>>

(* A reset message.  It is also all that helps a controller whose main task   *)
(* is gone.                                                                   *)
ResetArrives ==
    /\ faults < MaxFaults
    /\ faults' = faults + 1
    /\ restart

TimeoutTask ==
    /\ TimeoutElapses \/ TimeoutTaskExits
    /\ outputs' = {}
    /\ UNCHANGED <<sm_door_state, logic_state, unsafe_action, io, request>>
    /\ UNCHANGED <<loopVars, envVars>>

Next ==
    \/ MainTask
    \/ TimeoutTask
    \/ RequestArrives
    \/ ButtonEdge
    \/ DoorMoves
    \/ ResetArrives

Spec == Init /\ [][Next]_vars

(* The main task never blocks for more than 100 ms or the length of a beep,   *)
(* and a delay ends: both tasks are scheduled.                                *)
FairSpec == Spec /\ WF_vars(MainTask) /\ WF_vars(TimeoutTask)

-----------------------------------------------------------------------------
(* The service that the controller gives.                                     *)

StageOf(s) == CASE s \in {"INIT_OPEN", "WAIT_FOR_UNLOCKED"} -> "opening"
                [] s = "WAIT_FOR_OPEN" -> "entry"
                [] s = "WAIT_FOR_CLOSED" -> "closing"
                [] s \in {"INIT_LOCK", "WAIT_FOR_LOCKED"} -> "locking"
                [] s = "IDLE" -> "idle"

Service == INSTANCE DoorService WITH
    d <- [door |-> door, seen |-> sm_door_state, stage |-> StageOf(logic_state),
          kind |-> request, status |-> published]

-----------------------------------------------------------------------------
(* Properties.                                                                *)

(* A relay of the motor lock is pressed exactly in the state that presses it: *)
(* the two are never pressed together, and none stays pressed whatever order  *)
(* of timeouts, requests and door movements ends the state (set_state).       *)
RelaysFollowState ==
    /\ "open" \in io <=> logic_state = "INIT_OPEN"
    /\ "close" \in io <=> logic_state = "INIT_LOCK"

(* A process that is waiting for something has a timeout coming: a task that  *)
(* sleeps, or a bit that is set, or one that was collected and is yet to be   *)
(* served.  Killing the old task, the deletion race aside, never loses the    *)
(* new timeout; and in IDLE no timeout is left running (setTimeout).          *)
TimeoutPending ==
    alive =>
      /\ logic_state # "IDLE" =>
           timeout_task = "waiting" \/ "timeout" \in event_bits \cup current
      /\ logic_state = "IDLE" => timeout_task # "waiting"

(* A door that was opened unsafely is never locked again by the controller on *)
(* its own: the flag stored by sm_send_event survives until the bolt is out,  *)
(* whatever requests arrive meanwhile.                                        *)
UnsafeOpenNeverRelocks ==
    logic_state \in CloseStates \cup {"WAIT_FOR_OPEN"} => request # "unsafe"

(* The bolt is not driven out while the controller knows the door to be open, *)
(* neither on a close request nor when a safe open ran out of time.           *)
NeverLocksAnOpenDoor ==
    [][logic_state' = "INIT_LOCK" /\ logic_state # "INIT_LOCK"
         => sm_door_state' # "OPEN"]_vars

(* A release of the button that the main loop has not seen yet still has its  *)
(* bit, however edges and loop steps interleave; a lost release would swallow *)
(* the next press (app_main compares levels).                                 *)
ReleaseSeen ==
    button_pressed /\ ~button => "io" \in event_bits \cup current

(* Whatever the tasks of the controller do in between, what happens at the    *)
(* door and on MQTT is what DoorService promises: a request is served to the  *)
(* end before the next is taken up, an unsafe one ends with the bolt out, a   *)
(* safe one locks only when nobody came, and a status message is never older  *)
(* than the reading it is about (app_main, set_state).                        *)
ImplementsService == Service!ServiceSpec

(* Every process comes to an end: the state machine returns to IDLE, unless   *)
(* the main task was deleted by the race in setTimeout.                       *)
ProcessEnds == logic_state # "IDLE" ~> (logic_state = "IDLE" \/ ~alive)

(* Once the door stays as it is, the last status that was published becomes   *)
(* and stays that of the door, although messages were lost and the controller *)
(* restarted (the forced update).                                             *)
StatusConverges ==
    \A d \in DoorStates : <>[](door = d) => <>[](published = d \/ ~alive)

(* A timeout that was cancelled or replaced is not sent any more:             *)
(* "the timeout is request is cleared and no EVENT_TIMEOUT should be sent     *)
(* anymore" (state-machine.h, setTimeout).                                    *)
CancelledTimeoutNotSent ==
    ~(stale /\ phase = "work" /\ "timeout" \in current /\ logic_state # "IDLE")
=============================================================================
