-------------------------- MODULE DoorControlProofs --------------------------
(****************************************************************************)
(* Theorems about one door controller, for every size of the sample array,    *)
(* every period of forced updates and every bound on faults: the safety       *)
(* properties of module DoorControl hold in every reachable state.  They are  *)
(* parts of one inductive invariant, DoorInv.                                 *)
(****************************************************************************)
EXTENDS DoorControl, TLAPS

(* Bits are only held while the main loop serves them.                        *)
BitsServedAtWork == phase # "work" => current = {}

(* No process runs before the first stable reading.                           *)
BootsIdle == phase = "boot" => logic_state = "IDLE"

(* While an open process is running the flag of sm_send_event is that of the  *)
(* request that started it.                                                   *)
FlagOfRequest ==
    alive /\ logic_state \in OpenStates => (unsafe_action <=> request = "unsafe")

(* A controller that waits for the door to be opened does not know it open.   *)
WaitsForOpening == logic_state = "WAIT_FOR_OPEN" => sm_door_state # "OPEN"

(* The inductive invariant.                                                   *)
DoorInv ==
    /\ TypeOK
    /\ BitsServedAtWork
    /\ BootsIdle
    /\ RelaysFollowState
    /\ TimeoutPending
    /\ FlagOfRequest
    /\ WaitsForOpening
    /\ UnsafeOpenNeverRelocks
    /\ ReleaseSeen

USE SensorAssumption, LoopAssumption

-----------------------------------------------------------------------------
(* Entering a state of the state machine keeps the types of what set_state    *)
(* and statemachine_setTimeout assign.                                        *)
LEMMA SetStateTypes ==
    ASSUME TypeOK, NEW s \in LogicStates, NEW flag \in BOOLEAN,
           NEW sent \in SUBSET Signals, set_state(s, flag, sent)
    PROVE  /\ TimerTypeOK'
           /\ logic_state' \in LogicStates
           /\ io' \subseteq {"open", "close"}
           /\ unsafe_action' \in BOOLEAN
           /\ outputs' \subseteq Signals \cup {"button"}
<1>1. TimerTypeOK'
  <2>1. stale' \in BOOLEAN
    <3>1. CASE stale' = ("timeout" \in event_bits)
      BY <3>1
    <3>2. CASE UNCHANGED stale
      BY <3>2 DEF TypeOK, TimerTypeOK
    <3> QED
      BY <3>1, <3>2, Zenon DEF set_state, statemachine_setTimeout
  <2>2. alive' \in BOOLEAN
    BY DEF set_state, statemachine_setTimeout, TypeOK, TimerTypeOK
  <2>3. event_bits' \subseteq Bits /\ timeout_task' \in {"none", "waiting", "fired"}
    BY DEF set_state, statemachine_setTimeout, TypeOK, TimerTypeOK
  <2> QED
    BY <2>1, <2>2, <2>3 DEF TimerTypeOK
<1>2. io' \subseteq {"open", "close"}
  BY DEF set_state, io_of, TypeOK, SmTypeOK, LogicStates, OpenStates, CloseStates
<1>3. signals_of(s) \subseteq Signals
  BY DEF signals_of, Signals
<1>4. outputs' \subseteq Signals \cup {"button"}
  BY <1>3 DEF set_state
<1>5. unsafe_action' \in BOOLEAN
  BY DEF set_state
<1> QED
  BY <1>1, <1>2, <1>4, <1>5 DEF set_state

(* A step of the state machine that stays where it is keeps them too.         *)
LEMMA StayTypes ==
    ASSUME TypeOK, NEW sent \in SUBSET Signals, stay(sent)
    PROVE  /\ TimerTypeOK'
           /\ logic_state' \in LogicStates
           /\ io' \subseteq {"open", "close"}
           /\ unsafe_action' \in BOOLEAN
           /\ outputs' \subseteq Signals \cup {"button"}
BY DEF stay, TypeOK, TimerTypeOK, SmTypeOK, timerVars

(* The same for the four operations of the state machine.                     *)
LEMMA ChangeTypes ==
    ASSUME TypeOK, NEW d \in DoorStates, sm_change_door_state(d)
    PROVE  TimerTypeOK' /\ SmTypeOK'
<1> DEFINE Kept == /\ TimerTypeOK'
                   /\ logic_state' \in LogicStates
                   /\ io' \subseteq {"open", "close"}
                   /\ unsafe_action' \in BOOLEAN
                   /\ outputs' \subseteq Signals \cup {"button"}
<1>0. unsafe_action \in BOOLEAN /\ request \in {"none", "safe", "unsafe", "close"}
  BY DEF TypeOK, SmTypeOK
<1>1. ASSUME NEW sent \in SUBSET Signals, stay(sent)
      PROVE  Kept
  BY <1>1, StayTypes
<1>2. ASSUME NEW s \in LogicStates, NEW sent \in SUBSET Signals,
             set_state(s, unsafe_action, sent)
      PROVE  Kept
  BY <1>0, <1>2, SetStateTypes
<1>3. Kept
  <2> HIDE DEF Kept
  <2>1. CASE stay({})
    BY <1>1, <2>1
  <2>2. CASE ChangeInIdle(d)
    BY <1>1, <2>2 DEF ChangeInIdle, Signals
  <2>3. CASE ChangeWhileUnlocking(d)
    BY <1>1, <1>2, <2>3
       DEF ChangeWhileUnlocking, Signals, LogicStates, OpenStates, CloseStates
  <2>4. CASE ChangeWhileWaiting(d)
    BY <1>1, <1>2, <2>4
       DEF ChangeWhileWaiting, Signals, LogicStates, OpenStates, CloseStates
  <2> QED
    BY <2>1, <2>2, <2>3, <2>4 DEF sm_change_door_state, ChangeWhilePressing
<1> QED
  BY <1>0, <1>3 DEF sm_change_door_state, SmTypeOK

(* The three kinds of event that sm_send_event takes keep the types.          *)
LEMMA EventTypes ==
    ASSUME TypeOK, send_timeout \/ send_close \/ \E u \in BOOLEAN : send_open(u)
    PROVE  TimerTypeOK' /\ SmTypeOK'
<1> DEFINE Kept == /\ TimerTypeOK'
                   /\ logic_state' \in LogicStates
                   /\ io' \subseteq {"open", "close"}
                   /\ unsafe_action' \in BOOLEAN
                   /\ outputs' \subseteq Signals \cup {"button"}
<1>0. /\ unsafe_action \in BOOLEAN
      /\ sm_door_state \in DoorStates
      /\ request \in {"none", "safe", "unsafe", "close"}
  BY DEF TypeOK, SmTypeOK
<1>1. ASSUME NEW sent \in SUBSET Signals, stay(sent)
      PROVE  Kept
  BY <1>1, StayTypes
<1>2. ASSUME NEW s \in LogicStates, NEW flag \in BOOLEAN, NEW sent \in SUBSET Signals,
             set_state(s, flag, sent)
      PROVE  Kept
  BY <1>2, SetStateTypes
<1>3. CASE send_timeout
  <2>1. Kept
    <3> HIDE DEF Kept
    <3>1. timeout_target(logic_state) \in LogicStates
      BY DEF timeout_target, LogicStates, OpenStates, CloseStates
    <3>2. timeout_signals(logic_state) \in SUBSET Signals
      BY DEF timeout_signals, Signals
    <3>3. (IF alive' THEN {"ERROR_LOCKING"} ELSE {}) \in SUBSET Signals
      BY DEF Signals
    <3>4. "IDLE" \in LogicStates
      BY DEF LogicStates
    <3>5. CASE stay({})
      BY <1>1, <3>5
    <3>6. CASE set_state(timeout_target(logic_state), unsafe_action,
                         timeout_signals(logic_state))
      BY <1>0, <1>2, <3>1, <3>2, <3>6
    <3>7. CASE set_state("IDLE", unsafe_action, IF alive' THEN {"ERROR_LOCKING"} ELSE {})
      BY <1>0, <1>2, <3>3, <3>4, <3>7
    <3> QED
      BY <1>3, <3>5, <3>6, <3>7 DEF send_timeout
  <2> QED
    BY <1>0, <1>3, <2>1 DEF send_timeout, SmTypeOK
<1>4. CASE send_close
  <2>1. Kept
    <3> HIDE DEF Kept
    <3>1. close_target \in LogicStates
      BY DEF close_target, LogicStates, OpenStates, CloseStates
    <3> QED
      BY <1>0, <1>1, <1>2, <1>4, <3>1 DEF send_close
  <2> QED
    BY <1>0, <1>4, <2>1 DEF send_close, SmTypeOK
<1>5. ASSUME NEW u \in BOOLEAN, send_open(u)
      PROVE  TimerTypeOK' /\ SmTypeOK'
  <2>1. Kept
    <3>1. CASE stay({})
      BY <1>1, <3>1
    <3>2. CASE set_state("INIT_OPEN", u, {})
      BY <1>2, <3>2 DEF LogicStates, OpenStates
    <3>3. CASE /\ unsafe_action' = u
               /\ outputs' = {}
               /\ UNCHANGED <<logic_state, io, request>>
               /\ UNCHANGED timerVars
      BY <3>3 DEF TypeOK, TimerTypeOK, SmTypeOK, timerVars
    <3> QED
      BY <1>5, <3>1, <3>2, <3>3 DEF send_open
  <2> QED
    BY <1>0, <1>5, <2>1 DEF send_open, SmTypeOK
<1> QED
  BY <1>3, <1>4, <1>5

-----------------------------------------------------------------------------
(* Type correctness.                                                          *)

(* A restart resets every variable to a value of its type.                    *)
LEMMA RestartTypes ==
    ASSUME TypeOK, restart, faults' \in 0 .. MaxFaults
    PROVE  TypeOK'
<1>1. TimerTypeOK'
  BY DEF restart, TimerTypeOK
<1>2. SmTypeOK'
  BY DEF restart, SmTypeOK, DoorStates, LogicStates
<1>3. run' \in 1 .. SMOOTH_DOOR_STATE_SIZE /\ boot_timeout' \in 0 .. BootTries
  BY DEF restart
<1>4. force_refresh_timeout' \in 0 .. FORCED_STATUS_UPDATE_PERIOD
  BY DEF restart
<1>5. /\ button_pressed' \in BOOLEAN
      /\ sample' \in DoorStates
      /\ door_state' \in DoorStates
  BY DEF restart, DoorStates
<1> QED
  BY <1>1, <1>2, <1>3, <1>4, <1>5 DEF restart, TypeOK

(* push_door_state keeps the run between one and the size of the array.       *)
LEMMA SampleTypes ==
    ASSUME TypeOK, push_door_state
    PROVE  sample' \in DoorStates /\ run' \in 1 .. SMOOTH_DOOR_STATE_SIZE
BY DEF push_door_state, push_sample, TypeOK

(* A counted fault stays within its bound.                                    *)
LEMMA FaultCounted ==
    ASSUME TypeOK, faults < MaxFaults, faults' = faults + 1
    PROVE  faults' \in 0 .. MaxFaults
BY DEF TypeOK

(* Every action keeps the types.                                              *)
LEMMA TypeStep ==
    ASSUME TypeOK, [Next]_vars
    PROVE  TypeOK'
<1> USE DEF TypeOK
<1>1. CASE Boot
  <2>1. CASE restart /\ UNCHANGED faults
    BY <2>1, RestartTypes
  <2>2. CASE ~(restart /\ UNCHANGED faults)
    <3>1. UNCHANGED <<timerVars, envVars, logic_state, unsafe_action, io, request>>
      BY <1>1, <2>2 DEF Boot
    <3>2. TimerTypeOK'
      BY <3>1 DEF timerVars, TimerTypeOK
    <3>3. SmTypeOK'
      BY <1>1, <2>2, <3>1 DEF Boot, SmTypeOK
    <3>4. sample' \in DoorStates /\ run' \in 1 .. SMOOTH_DOOR_STATE_SIZE
      BY <1>1, <2>2, SampleTypes DEF Boot
    <3>5. phase' \in {"boot", "wait", "work"} /\ door_state' \in DoorStates
      BY <1>1, <2>2 DEF Boot
    <3>6. boot_timeout' \in 0 .. BootTries
      BY <1>1, <2>2 DEF Boot
    <3>7. UNCHANGED <<current, force_refresh_timeout, button_pressed>>
      BY <1>1, <2>2 DEF Boot
    <3> QED
      BY <3>1, <3>2, <3>3, <3>4, <3>5, <3>6, <3>7 DEF envVars
  <2> QED
    BY <2>1, <2>2
<1>2. CASE WaitBits
  BY <1>2 DEF WaitBits, TimerTypeOK, SmTypeOK, envVars
<1>3. CASE ServeButton
  BY <1>3 DEF ServeButton, Serving, btn_state, TimerTypeOK, SmTypeOK, timerVars, envVars
<1>4. CASE ServeTimeout
  <2>1. TimerTypeOK' /\ SmTypeOK'
    BY <1>4, EventTypes DEF ServeTimeout
  <2> QED
    BY <1>4, <2>1 DEF ServeTimeout, Serving, envVars
<1>5. CASE ServeRequest
  <2>1. TimerTypeOK' /\ SmTypeOK'
    BY <1>5, EventTypes DEF ServeRequest
  <2> QED
    BY <1>5, <2>1 DEF ServeRequest, Serving, envVars
<1>6. CASE SampleDoor
  <2>1. TimerTypeOK' /\ SmTypeOK'
    <3>1. CASE sm_change_door_state(door)
      BY <3>1, ChangeTypes
    <3>2. CASE stay({}) /\ UNCHANGED <<sm_door_state, request>>
      BY <3>2, StayTypes DEF SmTypeOK
    <3> QED
      BY <1>6, <3>1, <3>2 DEF SampleDoor
  <2>2. published' \in DoorStates \cup {"none"} /\ faults' \in 0 .. MaxFaults
    BY <1>6 DEF SampleDoor, publish_door_status
  <2>3. force_refresh_timeout' \in 0 .. FORCED_STATUS_UPDATE_PERIOD
    BY <1>6 DEF SampleDoor, refresh_countdown
  <2> QED
    BY <1>6, <2>1, <2>2, <2>3, SampleTypes DEF SampleDoor
<1>7. CASE ButtonPublishFails \/ StatusPublishFails \/ ResetArrives
  BY <1>7, FaultCounted, RestartTypes
     DEF ButtonPublishFails, StatusPublishFails, ResetArrives
<1>8. CASE TimeoutTask
  <2>1. /\ TimeoutElapses \/ TimeoutTaskExits
        /\ UNCHANGED <<sm_door_state, logic_state, unsafe_action, io, request>>
        /\ UNCHANGED <<loopVars, envVars>> /\ outputs' = {}
    BY <1>8 DEF TimeoutTask
  <2>2. TimerTypeOK'
    BY <2>1 DEF TimeoutElapses, TimeoutTaskExits, TimerTypeOK, Bits
  <2>3. SmTypeOK'
    BY <2>1 DEF SmTypeOK
  <2> QED
    BY <2>1, <2>2, <2>3 DEF loopVars, envVars
<1>9. CASE RequestArrives \/ ButtonEdge \/ DoorMoves
  <2>1. event_bits' \subseteq Bits
    <3>1. "io" \in Bits /\ Inputs \subseteq Bits
      BY LoopAssumption DEF Bits
    <3>2. event_bits' = event_bits \/ \E b \in Bits : event_bits' = event_bits \cup {b}
      BY <1>9, <3>1 DEF RequestArrives, ButtonEdge, DoorMoves
    <3> QED
      BY <3>2 DEF TimerTypeOK
  <2>2. door' \in DoorStates
    BY <1>9 DEF RequestArrives, ButtonEdge, DoorMoves, DoorStates
  <2>3. button' \in BOOLEAN
    <3>1. button' = ~button \/ button' = button
      BY <1>9 DEF RequestArrives, ButtonEdge, DoorMoves
    <3> QED
      BY <3>1
  <2>4. OutsideMain
    BY <1>9 DEF RequestArrives, ButtonEdge, DoorMoves
  <2> QED
    BY <2>1, <2>2, <2>3, <2>4 DEF OutsideMain, TimerTypeOK, SmTypeOK, loopVars
<1>10. CASE UNCHANGED vars
  BY <1>10 DEF vars, timerVars, smVars, loopVars, envVars, TimerTypeOK, SmTypeOK
<1> QED
  BY <1>1, <1>2, <1>3, <1>4, <1>5, <1>6, <1>7, <1>8, <1>9, <1>10 DEF Next, MainTask

(* The initial states are of their types.                                     *)
LEMMA TypeInit == Init => TypeOK
<1> SUFFICES ASSUME Init PROVE TypeOK
  OBVIOUS
<1>1. TimerTypeOK
  BY DEF Init, PowerOn, TimerInit, TimerTypeOK
<1>2. SmTypeOK
  BY DEF Init, PowerOn, sm_init, SmTypeOK, DoorStates, LogicStates
<1>3. run \in 1 .. SMOOTH_DOOR_STATE_SIZE /\ boot_timeout \in 0 .. BootTries
  BY DEF Init, PowerOn, SensorInit
<1>4. force_refresh_timeout \in 0 .. FORCED_STATUS_UPDATE_PERIOD /\ faults \in 0 .. MaxFaults
  BY DEF Init, PowerOn
<1>5. /\ button_pressed \in BOOLEAN
      /\ button \in BOOLEAN
      /\ sample \in DoorStates
      /\ door_state \in DoorStates
  BY DEF Init, PowerOn, SensorInit, DoorStates
<1> QED
  BY <1>1, <1>2, <1>3, <1>4, <1>5 DEF Init, PowerOn, SensorInit, TypeOK

(* Every variable of the controller stays in its range: the countdowns do not *)
(* pass zero, the run length not the size of the sample array.                *)
THEOREM TypeCorrect == Spec => []TypeOK
BY TypeInit, TypeStep, PTL DEF Spec

-----------------------------------------------------------------------------
(* The safety invariants.                                                     *)

(* What the state machine's own steps leave behind: the parts of the          *)
(* invariant about its state.                                                 *)
MachineInv ==
    /\ RelaysFollowState
    /\ FlagOfRequest
    /\ WaitsForOpening
    /\ UnsafeOpenNeverRelocks

(* What they do to the timeout: set_state replaced it, or nothing changed.    *)
TimeoutReplaced ==
    /\ event_bits' = event_bits
    /\ alive' /\ logic_state' # "IDLE" => timeout_task' = "waiting"
    /\ alive' /\ logic_state' = "IDLE" => timeout_task' # "waiting"

TimeoutKept == UNCHANGED timerVars /\ UNCHANGED logic_state

(* set_state, as far as the invariant needs it.                               *)
LEMMA Entering ==
    ASSUME TypeOK, NEW s \in LogicStates, NEW flag \in BOOLEAN, NEW sent,
           set_state(s, flag, sent)
    PROVE  /\ logic_state' = s
           /\ io' = io_of(s)
           /\ alive' /\ s # "IDLE" => (unsafe_action' <=> flag)
           /\ TimeoutReplaced
<1>1. logic_state' = s /\ io' = io_of(s)
  BY DEF set_state
<1>2. alive' /\ s # "IDLE" => (unsafe_action' <=> flag)
  BY DEF set_state
<1>3. TimeoutReplaced
  BY <1>1 DEF set_state, statemachine_setTimeout, TimeoutReplaced
<1> QED
  BY <1>1, <1>2, <1>3

(* Staying in a state keeps the part of the invariant about the machine.      *)
LEMMA StayMachine ==
    ASSUME MachineInv, NEW sent, stay(sent), UNCHANGED <<sm_door_state, request>>
    PROVE  MachineInv' /\ TimeoutKept
BY DEF stay, MachineInv, RelaysFollowState, FlagOfRequest, WaitsForOpening,
       UnsafeOpenNeverRelocks, TimeoutKept, timerVars

(* A state is entered without a change of the request.                        *)
LEMMA EnterMachine ==
    ASSUME TypeOK, MachineInv, alive,
           NEW s \in LogicStates, NEW sent, set_state(s, unsafe_action, sent),
           request' = IF s = "IDLE" THEN "none" ELSE request,
           s = "IDLE" \/ <<logic_state, s>> \in
              {<<"INIT_OPEN", "WAIT_FOR_UNLOCKED">>, <<"WAIT_FOR_UNLOCKED", "WAIT_FOR_OPEN">>,
               <<"WAIT_FOR_OPEN", "INIT_LOCK">>, <<"WAIT_FOR_CLOSED", "INIT_LOCK">>,
               <<"INIT_LOCK", "WAIT_FOR_LOCKED">>},
           s = "WAIT_FOR_OPEN" => sm_door_state' # "OPEN" /\ ~unsafe_action
    PROVE  MachineInv' /\ TimeoutReplaced
<1>0. unsafe_action \in BOOLEAN
  BY DEF TypeOK, SmTypeOK
<1>1. /\ logic_state' = s
      /\ io' = io_of(s)
      /\ alive' /\ s # "IDLE" => (unsafe_action' <=> unsafe_action)
      /\ TimeoutReplaced
  BY <1>0, Entering
<1>2. RelaysFollowState'
  BY <1>1 DEF MachineInv, RelaysFollowState, io_of
<1>3. FlagOfRequest'
  BY <1>1 DEF MachineInv, FlagOfRequest, OpenStates
<1>4. WaitsForOpening'
  BY <1>1 DEF WaitsForOpening
<1>5. UnsafeOpenNeverRelocks'
  BY <1>1 DEF MachineInv, UnsafeOpenNeverRelocks, FlagOfRequest, OpenStates, CloseStates
<1> QED
  BY <1>1, <1>2, <1>3, <1>4, <1>5 DEF MachineInv

(* A new reading of the door, an event and a request keep the machine's part. *)
LEMMA ChangeMachine ==
    ASSUME TypeOK, MachineInv, alive, NEW d \in DoorStates, sm_change_door_state(d)
    PROVE  MachineInv' /\ (TimeoutReplaced \/ TimeoutKept)
<1> USE DEF DoorStates
<1>1. sm_door_state' = d /\ request' = IF logic_state' = "IDLE" THEN "none" ELSE request
  BY DEF sm_change_door_state
<1>2. ASSUME NEW sent, stay(sent), logic_state = "WAIT_FOR_OPEN" => d # "OPEN"
      PROVE  MachineInv' /\ TimeoutKept
  <2>1. UNCHANGED <<logic_state, io, unsafe_action>> /\ UNCHANGED timerVars
    BY <1>2 DEF stay
  <2>2. RelaysFollowState' /\ WaitsForOpening'
    BY <1>1, <1>2, <2>1 DEF MachineInv, RelaysFollowState, WaitsForOpening
  <2>3. FlagOfRequest' /\ UnsafeOpenNeverRelocks'
    BY <1>1, <2>1 DEF MachineInv, FlagOfRequest, UnsafeOpenNeverRelocks, timerVars,
                      OpenStates, CloseStates
  <2> QED
    BY <2>1, <2>2, <2>3 DEF MachineInv, TimeoutKept
<1>3. ASSUME NEW s \in LogicStates, NEW sent, set_state(s, unsafe_action, sent),
             s = "IDLE" \/ <<logic_state, s>> \in
                {<<"WAIT_FOR_UNLOCKED", "WAIT_FOR_OPEN">>, <<"WAIT_FOR_CLOSED", "INIT_LOCK">>},
             s = "WAIT_FOR_OPEN" => d # "OPEN" /\ ~unsafe_action
      PROVE  MachineInv' /\ TimeoutReplaced
  <2>1. logic_state' = s
    BY <1>3 DEF set_state
  <2> QED
    BY <1>1, <1>3, <2>1, EnterMachine
<1>4. CASE sm_door_state = d /\ stay({})
  BY <1>2, <1>4 DEF MachineInv, WaitsForOpening
<1>5. CASE ChangeInIdle(d)
  BY <1>2, <1>5 DEF ChangeInIdle
<1>6. CASE ChangeWhileUnlocking(d)
  BY <1>2, <1>3, <1>6 DEF ChangeWhileUnlocking, LogicStates, OpenStates, CloseStates
<1>7. CASE ChangeWhileWaiting(d)
  BY <1>2, <1>3, <1>7 DEF ChangeWhileWaiting, LogicStates, OpenStates, CloseStates
<1>8. CASE ChangeWhilePressing
  BY <1>2, <1>8 DEF ChangeWhilePressing
<1> QED
  BY <1>4, <1>5, <1>6, <1>7, <1>8 DEF sm_change_door_state

(* EVENT_TIMEOUT keeps it.                                                    *)
LEMMA TimeoutMachine ==
    ASSUME TypeOK, MachineInv, alive, send_timeout
    PROVE  /\ MachineInv'
           /\ TimeoutReplaced \/ (TimeoutKept /\ logic_state = "IDLE")
<1>1. CASE logic_state = "IDLE" /\ stay({})
  <2>1. UNCHANGED <<sm_door_state, logic_state>> /\ request' = "none"
    BY <1>1 DEF send_timeout, stay
  <2> QED
    BY <1>1, <2>1 DEF stay, MachineInv, RelaysFollowState, FlagOfRequest, WaitsForOpening,
                      UnsafeOpenNeverRelocks, TimeoutKept, OpenStates, CloseStates
<1>2. ASSUME NEW s \in LogicStates, NEW sent, set_state(s, unsafe_action, sent),
             s = "IDLE" \/ <<logic_state, s>> \in
                {<<"INIT_OPEN", "WAIT_FOR_UNLOCKED">>, <<"WAIT_FOR_OPEN", "INIT_LOCK">>,
                 <<"INIT_LOCK", "WAIT_FOR_LOCKED">>}
      PROVE  MachineInv' /\ TimeoutReplaced
  <2>1. logic_state' = s
    BY <1>2 DEF set_state
  <2> QED
    BY <1>2, <2>1, EnterMachine DEF send_timeout
<1>3. CASE set_state(timeout_target(logic_state), unsafe_action, timeout_signals(logic_state))
  <2>1. timeout_target(logic_state) \in LogicStates
    BY DEF timeout_target, LogicStates, OpenStates, CloseStates
  <2>2. \/ timeout_target(logic_state) = "IDLE"
        \/ <<logic_state, timeout_target(logic_state)>> \in
              {<<"INIT_OPEN", "WAIT_FOR_UNLOCKED">>, <<"WAIT_FOR_OPEN", "INIT_LOCK">>,
               <<"INIT_LOCK", "WAIT_FOR_LOCKED">>}
    BY DEF timeout_target
  <2> QED
    BY <1>2, <1>3, <2>1, <2>2
<1>4. CASE set_state("IDLE", unsafe_action, IF alive' THEN {"ERROR_LOCKING"} ELSE {})
  BY <1>2, <1>4 DEF LogicStates
<1> QED
  BY <1>1, <1>3, <1>4 DEF send_timeout

(* The requests to close and to open keep it.                                 *)
LEMMA RequestMachine ==
    ASSUME TypeOK, MachineInv, alive, send_close \/ \E u \in BOOLEAN : send_open(u)
    PROVE  MachineInv' /\ (TimeoutReplaced \/ TimeoutKept)
<1>0. unsafe_action \in BOOLEAN
  BY DEF TypeOK, SmTypeOK
<1>1. CASE send_close
  <2>1. CASE stay({}) /\ UNCHANGED <<sm_door_state, request>>
    BY <2>1, StayMachine
  <2>2. CASE /\ logic_state = "IDLE"
             /\ set_state(close_target, unsafe_action, {})
             /\ request' = "close"
    <3>1. close_target \in LogicStates /\ close_target \in CloseStates
      BY DEF close_target, LogicStates, CloseStates
    <3>2. /\ logic_state' = close_target
          /\ io' = io_of(close_target)
          /\ TimeoutReplaced
      BY <1>0, <2>2, <3>1, Entering
    <3>3. RelaysFollowState'
      BY <2>2, <3>2 DEF close_target, io_of, MachineInv, RelaysFollowState
    <3>4. FlagOfRequest' /\ WaitsForOpening' /\ UnsafeOpenNeverRelocks'
      BY <2>2, <3>1, <3>2 DEF FlagOfRequest, WaitsForOpening, UnsafeOpenNeverRelocks,
                              OpenStates, CloseStates
    <3> QED
      BY <3>2, <3>3, <3>4 DEF MachineInv
  <2> QED
    BY <1>1, <2>1, <2>2 DEF send_close
<1>2. ASSUME NEW u \in BOOLEAN, send_open(u)
      PROVE  MachineInv' /\ (TimeoutReplaced \/ TimeoutKept)
  <2>1. CASE stay({}) /\ UNCHANGED <<sm_door_state, request>>
    BY <2>1, StayMachine
  <2>2. CASE /\ logic_state = "IDLE"
             /\ UNCHANGED <<logic_state, io, request>>
             /\ UNCHANGED timerVars
    BY <1>2, <2>2 DEF send_open, MachineInv, RelaysFollowState, FlagOfRequest,
                      WaitsForOpening, UnsafeOpenNeverRelocks, TimeoutKept, OpenStates,
                      CloseStates
  <2>3. CASE /\ logic_state = "IDLE"
             /\ set_state("INIT_OPEN", u, {})
             /\ request' = IF u THEN "unsafe" ELSE "safe"
    <3>1. /\ logic_state' = "INIT_OPEN"
          /\ io' = io_of("INIT_OPEN")
          /\ alive' => (unsafe_action' <=> u)
          /\ TimeoutReplaced
      BY <2>3, Entering DEF LogicStates, OpenStates
    <3>2. RelaysFollowState'
      BY <2>3, <3>1 DEF io_of, MachineInv, RelaysFollowState
    <3>3. FlagOfRequest'
      BY <2>3, <3>1 DEF FlagOfRequest
    <3>4. WaitsForOpening' /\ UnsafeOpenNeverRelocks'
      BY <3>1 DEF WaitsForOpening, UnsafeOpenNeverRelocks, CloseStates
    <3> QED
      BY <3>1, <3>2, <3>3, <3>4 DEF MachineInv
  <2> QED
    BY <1>2, <2>1, <2>2, <2>3 DEF send_open
<1> QED
  BY <1>1, <1>2

(* Steps that leave the state machine alone.                                  *)
LEMMA MachineUntouched ==
    ASSUME MachineInv,
           UNCHANGED <<sm_door_state, logic_state, unsafe_action, io, request, alive>>
    PROVE  MachineInv'
BY DEF MachineInv, RelaysFollowState, FlagOfRequest, WaitsForOpening, UnsafeOpenNeverRelocks

(* A restart establishes all but the types.                                   *)
LEMMA RestartInv ==
    ASSUME restart
    PROVE  MachineInv' /\ TimeoutPending' /\ BitsServedAtWork' /\ BootsIdle' /\ ReleaseSeen'
<1>1. RelaysFollowState' /\ FlagOfRequest' /\ WaitsForOpening' /\ UnsafeOpenNeverRelocks'
  BY DEF restart, RelaysFollowState, FlagOfRequest, WaitsForOpening, UnsafeOpenNeverRelocks,
         OpenStates, CloseStates
<1>2. TimeoutPending' /\ BitsServedAtWork' /\ BootsIdle' /\ ReleaseSeen'
  BY DEF restart, TimeoutPending, BitsServedAtWork, BootsIdle, ReleaseSeen
<1> QED
  BY <1>1, <1>2 DEF MachineInv

(* The rest of the invariant, apart from the machine and its types.           *)
LoopInv == BitsServedAtWork /\ BootsIdle /\ TimeoutPending /\ ReleaseSeen

(* Every action keeps both parts of the invariant.                            *)
LEMMA DoorStep ==
    ASSUME TypeOK, MachineInv, LoopInv, [Next]_vars
    PROVE  MachineInv' /\ LoopInv'
<1> USE DEF LoopInv
<1>1. CASE restart
  BY <1>1, RestartInv
<1>2. CASE Boot /\ ~restart
  <2>1. logic_state = "IDLE" /\ current = {}
    BY <1>2 DEF Boot, BitsServedAtWork, BootsIdle
  <2>2. /\ UNCHANGED <<logic_state, unsafe_action, io, request, current, button_pressed>>
        /\ UNCHANGED timerVars
        /\ UNCHANGED envVars
    BY <1>2 DEF Boot
  <2>3. MachineInv'
    BY <2>1, <2>2 DEF MachineInv, RelaysFollowState, FlagOfRequest, WaitsForOpening,
                      UnsafeOpenNeverRelocks, OpenStates, CloseStates
  <2>4. LoopInv'
    BY <2>1, <2>2 DEF BitsServedAtWork, BootsIdle, TimeoutPending, ReleaseSeen, timerVars,
                      envVars
  <2> QED
    BY <2>3, <2>4
<1>3. CASE WaitBits
  <2>1. MachineInv'
    BY <1>3, MachineUntouched DEF WaitBits
  <2>2. BitsServedAtWork' /\ BootsIdle'
    BY <1>3 DEF WaitBits, BitsServedAtWork, BootsIdle
  <2>3. TimeoutPending' /\ ReleaseSeen'
    BY <1>3 DEF WaitBits, BitsServedAtWork, TimeoutPending, ReleaseSeen, envVars
  <2> QED
    BY <2>1, <2>2, <2>3
<1>4. CASE ServeButton
  <2>1. MachineInv'
    BY <1>4, MachineUntouched DEF ServeButton, timerVars
  <2>2. BitsServedAtWork' /\ BootsIdle'
    BY <1>4 DEF ServeButton, Serving, BitsServedAtWork, BootsIdle
  <2>3. TimeoutPending'
    BY <1>4 DEF ServeButton, Serving, TimeoutPending, timerVars
  <2>4. ReleaseSeen'
    BY <1>4 DEF ServeButton, ReleaseSeen, btn_state, envVars
  <2> QED
    BY <2>1, <2>2, <2>3, <2>4
<1>5. CASE alive /\ ServeTimeout
  <2>1. MachineInv' /\ (TimeoutReplaced \/ (TimeoutKept /\ logic_state = "IDLE"))
    BY <1>5, TimeoutMachine DEF ServeTimeout
  <2>2. BitsServedAtWork' /\ BootsIdle'
    BY <1>5 DEF ServeTimeout, Serving, BitsServedAtWork, BootsIdle
  <2>3. TimeoutPending'
    BY <2>1 DEF TimeoutPending, TimeoutReplaced, TimeoutKept, timerVars
  <2>4. ReleaseSeen'
    BY <1>5, <2>1 DEF ServeTimeout, Serving, ReleaseSeen, TimeoutReplaced, TimeoutKept,
                      timerVars, envVars
  <2> QED
    BY <2>1, <2>2, <2>3, <2>4
<1>6. CASE alive /\ ServeRequest
  <2>1. MachineInv' /\ (TimeoutReplaced \/ TimeoutKept)
    BY <1>6, RequestMachine DEF ServeRequest
  <2>2. \E b \in {"close", "safe", "unsafe"} : Serving(b)
    BY <1>6 DEF ServeRequest
  <2>3. BitsServedAtWork' /\ BootsIdle'
    BY <1>6, <2>2 DEF ServeRequest, Serving, BitsServedAtWork, BootsIdle
  <2>4. TimeoutPending'
    BY <1>6, <2>1, <2>2 DEF Serving, TimeoutPending, TimeoutReplaced, TimeoutKept, timerVars
  <2>5. ReleaseSeen'
    BY <1>6, <2>1, <2>2 DEF ServeRequest, Serving, ReleaseSeen, TimeoutReplaced,
                            TimeoutKept, timerVars, envVars
  <2> QED
    BY <2>1, <2>3, <2>4, <2>5
<1>7. CASE alive /\ SampleDoor
  <2>1. MachineInv' /\ (TimeoutReplaced \/ TimeoutKept)
    <3>1. CASE sm_change_door_state(door)
      BY <1>7, <3>1, ChangeMachine DEF TypeOK
    <3>2. CASE stay({}) /\ UNCHANGED <<sm_door_state, request>>
      BY <3>2, StayMachine
    <3> QED
      BY <1>7, <3>1, <3>2 DEF SampleDoor
  <2>2. /\ phase' = "wait" /\ current = {} /\ current' = {}
        /\ UNCHANGED <<button_pressed, button>>
    BY <1>7 DEF SampleDoor
  <2>3. BitsServedAtWork' /\ BootsIdle'
    BY <2>2 DEF BitsServedAtWork, BootsIdle
  <2>4. TimeoutPending'
    BY <1>7, <2>1, <2>2 DEF TimeoutPending, TimeoutReplaced, TimeoutKept, timerVars
  <2>5. ReleaseSeen'
    BY <2>1, <2>2 DEF ReleaseSeen, TimeoutReplaced, TimeoutKept, timerVars
  <2> QED
    BY <2>1, <2>3, <2>4, <2>5
<1>8. CASE TimeoutTask
  <2>1. MachineInv'
    BY <1>8, MachineUntouched DEF TimeoutTask, TimeoutElapses, TimeoutTaskExits
  <2>2. BitsServedAtWork' /\ BootsIdle' /\ ReleaseSeen'
    BY <1>8 DEF TimeoutTask, TimeoutElapses, TimeoutTaskExits, BitsServedAtWork, BootsIdle,
                ReleaseSeen, loopVars, envVars
  <2>3. TimeoutPending'
    BY <1>8 DEF TimeoutTask, TimeoutElapses, TimeoutTaskExits, TimeoutPending, loopVars
  <2> QED
    BY <2>1, <2>2, <2>3
<1>9. CASE RequestArrives \/ ButtonEdge \/ DoorMoves
  <2>1. OutsideMain
    BY <1>9 DEF RequestArrives, ButtonEdge, DoorMoves
  <2>2. MachineInv'
    BY <2>1, MachineUntouched DEF OutsideMain
  <2>3. event_bits \subseteq event_bits'
    BY <1>9 DEF RequestArrives, ButtonEdge, DoorMoves
  <2>4. button' = button \/ "io" \in event_bits'
    BY <1>9 DEF RequestArrives, ButtonEdge, DoorMoves
  <2>5. BitsServedAtWork' /\ BootsIdle' /\ TimeoutPending' /\ ReleaseSeen'
    BY <2>1, <2>3, <2>4 DEF OutsideMain, BitsServedAtWork, BootsIdle, TimeoutPending,
                            ReleaseSeen, loopVars
  <2> QED
    BY <2>2, <2>5
<1>10. CASE UNCHANGED vars
  <2>1. MachineInv'
    BY <1>10, MachineUntouched DEF vars, timerVars, smVars
  <2>2. BitsServedAtWork' /\ BootsIdle' /\ TimeoutPending' /\ ReleaseSeen'
    BY <1>10 DEF vars, timerVars, smVars, loopVars, envVars, BitsServedAtWork, BootsIdle,
                 TimeoutPending, ReleaseSeen
  <2> QED
    BY <2>1, <2>2
<1> QED
  BY <1>1, <1>2, <1>3, <1>4, <1>5, <1>6, <1>7, <1>8, <1>9, <1>10
     DEF Next, MainTask, ButtonPublishFails, StatusPublishFails, ResetArrives

(* Both parts hold initially.                                                 *)
LEMMA DoorInit == Init => MachineInv /\ LoopInv
<1> SUFFICES ASSUME Init PROVE MachineInv /\ LoopInv
  OBVIOUS
<1>1. MachineInv
  BY DEF Init, PowerOn, sm_init, MachineInv, RelaysFollowState, FlagOfRequest,
         WaitsForOpening, UnsafeOpenNeverRelocks, OpenStates, CloseStates
<1>2. LoopInv
  BY DEF Init, PowerOn, TimerInit, sm_init, LoopInv, BitsServedAtWork, BootsIdle,
         TimeoutPending, ReleaseSeen
<1> QED
  BY <1>1, <1>2

(* DoorInv is an invariant of the controller.                                 *)
THEOREM DoorInvariant == Spec => []DoorInv
<1>1. Init => DoorInv
  BY TypeInit, DoorInit DEF DoorInv, MachineInv, LoopInv
<1>2. DoorInv /\ [Next]_vars => DoorInv'
  BY TypeStep, DoorStep DEF DoorInv, MachineInv, LoopInv
<1> QED
  BY <1>1, <1>2, PTL DEF Spec

(* set_state presses and releases the relays in pairs: whatever ends a state, *)
(* no relay of the motor lock stays pressed and the two never are together.   *)
THEOREM RelaysSafe == Spec => []RelaysFollowState
<1>1. DoorInv => RelaysFollowState
  BY DEF DoorInv
<1> QED
  BY <1>1, DoorInvariant, PTL

(* The controller never waits for a timeout that is not coming: replacing the *)
(* timeout task, or collecting the event bits, does not lose it.              *)
THEOREM TimeoutSafe == Spec => []TimeoutPending
<1>1. DoorInv => TimeoutPending
  BY DEF DoorInv
<1> QED
  BY <1>1, DoorInvariant, PTL

(* An unsafe open never turns into a process that locks the door.             *)
THEOREM UnsafeSafe == Spec => []UnsafeOpenNeverRelocks
<1>1. DoorInv => UnsafeOpenNeverRelocks
  BY DEF DoorInv
<1> QED
  BY <1>1, DoorInvariant, PTL

(* No release of the button is lost between the interrupt and the main loop.  *)
THEOREM ButtonSafe == Spec => []ReleaseSeen
<1>1. DoorInv => ReleaseSeen
  BY DEF DoorInv
<1> QED
  BY <1>1, DoorInvariant, PTL

-----------------------------------------------------------------------------
(* The action property.                                                       *)

(* The lock's motor is only started on a door not known to be open.           *)
LEMMA LockStep ==
    ASSUME DoorInv, Next
    PROVE  logic_state' = "INIT_LOCK" /\ logic_state # "INIT_LOCK"
             => sm_door_state' # "OPEN"
<1> SUFFICES ASSUME logic_state' = "INIT_LOCK", logic_state # "INIT_LOCK"
             PROVE  sm_door_state' # "OPEN"
  OBVIOUS
<1>1. CASE ServeTimeout
  <2>1. logic_state = "WAIT_FOR_OPEN" /\ UNCHANGED sm_door_state
    BY <1>1 DEF ServeTimeout, send_timeout, stay, set_state, timeout_target
  <2> QED
    BY <2>1 DEF DoorInv, WaitsForOpening
<1>2. CASE ServeRequest
  <2>1. sm_door_state # "OPEN" /\ UNCHANGED sm_door_state
    BY <1>2 DEF ServeRequest, send_close, send_open, stay, set_state, close_target
  <2> QED
    BY <2>1
<1>3. CASE SampleDoor
  <2>1. sm_change_door_state(door)
    BY <1>3 DEF SampleDoor, stay
  <2>2. door = "CLOSED"
    BY <2>1 DEF sm_change_door_state, ChangeInIdle, ChangeWhileUnlocking,
                ChangeWhileWaiting, ChangeWhilePressing, stay, set_state
  <2> QED
    BY <2>1, <2>2 DEF sm_change_door_state
<1>4. ASSUME ~ServeTimeout, ~ServeRequest, ~SampleDoor
      PROVE  logic_state' = logic_state \/ logic_state' = "IDLE"
  BY <1>4 DEF Next, MainTask, Boot, WaitBits, ServeButton, ButtonPublishFails,
              StatusPublishFails, restart, TimeoutTask, RequestArrives, ButtonEdge,
              DoorMoves, OutsideMain, ResetArrives
<1> QED
  BY <1>1, <1>2, <1>3, <1>4

(* The bolt is never driven out of a door that the controller knows is open,  *)
(* on a close request as well as after a safe open nobody used.               *)
THEOREM LockSafe == Spec => NeverLocksAnOpenDoor
<1>1. DoorInv /\ [Next]_vars =>
        [logic_state' = "INIT_LOCK" /\ logic_state # "INIT_LOCK"
           => sm_door_state' # "OPEN"]_vars
  BY LockStep
<1> QED
  BY <1>1, DoorInvariant, PTL DEF Spec, NeverLocksAnOpenDoor
-----------------------------------------------------------------------------
(* How late a status can be.                                                  *)

(* The rounds of the main loop until the next status message is due, at the   *)
(* latest: the samples that the reading still needs, and the forced update.   *)
RoundsLeft ==
    force_refresh_timeout
        + (SMOOTH_DOOR_STATE_SIZE - (IF sample = door THEN run ELSE 0))

(* While the door stays as it is and nothing fails, every round of the main   *)
(* loop publishes the position of the door or has fewer rounds left, and no   *)
(* other step sets that back or publishes anything.                           *)
StatusComesNearer ==
    [][(door' = door /\ faults' = faults /\ phase # "boot") =>
          IF phase = "work" /\ phase' = "wait"
          THEN \/ published' = door
               \/ RoundsLeft' < RoundsLeft /\ UNCHANGED published
          ELSE UNCHANGED <<RoundsLeft, published>>]_vars
(* The main loop is never further away than this from a status message.       *)
RoundsBounded == RoundsLeft \in 0 .. FORCED_STATUS_UPDATE_PERIOD + SMOOTH_DOOR_STATE_SIZE

(* One sample more, or one round less until the forced update.                *)
LEMMA RoundStep ==
    ASSUME TypeOK, SampleDoor, faults' = faults
    PROVE  \/ published' = door
           \/ RoundsLeft' < RoundsLeft /\ UNCHANGED published
<1> USE SensorAssumption, LoopAssumption
<1>1. CASE forwarded
  BY <1>1 DEF SampleDoor, publish_door_status, TypeOK
<1>2. CASE ~forwarded
  <2>1. /\ UNCHANGED <<published, door>> /\ force_refresh_timeout' = refresh_countdown
        /\ sample' = door
        /\ run' = IF door # sample THEN 1
                  ELSE IF run < SMOOTH_DOOR_STATE_SIZE THEN run + 1 ELSE run
    BY <1>2 DEF SampleDoor, push_door_state, push_sample
  <2>2. run' # SMOOTH_DOOR_STATE_SIZE \/ force_refresh_timeout # 0
    BY <1>2 DEF forwarded, system_stable
  <2>3. /\ run \in 1 .. SMOOTH_DOOR_STATE_SIZE /\ force_refresh_timeout \in Nat
        /\ SMOOTH_DOOR_STATE_SIZE \in Nat \ {0}
    BY DEF TypeOK
  <2> QED
    BY <2>1, <2>2, <2>3 DEF RoundsLeft, refresh_countdown
<1> QED
  BY <1>1, <1>2

(* Every other step leaves the message as far away as it was.                 *)
LEMMA OtherSteps ==
    ASSUME DoorInv, Next, door' = door, faults' = faults, phase # "boot"
    PROVE  \/ alive /\ SampleDoor
           \/ /\ ~(phase = "work" /\ phase' = "wait")
              /\ UNCHANGED <<RoundsLeft, published>>
<1>1. SUFFICES ASSUME ~(alive /\ SampleDoor)
               PROVE  /\ phase' = phase \/ phase' = "work"
                      /\ UNCHANGED <<sample, run, force_refresh_timeout, published>>
  BY DEF RoundsLeft
<1>2. faults \in Nat
  BY LoopAssumption DEF DoorInv, TypeOK
<1>3. CASE MainTask
  <2>1. CASE WaitBits
    BY <2>1 DEF WaitBits, envVars
  <2>2. CASE ServeButton
    BY <2>2 DEF ServeButton, envVars
  <2>3. CASE ServeTimeout
    BY <2>3 DEF ServeTimeout, envVars
  <2>4. CASE ServeRequest
    BY <2>4 DEF ServeRequest, envVars
  <2>5. CASE Boot
    BY <2>5 DEF Boot
  <2>6. CASE ButtonPublishFails \/ StatusPublishFails
    BY <1>2, <2>6 DEF ButtonPublishFails, StatusPublishFails
  <2> QED
    BY <1>1, <1>3, <2>1, <2>2, <2>3, <2>4, <2>5, <2>6 DEF MainTask
<1>4. CASE ResetArrives
  BY <1>2, <1>4 DEF ResetArrives
<1>5. CASE TimeoutTask \/ RequestArrives \/ ButtonEdge \/ DoorMoves
  BY <1>5 DEF TimeoutTask, RequestArrives, ButtonEdge, DoorMoves, OutsideMain, loopVars,
              envVars
<1> QED
  BY <1>3, <1>4, <1>5 DEF Next

(* A door that stays as it is, and whose messages arrive, is published after  *)
(* at most FORCED_STATUS_UPDATE_PERIOD + SMOOTH_DOOR_STATE_SIZE rounds of the *)
(* main loop and one more, whatever was lost before (app_main).               *)
THEOREM StatusInTime == Spec => []RoundsBounded /\ StatusComesNearer
<1> USE SensorAssumption, LoopAssumption
<1>1. DoorInv => RoundsBounded
  <2> SUFFICES ASSUME DoorInv PROVE RoundsBounded
    OBVIOUS
  <2>1. /\ run \in 1 .. SMOOTH_DOOR_STATE_SIZE
        /\ force_refresh_timeout \in 0 .. FORCED_STATUS_UPDATE_PERIOD
        /\ SMOOTH_DOOR_STATE_SIZE \in Nat /\ FORCED_STATUS_UPDATE_PERIOD \in Nat
    BY DEF DoorInv, TypeOK
  <2> QED
    BY <2>1 DEF RoundsBounded, RoundsLeft
<1>2. DoorInv /\ [Next]_vars =>
        [(door' = door /\ faults' = faults /\ phase # "boot") =>
            IF phase = "work" /\ phase' = "wait"
            THEN \/ published' = door
                 \/ RoundsLeft' < RoundsLeft /\ UNCHANGED published
            ELSE UNCHANGED <<RoundsLeft, published>>]_vars
  <2> SUFFICES ASSUME DoorInv, Next, door' = door, faults' = faults, phase # "boot"
               PROVE  IF phase = "work" /\ phase' = "wait"
                      THEN \/ published' = door
                           \/ RoundsLeft' < RoundsLeft /\ UNCHANGED published
                      ELSE UNCHANGED <<RoundsLeft, published>>
    OBVIOUS
  <2>1. CASE SampleDoor
    <3>1. phase = "work" /\ phase' = "wait"
      BY <2>1 DEF SampleDoor
    <3> QED
      BY <2>1, <3>1, RoundStep DEF DoorInv
  <2>2. CASE ~SampleDoor
    BY <2>2, OtherSteps
  <2> QED
    BY <2>1, <2>2
<1> QED
  BY <1>1, <1>2, DoorInvariant, PTL DEF Spec, StatusComesNearer
-----------------------------------------------------------------------------
(* How long a process can be.                                                 *)

(* The states that a process can still go through.                            *)
StepsLeft(s) ==
    CASE s = "INIT_OPEN"         -> 5
      [] s = "WAIT_FOR_UNLOCKED" -> 4
      [] s \in {"WAIT_FOR_OPEN", "WAIT_FOR_CLOSED"} -> 3
      [] s = "INIT_LOCK"         -> 2
      [] s = "WAIT_FOR_LOCKED"   -> 1
      [] s = "IDLE"              -> 0

(* A process only goes forward, whatever requests, readings and restarts come *)
(* in between, and a timeout that is served brings it forward.                *)
ProcessMovesOn ==
    [][logic_state # "IDLE" =>
          /\ \/ UNCHANGED logic_state
             \/ StepsLeft(logic_state') < StepsLeft(logic_state)
          /\ "timeout" \in current /\ "timeout" \notin current' =>
                logic_state' # logic_state]_vars

(* The numbers.                                                               *)
LEMMA StepsOf ==
    /\ StepsLeft("INIT_OPEN") = 5 /\ StepsLeft("WAIT_FOR_UNLOCKED") = 4
    /\ StepsLeft("WAIT_FOR_OPEN") = 3 /\ StepsLeft("WAIT_FOR_CLOSED") = 3
    /\ StepsLeft("INIT_LOCK") = 2 /\ StepsLeft("WAIT_FOR_LOCKED") = 1
    /\ StepsLeft("IDLE") = 0
BY DEF StepsLeft

(* What a timeout does to a process, and a reading.                           *)
LEMMA TimeoutMovesOn ==
    ASSUME TypeOK, logic_state # "IDLE", send_timeout
    PROVE  /\ logic_state' # logic_state
           /\ StepsLeft(logic_state') < StepsLeft(logic_state)
<1>1. logic_state \in {"INIT_OPEN", "WAIT_FOR_UNLOCKED", "WAIT_FOR_OPEN",
                       "WAIT_FOR_CLOSED", "INIT_LOCK", "WAIT_FOR_LOCKED"}
  BY DEF TypeOK, SmTypeOK, LogicStates, OpenStates, CloseStates
<1>2. logic_state' = timeout_target(logic_state)
  BY DEF send_timeout, set_state, timeout_target
<1> QED
  BY <1>1, <1>2, StepsOf DEF timeout_target

LEMMA ReadingMovesOn ==
    ASSUME TypeOK, logic_state # "IDLE", NEW new_state \in DoorStates,
           sm_change_door_state(new_state)
    PROVE  \/ UNCHANGED logic_state
           \/ StepsLeft(logic_state') < StepsLeft(logic_state)
<1>1. CASE sm_door_state = new_state
  BY <1>1 DEF sm_change_door_state, stay
<1>2. CASE ChangeWhileUnlocking(new_state)
  BY <1>2, StepsOf DEF ChangeWhileUnlocking, set_state, stay
<1>3. CASE ChangeWhileWaiting(new_state)
  BY <1>3, StepsOf DEF ChangeWhileWaiting, set_state, stay
<1>4. CASE ChangeWhilePressing
  BY <1>4 DEF ChangeWhilePressing, stay
<1> QED
  BY <1>1, <1>2, <1>3, <1>4 DEF sm_change_door_state, ChangeInIdle

(* Everything else leaves a process alone, or restarts the controller.        *)
LEMMA ProcessKept ==
    ASSUME DoorInv, logic_state # "IDLE", Next, ~ServeTimeout, ~SampleDoor
    PROVE  \/ logic_state' = "IDLE"
           \/ UNCHANGED logic_state /\ ("timeout" \in current => "timeout" \in current')
<1>1. CASE Boot \/ ButtonPublishFails \/ StatusPublishFails \/ ResetArrives
  BY <1>1 DEF Boot, ButtonPublishFails, StatusPublishFails, ResetArrives, restart, DoorInv,
              BootsIdle
<1>2. CASE WaitBits
  BY <1>2 DEF WaitBits, DoorInv, BitsServedAtWork
<1>3. CASE ServeButton
  BY <1>3 DEF ServeButton, Serving
<1>4. CASE ServeRequest
  <2>1. UNCHANGED logic_state
    BY <1>4 DEF ServeRequest, send_close, send_open, stay
  <2>2. \E b \in {"close", "safe", "unsafe"} : Serving(b)
    BY <1>4 DEF ServeRequest
  <2> QED
    BY <2>1, <2>2 DEF Serving
<1>5. CASE TimeoutTask \/ RequestArrives \/ ButtonEdge \/ DoorMoves
  BY <1>5 DEF TimeoutTask, RequestArrives, ButtonEdge, DoorMoves, OutsideMain, loopVars
<1> QED
  BY <1>1, <1>2, <1>3, <1>4, <1>5 DEF Next, MainTask

(* A process is over after at most five timeouts: with TimeoutSafe, what      *)
(* ProcessEnds needs besides the scheduling of the two tasks (set_state,      *)
(* sm_send_event).                                                            *)
THEOREM ProcessesMoveOn == Spec => ProcessMovesOn
<1>1. DoorInv /\ [Next]_vars =>
        [logic_state # "IDLE" =>
            /\ \/ UNCHANGED logic_state
               \/ StepsLeft(logic_state') < StepsLeft(logic_state)
            /\ "timeout" \in current /\ "timeout" \notin current' =>
                  logic_state' # logic_state]_vars
  <2> SUFFICES ASSUME DoorInv, Next, logic_state # "IDLE"
               PROVE  /\ \/ UNCHANGED logic_state
                         \/ StepsLeft(logic_state') < StepsLeft(logic_state)
                      /\ "timeout" \in current /\ "timeout" \notin current' =>
                            logic_state' # logic_state
    OBVIOUS
  <2>1. TypeOK
    BY DEF DoorInv
  <2>2. CASE ServeTimeout
    BY <2>1, <2>2, TimeoutMovesOn DEF ServeTimeout
  <2>3. CASE SampleDoor
    <3>1. current = {}
      BY <2>3 DEF SampleDoor
    <3>2. UNCHANGED logic_state \/ sm_change_door_state(door)
      BY <2>3 DEF SampleDoor, stay
    <3>3. door \in DoorStates
      BY <2>1 DEF TypeOK
    <3> QED
      BY <2>1, <3>1, <3>2, <3>3, ReadingMovesOn
  <2>4. CASE ~ServeTimeout /\ ~SampleDoor
    <3>1. StepsLeft(logic_state) > StepsLeft("IDLE")
      BY <2>1, StepsOf DEF TypeOK, SmTypeOK, LogicStates, OpenStates, CloseStates
    <3> QED
      BY <2>4, <3>1, ProcessKept
  <2> QED
    BY <2>2, <2>3, <2>4
<1> QED
  BY <1>1, DoorInvariant, PTL DEF Spec, ProcessMovesOn
=============================================================================
