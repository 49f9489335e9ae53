-------------------------- MODULE DoorStateMachine --------------------------
(****************************************************************************)
(* The state machine of one door controller                                  *)
(* (firmware/door-control/main/state-machine.c) with the effect of its three  *)
(* callbacks: setIo drives the relays of the motor lock, signal beeps, and    *)
(* setTimeout is module DoorTimer.                                            *)
(****************************************************************************)
EXTENDS DoorTimer

(* What a stable reading of the door contacts can be.  DOOR_FAULT only marks  *)
(* an unstable reading, which never reaches the state machine.                *)
DoorStates == {"OPEN", "CLOSED", "LOCKED"}

OpenStates  == {"INIT_OPEN", "WAIT_FOR_UNLOCKED", "WAIT_FOR_OPEN"}
CloseStates == {"WAIT_FOR_CLOSED", "INIT_LOCK", "WAIT_FOR_LOCKED"}
LogicStates == {"IDLE"} \cup OpenStates \cup CloseStates

Signals == {"OPENING", "LOCKING", "UNLOCKED", "OPENED", "NO_ENTRY", "LOCKED",
            "ERROR_LOCKING", "ERROR_OPENING", "CLOSE_TIMEOUT",
            "WAIT_FOR_DOOR_CLOSED", "DOOR_MANUALLY_UNLOCKED",
            "DOOR_MANUALLY_LOCKED"}

VARIABLES
    sm_door_state,  \* sm->door_state
    logic_state,    \* sm->logic_state
    unsafe_action,  \* sm->unsafe_action
    io,             \* the relays that are pressed
    outputs,        \* what the latest step signalled or published
    request         \* history: the request the running process serves

smVars == <<sm_door_state, logic_state, unsafe_action, io, outputs, request>>

SmTypeOK ==
    /\ sm_door_state \in DoorStates
    /\ logic_state \in LogicStates
    /\ unsafe_action \in BOOLEAN
    /\ io \subseteq {"open", "close"}
    /\ outputs \subseteq Signals \cup {"button"}
    /\ request \in {"none", "safe", "unsafe", "close"}

(* sm_init, after the relays were released by io_init.                        *)
sm_init(initial_state) ==
    /\ sm_door_state = initial_state
    /\ logic_state = "IDLE"
    /\ unsafe_action = FALSE
    /\ io = {}
    /\ outputs = {}
    /\ request = "none"

-----------------------------------------------------------------------------
(* Entering a state.                                                          *)

(* Mutation: leaving INIT_LOCK does not release the button.                   *)
MutHoldCloseButton(s) ==
    CASE s = "IDLE" -> {}
      [] s = "INIT_OPEN" -> io \cup {"open"}
      [] s = "WAIT_FOR_UNLOCKED" -> io \ {"open"}
      [] s = "INIT_LOCK" -> io \cup {"close"}
      [] OTHER -> io

(* The relays after entering s.                                               *)
io_of(s) ==
    CASE s = "IDLE" -> {}
      [] s = "INIT_OPEN" -> io \cup {"open"}
      [] s = "WAIT_FOR_UNLOCKED" -> io \ {"open"}
      [] s = "INIT_LOCK" -> io \cup {"close"}
      [] s = "WAIT_FOR_LOCKED" -> io \ {"close"}
      [] OTHER -> io

signals_of(s) ==
    CASE s = "INIT_OPEN" -> {"OPENING"}
      [] s = "WAIT_FOR_CLOSED" -> {"WAIT_FOR_DOOR_CLOSED"}
      [] OTHER -> {}

(* set_state, called with unsafe_action = flag after the signals in sent.     *)
(* Every state but IDLE requests a timeout; the signals of the new state are  *)
(* sent, and IDLE clears the flag, after that.                                *)
set_state(s, flag, sent) ==
    /\ logic_state' = s
    /\ io' = io_of(s)
    /\ statemachine_setTimeout(s # "IDLE")
    /\ unsafe_action' = (flag /\ ~(s = "IDLE" /\ alive'))
    /\ outputs' = sent \cup (IF alive' THEN signals_of(s) ELSE {})

(* The state machine stays where it is and signals what is in sent.           *)
stay(sent) ==
    /\ outputs' = sent
    /\ UNCHANGED <<logic_state, io, unsafe_action>>
    /\ UNCHANGED timerVars

-----------------------------------------------------------------------------
(* sm_change_door_state: a new stable reading of the door.                    *)

ChangeInIdle(new_state) ==
    /\ logic_state = "IDLE"
    /\ stay((IF new_state = "LOCKED" THEN {"DOOR_MANUALLY_LOCKED"} ELSE {})
            \cup (IF sm_door_state = "LOCKED" THEN {"DOOR_MANUALLY_UNLOCKED"} ELSE {}))

(* Mutation: an unsafe open waits for the user like a safe one.               *)
MutUnsafeWaits(new_state) ==
    /\ logic_state = "WAIT_FOR_UNLOCKED"
    /\ \/ new_state = "LOCKED" /\ stay({})
       \/ new_state = "CLOSED" /\ set_state("WAIT_FOR_OPEN", unsafe_action, {"UNLOCKED"})
       \/ new_state = "OPEN" /\ set_state("IDLE", unsafe_action, {"UNLOCKED", "OPENED"})

(* The bolt is out.  A safe open then waits for somebody to open the door,    *)
(* unless that has already happened.                                          *)
ChangeWhileUnlocking(new_state) ==
    /\ logic_state = "WAIT_FOR_UNLOCKED"
    /\ \/ new_state = "LOCKED" /\ stay({})
       \/ /\ new_state # "LOCKED"
          /\ unsafe_action
          /\ set_state("IDLE", unsafe_action, {"UNLOCKED"})
       \/ /\ new_state = "CLOSED"
          /\ ~unsafe_action
          /\ set_state("WAIT_FOR_OPEN", unsafe_action, {"UNLOCKED"})
       \/ /\ new_state = "OPEN"
          /\ ~unsafe_action
          /\ set_state("IDLE", unsafe_action, {"UNLOCKED", "OPENED"})

(* The three states that wait for one particular reading.                     *)
ChangeWhileWaiting(new_state) ==
    \/ /\ logic_state = "WAIT_FOR_OPEN"
       /\ IF new_state = "OPEN" THEN set_state("IDLE", unsafe_action, {"OPENED"})
                                ELSE stay({})
    \/ /\ logic_state = "WAIT_FOR_CLOSED"
       /\ IF new_state = "CLOSED" THEN set_state("INIT_LOCK", unsafe_action, {"LOCKING"})
                                  ELSE stay({})
    \/ /\ logic_state = "WAIT_FOR_LOCKED"
       /\ IF new_state = "LOCKED" THEN set_state("IDLE", unsafe_action, {"LOCKED"})
                                  ELSE stay({})

(* While a button is pressed the change is stored and otherwise ignored.      *)
ChangeWhilePressing ==
    /\ logic_state \in {"INIT_OPEN", "INIT_LOCK"}
    /\ stay({})

(* A reading that is not new returns early.                                   *)
sm_change_door_state(new_state) ==
    /\ sm_door_state' = new_state
    /\ \/ sm_door_state = new_state /\ stay({})
       \/ /\ sm_door_state # new_state
          /\ \/ ChangeInIdle(new_state)
             \/ ChangeWhileUnlocking(new_state)
             \/ ChangeWhileWaiting(new_state)
             \/ ChangeWhilePressing
    /\ request' = IF logic_state' = "IDLE" THEN "none" ELSE request

-----------------------------------------------------------------------------
(* sm_send_event.                                                             *)

(* EVENT_OPEN_SAFE and EVENT_OPEN_UNSAFE.  The flag is stored even when the   *)
(* door is not locked and nothing else happens.                               *)
send_open(unsafe) ==
    /\ UNCHANGED sm_door_state
    /\ \/ /\ logic_state # "IDLE"
          /\ stay({})
          /\ UNCHANGED request
       \/ /\ logic_state = "IDLE"
          /\ sm_door_state # "LOCKED"
          /\ unsafe_action' = unsafe
          /\ outputs' = {}
          /\ UNCHANGED <<logic_state, io, request>>
          /\ UNCHANGED timerVars
       \/ /\ logic_state = "IDLE"
          /\ sm_door_state = "LOCKED"
          /\ set_state("INIT_OPEN", unsafe, {})
          /\ request' = IF unsafe THEN "unsafe" ELSE "safe"

(* Mutation: the door is locked without waiting for it to be closed.          *)
MutLockAtOnce == "INIT_LOCK"

(* An open door has to be closed before it can be locked.                     *)
close_target == IF sm_door_state = "OPEN" THEN "WAIT_FOR_CLOSED" ELSE "INIT_LOCK"

(* EVENT_CLOSE.                                                               *)
send_close ==
    /\ UNCHANGED sm_door_state
    /\ \/ /\ logic_state # "IDLE" \/ sm_door_state = "LOCKED"
          /\ stay({})
          /\ UNCHANGED request
       \/ /\ logic_state = "IDLE"
          /\ sm_door_state # "LOCKED"
          /\ set_state(close_target, unsafe_action, {})
          /\ request' = "close"

(* Mutation: the user is asked to close the door again and again.             *)
MutAskForever(s) ==
    CASE s = "INIT_OPEN" -> "WAIT_FOR_UNLOCKED"
      [] s = "WAIT_FOR_OPEN" -> "INIT_LOCK"
      [] s = "INIT_LOCK" -> "WAIT_FOR_LOCKED"
      [] s = "WAIT_FOR_CLOSED" -> "WAIT_FOR_CLOSED"
      [] OTHER -> "IDLE"

(* The state that a timeout leads to.                                         *)
timeout_target(s) ==
    CASE s = "INIT_OPEN" -> "WAIT_FOR_UNLOCKED"
      [] s = "WAIT_FOR_OPEN" -> "INIT_LOCK"
      [] s = "INIT_LOCK" -> "WAIT_FOR_LOCKED"
      [] OTHER -> "IDLE"

(* What it signals, before the new state is entered.                          *)
timeout_signals(s) ==
    CASE s = "WAIT_FOR_UNLOCKED" -> {"ERROR_OPENING"}
      [] s = "WAIT_FOR_OPEN" -> {"NO_ENTRY"}
      [] s = "WAIT_FOR_CLOSED" -> {"CLOSE_TIMEOUT"}
      [] OTHER -> {}

(* EVENT_TIMEOUT.  ERROR_LOCKING is the one signal that follows set_state.    *)
send_timeout ==
    /\ UNCHANGED sm_door_state
    /\ \/ logic_state = "IDLE" /\ stay({})
       \/ /\ logic_state \notin {"IDLE", "WAIT_FOR_LOCKED"}
          /\ set_state(timeout_target(logic_state), unsafe_action,
                       timeout_signals(logic_state))
       \/ /\ logic_state = "WAIT_FOR_LOCKED"
          /\ set_state("IDLE", unsafe_action, IF alive' THEN {"ERROR_LOCKING"} ELSE {})
    /\ request' = IF logic_state' = "IDLE" THEN "none" ELSE request
=============================================================================
