------------------------- MODULE PortalStateMachine -------------------------
(****************************************************************************)
(* The state machine of the portal daemon (software/src/state-machine.c).     *)
(* It is a function: sm_apply_event takes the machine and an event, and       *)
(* gives the machine after it and the signals it sends, in their order.       *)
(* Who acts on the signals, and when, is module PortalDaemon.                 *)
(****************************************************************************)
EXTENDS Naturals, Sequences

DoorValues == {"UNOBSERVED", "OPEN", "CLOSED", "LOCKED"}
ShackValues == {"UNOBSERVED", "OPEN", "UNLOCKED_VIA_B2", "UNLOCKED_VIA_C2", "LOCKED"}
States == {"IDLE", "WAIT_FOR_LOCKED", "WAIT_FOR_OPEN_VIA_B", "WAIT_FOR_OPEN_VIA_C"}

DoorEvents == {"DOOR_B2_OPENED", "DOOR_B2_CLOSED", "DOOR_B2_LOCKED",
               "DOOR_C2_OPENED", "DOOR_C2_CLOSED", "DOOR_C2_LOCKED"}
SshRequests == {"SSH_OPEN_FRONT_REQUEST", "SSH_OPEN_BACK_REQUEST", "SSH_CLOSE_REQUEST"}
Buttons == {"BUTTON_B2", "BUTTON_C2"}

SmSignals == {"OPEN_DOOR_B", "OPEN_DOOR_C", "OPEN_DOOR_B2_SAFE", "OPEN_DOOR_C2_SAFE",
              "OPEN_DOOR_B2_UNSAFE", "OPEN_DOOR_C2_UNSAFE", "LOCK_ALL",
              "CHANGE_KEYHOLDER", "STATE_CHANGE", "NO_STATE_CHANGE",
              "LOCK_SUCCESSFUL", "OPEN_SUCCESSFUL", "CANNOT_HANDLE_REQUEST",
              "USER_REQUESTED_TIMED_OUT", "UNLOCK_TIMEOUT",
              "START_TIMEOUT", "CANCEL_TIMEOUT"}

Machines == [state: States, b2: DoorValues, c2: DoorValues, last_shack_state: ShackValues]

sm_init == [state |-> "IDLE", b2 |-> "UNOBSERVED", c2 |-> "UNOBSERVED",
            last_shack_state |-> "UNOBSERVED"]

-----------------------------------------------------------------------------
is_open_request(e) == e \in {"SSH_OPEN_FRONT_REQUEST", "SSH_OPEN_BACK_REQUEST"}

is_close_request(e, shack) ==
    e = "SSH_CLOSE_REQUEST" \/ (e \in Buttons /\ shack # "LOCKED")

(* is_door_unlock_event and is_door_lock_event, for any door.                 *)
is_door_unlock_event(e) ==
    e \in {"DOOR_B2_OPENED", "DOOR_B2_CLOSED", "DOOR_C2_OPENED", "DOOR_C2_CLOSED"}
is_door_lock_event(e) == e \in {"DOOR_B2_LOCKED", "DOOR_C2_LOCKED"}

is_state_wait_for_open(s) == s \in {"WAIT_FOR_OPEN_VIA_B", "WAIT_FOR_OPEN_VIA_C"}

is_ssh_request(e) == e \in SshRequests

sm_change_door_state(sm, e) ==
    CASE e = "DOOR_B2_OPENED" -> [sm EXCEPT !.b2 = "OPEN"]
      [] e = "DOOR_B2_CLOSED" -> [sm EXCEPT !.b2 = "CLOSED"]
      [] e = "DOOR_B2_LOCKED" -> [sm EXCEPT !.b2 = "LOCKED"]
      [] e = "DOOR_C2_OPENED" -> [sm EXCEPT !.c2 = "OPEN"]
      [] e = "DOOR_C2_CLOSED" -> [sm EXCEPT !.c2 = "CLOSED"]
      [] e = "DOOR_C2_LOCKED" -> [sm EXCEPT !.c2 = "LOCKED"]
      [] OTHER -> sm

sm_get_shack_state(sm) ==
    CASE "UNOBSERVED" \in {sm.b2, sm.c2} -> "UNOBSERVED"
      [] sm.b2 = "LOCKED" /\ sm.c2 = "LOCKED" -> "LOCKED"
      [] {"UNOBSERVED", "LOCKED"} \cap {sm.b2, sm.c2} = {} -> "OPEN"
      [] sm.b2 = "LOCKED" /\ sm.c2 \in {"OPEN", "CLOSED"} -> "UNLOCKED_VIA_C2"
      [] sm.c2 = "LOCKED" /\ sm.b2 \in {"OPEN", "CLOSED"} -> "UNLOCKED_VIA_B2"

-----------------------------------------------------------------------------
(* The chain of early returns of sm_apply_event.  A rule is a guard and, when *)
(* it applies, the new state and the signals.  prev is the machine before the *)
(* event, shack the state of the shack after it.                              *)

Outcome(s, signals) == [state |-> s, signals |-> signals]

(* A door that was unlocked for the user and never opened is locked again.    *)
AutoClosed(prev, e) ==
    \/ e = "DOOR_B2_LOCKED" /\ prev.b2 # "LOCKED" /\ prev.state = "WAIT_FOR_OPEN_VIA_B"
    \/ e = "DOOR_C2_LOCKED" /\ prev.c2 # "LOCKED" /\ prev.state = "WAIT_FOR_OPEN_VIA_C"

(* The user came in through the first door: unlock the other one.             *)
Entered(prev, e, shack) ==
    /\ shack # "OPEN"
    /\ \/ e = "DOOR_B2_OPENED" /\ prev.state = "WAIT_FOR_OPEN_VIA_B"
       \/ e = "DOOR_C2_OPENED" /\ prev.state = "WAIT_FOR_OPEN_VIA_C"

(* Mutation: it is opened like the first one, to be locked again when nobody  *)
(* uses it.                                                                   *)
MutOtherSafe(e) == IF e = "DOOR_B2_OPENED" THEN "OPEN_DOOR_C2_SAFE" ELSE "OPEN_DOOR_B2_SAFE"

OtherDoor(e) == IF e = "DOOR_B2_OPENED" THEN "OPEN_DOOR_C2_UNSAFE" ELSE "OPEN_DOOR_B2_UNSAFE"

Opened(prev, e, shack) ==
    is_door_unlock_event(e) /\ shack = "OPEN" /\ is_state_wait_for_open(prev.state)

(* Mutation: one locked door is enough.                                       *)
MutAnyLock(prev, e, shack) == is_door_lock_event(e) /\ prev.state = "WAIT_FOR_LOCKED"

Locked(prev, e, shack) ==
    is_door_lock_event(e) /\ shack = "LOCKED" /\ prev.state = "WAIT_FOR_LOCKED"

(* What each event of a door does.                                            *)
OnDoor(prev, e, shack) ==
    CASE AutoClosed(prev, e) ->
           Outcome("WAIT_FOR_LOCKED", <<"START_TIMEOUT", "UNLOCK_TIMEOUT">>)
      [] Entered(prev, e, shack) ->
           Outcome(prev.state, <<OtherDoor(e)>>)
      [] Opened(prev, e, shack) ->
           Outcome("IDLE", <<"CANCEL_TIMEOUT", "OPEN_SUCCESSFUL">>)
      [] Locked(prev, e, shack) ->
           Outcome("IDLE", <<"CANCEL_TIMEOUT", "LOCK_SUCCESSFUL", "OPEN_DOOR_B">>)
      [] OTHER -> Outcome(prev.state, <<>>)

(* Mutation: the doors are locked without a timeout.                          *)
MutCloseUntimed == Outcome("WAIT_FOR_LOCKED", <<"LOCK_ALL">>)

StartClosing == Outcome("WAIT_FOR_LOCKED", <<"START_TIMEOUT", "LOCK_ALL">>)

(* A button locks the shack, or lets somebody out of the locked one.          *)
OnButton(prev, e, shack) ==
    CASE shack = "LOCKED" ->
           Outcome(prev.state, <<IF e = "BUTTON_C2" THEN "OPEN_DOOR_C" ELSE "OPEN_DOOR_B">>)
      [] is_close_request(e, shack) /\ prev.state = "IDLE" -> StartClosing
      [] OTHER -> Outcome(prev.state, <<>>)

OnOpenRequest(prev, e, shack) ==
    LET front == e = "SSH_OPEN_FRONT_REQUEST"
    IN  IF shack # "OPEN"
        THEN IF front
             THEN Outcome("WAIT_FOR_OPEN_VIA_B",
                          <<"START_TIMEOUT", "OPEN_DOOR_B2_SAFE", "OPEN_DOOR_B">>)
             ELSE Outcome("WAIT_FOR_OPEN_VIA_C",
                          <<"START_TIMEOUT", "OPEN_DOOR_C2_SAFE", "OPEN_DOOR_C">>)
        ELSE Outcome("IDLE", <<IF front THEN "OPEN_DOOR_B" ELSE "OPEN_DOOR_C",
                               "CHANGE_KEYHOLDER">>)

OnCloseRequest(prev, shack) ==
    IF shack # "LOCKED" THEN StartClosing
                        ELSE Outcome("IDLE", <<"NO_STATE_CHANGE", "OPEN_DOOR_B">>)

Reaction(prev, e, shack) ==
    CASE e = "TIMEOUT" /\ prev.state # "IDLE" ->
           Outcome("IDLE", <<"USER_REQUESTED_TIMED_OUT">>)
      [] e \in DoorEvents -> OnDoor(prev, e, shack)
      [] e = "DOORBELL_FRONT" /\ shack = "OPEN" -> Outcome(prev.state, <<"OPEN_DOOR_B">>)
      [] e \in Buttons -> OnButton(prev, e, shack)
      [] is_ssh_request(e) /\ prev.state # "IDLE" ->
           Outcome(prev.state, <<"CANNOT_HANDLE_REQUEST">>)
      [] is_open_request(e) /\ prev.state = "IDLE" -> OnOpenRequest(prev, e, shack)
      [] e = "SSH_CLOSE_REQUEST" /\ prev.state = "IDLE" -> OnCloseRequest(prev, shack)
      [] OTHER -> Outcome(prev.state, <<>>)

(* The doors are updated first; a change of the shack's state is announced    *)
(* before anything else.                                                      *)
sm_apply_event(sm, e) ==
    LET now   == sm_change_door_state(sm, e)
        shack == sm_get_shack_state(now)
        r     == Reaction(sm, e, shack)
    IN  [sm      |-> [state |-> r.state, b2 |-> now.b2, c2 |-> now.c2,
                      last_shack_state |-> shack],
         signals |-> (IF shack # sm.last_shack_state THEN <<"STATE_CHANGE">> ELSE <<>>)
                     \o r.signals]
=============================================================================
