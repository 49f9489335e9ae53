------------------------------- MODULE Portal -------------------------------
(****************************************************************************)
(* The portal as a whole: the state machine of the daemon, the controllers    *)
(* of the doors B2 and C2, each as DoorService describes it, the messages     *)
(* between them, the people, and time.  The question is whether the timeouts  *)
(* of the parts fit together.                                                 *)
(*                                                                            *)
(* An event is handled with all the signals it causes in one step, and its    *)
(* commands have arrived before the next event (module PortalDaemon is about  *)
(* the queue between them).  A movement is read before anything else happens  *)
(* to that door (module DoorControl is about the delay).  Commands are sent   *)
(* with QoS 2, and arrive; status messages with QoS 0, and may be lost.  All  *)
(* of this takes much less than a unit of time, and so do forced updates.     *)
(****************************************************************************)
EXTENDS PortalStateMachine, FiniteSets

CONSTANT MaxInbox   \* bound on the status messages under way

ASSUME PortalAssumption == MaxInbox \in Nat \ {0}

VARIABLES
    sm,        \* global_state_machine of the daemon
    timer,     \* sm_timerfd: the time left, {} when it is not armed
    doors,     \* the two doors with their controllers
    left,      \* of each controller: the time left of its stage
    commands,  \* of each controller: commands under way to it
    inbox,     \* status messages under way to the daemon
    told,      \* results that the latest step has told the users
    smooth,    \* TRUE when no message is lost, no part fails, and everybody
               \* does in time what the portal waits for
    heard      \* controllers heard in this unit of time (when smooth)

vars == <<sm, timer, doors, left, commands, inbox, told, smooth, heard>>

Controllers == {"B2", "C2"}

S(x) == INSTANCE DoorService WITH d <- doors[x]

(* Mutation: the daemon waits 40 s, less than a person has to open the door.  *)
MutImpatient == 2

(* Timeouts in units of twenty seconds; the 30 s of "closing" are rounded up. *)
STATE_MACHINE_TIMEOUT == 6

StageTime == [idle |-> 0, opening |-> 1, entry |-> 3, closing |-> 2, locking |-> 1]

Init ==
    /\ sm = sm_init
    /\ timer = {}
    /\ doors \in [Controllers -> {S("B2")!Started(p, "none") : p \in S("B2")!Positions}]
    /\ left = [x \in Controllers |-> 0]
    /\ commands = [x \in Controllers |-> <<>>]
    /\ inbox = <<>>
    /\ told = {}
    /\ smooth \in BOOLEAN
    /\ heard = {}

-----------------------------------------------------------------------------
(* The daemon.                                                                *)

CommandFor(x, signals) ==
    LET opening == [B2 |-> <<"OPEN_DOOR_B2_SAFE", "OPEN_DOOR_B2_UNSAFE">>,
                    C2 |-> <<"OPEN_DOOR_C2_SAFE", "OPEN_DOOR_C2_UNSAFE">>][x]
    IN  CASE opening[1] \in signals -> <<"safe">>
          [] opening[2] \in signals -> <<"unsafe">>
          [] "LOCK_ALL" \in signals -> <<"close">>
          [] OTHER -> <<>>

Applies(e) ==
    LET r == sm_apply_event(sm, e)
        signals == {r.signals[i] : i \in 1 .. Len(r.signals)}
    IN  /\ \A x \in Controllers : commands[x] = <<>>
        /\ sm' = r.sm
        /\ timer' = CASE "START_TIMEOUT" \in signals -> {STATE_MACHINE_TIMEOUT}
                      [] "CANCEL_TIMEOUT" \in signals \/ e = "TIMEOUT" -> {}
                      [] OTHER -> timer
        /\ commands' = [x \in Controllers |-> CommandFor(x, signals)]
        /\ told' = signals \cap {"LOCK_SUCCESSFUL", "OPEN_SUCCESSFUL",
                                 "USER_REQUESTED_TIMED_OUT"}

Quiet == inbox = <<>> /\ \A x \in Controllers : commands[x] = <<>>

(* The portal is at rest: somebody may ask without getting in another's way.  *)
AtRest == /\ sm.state = "IDLE" /\ Quiet
          /\ \A x \in Controllers : doors[x].stage = "idle" /\ doors[x].seen = doors[x].door

Request ==
    /\ smooth => AtRest
    /\ \E e \in SshRequests \cup Buttons : Applies(e)
    /\ UNCHANGED <<doors, left, inbox, smooth, heard>>

StatusArrives ==
    /\ inbox # <<>>
    /\ Applies(Head(inbox))
    /\ inbox' = Tail(inbox)
    /\ UNCHANGED <<doors, left, smooth, heard>>

DaemonTimeout ==
    /\ 0 \in timer
    /\ Applies("TIMEOUT")
    /\ UNCHANGED <<doors, left, inbox, smooth, heard>>

(* portal-trigger: FORCE_OPEN, SYSTEM_RESET.  The daemon publishes and its    *)
(* own machine takes no notice.                                               *)
Override ==
    /\ ~smooth /\ Quiet
    /\ \E k \in {"unsafe", "reset"} : commands' = [x \in Controllers |-> <<k>>]
    /\ told' = {}
    /\ UNCHANGED <<sm, timer, doors, left, inbox, smooth, heard>>

DaemonRestarts ==
    /\ ~smooth /\ Quiet
    /\ sm' = sm_init
    /\ timer' = {}
    /\ told' = {}
    /\ UNCHANGED <<doors, left, commands, inbox, smooth, heard>>

-----------------------------------------------------------------------------
(* The controllers, and the people at the doors.                              *)

(* The controller x goes to the record r; a stage begins with its full time.  *)
(* What it has published is in inbox, and not kept in r.                      *)
Becomes(x, r) ==
    /\ doors' = [doors EXCEPT ![x] = [r EXCEPT !.status = "none"]]
    /\ left' = [left EXCEPT ![x] = IF r.stage = doors[x].stage THEN @ ELSE StageTime[r.stage]]
    /\ told' = {}
    /\ UNCHANGED <<sm, timer, smooth>>

(* A command is carried out, or ignored by a controller that is busy or whose *)
(* door is already as it should be.                                           *)
CommandArrives(x) ==
    /\ commands[x] # <<>>
    /\ LET k == Head(commands[x])
       IN  Becomes(x, IF k = "reset" THEN S(x)!Restarted(doors[x])
                      ELSE IF S(x)!Takes(doors[x], k) THEN S(x)!Accepted(doors[x], k)
                      ELSE doors[x])
    /\ commands' = [commands EXCEPT ![x] = Tail(@)]
    /\ UNCHANGED <<inbox, heard>>

StatusEvent(x, position) ==
    CASE x = "B2" /\ position = "OPEN"   -> "DOOR_B2_OPENED"
      [] x = "B2" /\ position = "CLOSED" -> "DOOR_B2_CLOSED"
      [] x = "B2" /\ position = "LOCKED" -> "DOOR_B2_LOCKED"
      [] x = "C2" /\ position = "OPEN"   -> "DOOR_C2_OPENED"
      [] x = "C2" /\ position = "CLOSED" -> "DOOR_C2_CLOSED"
      [] x = "C2" /\ position = "LOCKED" -> "DOOR_C2_LOCKED"

(* The controller reads the door and publishes what it finds.  When all goes  *)
(* well the bolt takes longer than the press of the button that moves it.     *)
Reads(x, before) ==
    /\ Len(inbox) < MaxInbox
    /\ \E r \in S(x)!Readings(before) :
          /\ Becomes(x, r)
          /\ smooth /\ Cardinality(S(x)!AfterReading(before)) > 1 => r.stage # before.stage
    /\ \/ inbox' = Append(inbox, StatusEvent(x, before.door))
       \/ ~smooth /\ UNCHANGED inbox
    /\ heard' = IF smooth THEN heard \cup {x} ELSE heard
    /\ UNCHANGED commands

(* A forced update, or the first reading after a restart.                     *)
DoorReads(x) == Reads(x, doors[x])

(* The door moves and is read.  When all goes well only the motor turns the   *)
(* lock, and only when asked to.                                              *)
DoorMoves(x) ==
    \E r \in S(x)!Moved(doors[x]) :
        /\ Reads(x, r)
        /\ smooth => /\ doors[x].door = "LOCKED" => doors[x].stage = "opening"
                     /\ r.door = "LOCKED" => doors[x].stage = "locking"

StageEnds(x) ==
    /\ left[x] = 0
    /\ doors[x].stage # "idle"
    /\ Becomes(x, S(x)!AfterTimeout(doors[x]))
    /\ UNCHANGED <<commands, inbox, heard>>

ControllerRestarts(x) ==
    /\ ~smooth
    /\ Becomes(x, S(x)!Restarted(doors[x]))
    /\ UNCHANGED <<commands, inbox, heard>>

-----------------------------------------------------------------------------
(* Time.                                                                      *)

(* The user has asked for a door that is not locked: there is no stage to     *)
(* time the opening of it.                                                    *)
UserAtDoor(x) ==
    /\ sm.state = IF x = "B2" THEN "WAIT_FOR_OPEN_VIA_B" ELSE "WAIT_FOR_OPEN_VIA_C"
    /\ doors[x].stage = "idle" /\ doors[x].door = "CLOSED"

Tick ==
    /\ Quiet
    /\ \A x \in Controllers : /\ doors[x].seen = doors[x].door
                              /\ doors[x].stage # "idle" => left[x] > 0
    /\ 0 \notin timer
    /\ smooth => /\ heard = Controllers
                 /\ \A x \in Controllers : left[x] # 1 /\ ~UserAtDoor(x)
    /\ timer' = {t - 1 : t \in timer}
    /\ left' = [x \in Controllers |-> IF left[x] = 0 THEN 0 ELSE left[x] - 1]
    /\ told' = {}
    /\ heard' = {}
    /\ UNCHANGED <<sm, doors, commands, inbox, smooth>>

Next ==
    \/ Request \/ StatusArrives \/ DaemonTimeout \/ Override \/ DaemonRestarts
    \/ \E x \in Controllers :
          \/ CommandArrives(x) \/ DoorReads(x) \/ StageEnds(x)
          \/ ControllerRestarts(x) \/ DoorMoves(x)
    \/ Tick

Spec == Init /\ [][Next]_vars

-----------------------------------------------------------------------------
(* Properties.                                                                *)

WillLock(x) == \/ doors[x].stage \in {"entry", "closing", "locking"}
               \/ doors[x].stage = "opening" /\ doors[x].kind = "safe"

(* When the daemon tells the users that their request has timed out, no door  *)
(* is going to be locked behind their backs: the 120 s of the daemon outlast  *)
(* whatever the controllers are still busy with, through lost messages,       *)
(* restarts of any part, forced openings and resets.                          *)
TimeoutFinal ==
    "USER_REQUESTED_TIMED_OUT" \in told => \A x \in Controllers : ~WillLock(x)

(* When nothing fails and everybody acts in time, no request times out: what  *)
(* the daemon waits for is what the controllers were told to do.              *)
CooperationSucceeds == smooth => "USER_REQUESTED_TIMED_OUT" \notin told

(* When nothing fails, a user who is told that the shack is locked leaves two *)
(* locked doors behind.                                                       *)
LockedIsLocked ==
    smooth /\ "LOCK_SUCCESSFUL" \in told => \A x \in Controllers : doors[x].door = "LOCKED"
=============================================================================
