-------------------------- MODULE DoorServiceProofs --------------------------
(****************************************************************************)
(* The door controller implements DoorService, for every size of the sample   *)
(* array, every period of forced updates and every bound on faults: each step *)
(* of one of its tasks is, at the door and on MQTT, a step of the service or  *)
(* no step at all.                                                            *)
(****************************************************************************)
EXTENDS DoorControlProofs

(* A process knows the request that it serves.                                *)
KindOfProcess ==
    /\ logic_state = "IDLE" => request = "none"
    /\ logic_state \in {"INIT_OPEN", "WAIT_FOR_UNLOCKED"} => request \in {"safe", "unsafe"}

(* What the service sees of the controller.                                   *)
Seen(position, seen, stage, kind, status) ==
    [door |-> position, seen |-> seen, stage |-> stage, kind |-> kind, status |-> status]

View == Seen(door, sm_door_state, StageOf(logic_state), request, published)

-----------------------------------------------------------------------------
(* Updates of two fields of a record.  They go through the record as a        *)
(* function on its field names.                                               *)

AsFunction(position, seen, stage, kind, status) ==
    [field \in {"door", "seen", "stage", "kind", "status"} |->
        CASE field = "door"   -> position
          [] field = "seen"   -> seen
          [] field = "stage"  -> stage
          [] field = "kind"   -> kind
          [] field = "status" -> status]

(* A record is a function on its field names.                                 *)
LEMMA RecordIsFunction ==
    ASSUME NEW p, NEW e, NEW s, NEW k, NEW m
    PROVE  Seen(p, e, s, k, m) = AsFunction(p, e, s, k, m)
BY DEF Seen, AsFunction

(* A change of the stage and the kind, and of the reading and the status.     *)
WithStage(r, s, k)   == [r EXCEPT !.stage = s, !.kind = k]
WithKind(r, k, s)    == [r EXCEPT !.kind = k, !.stage = s]
WithReading(r, e, m) == [r EXCEPT !.seen = e, !.status = m]

(* What those changes yield.                                                  *)
LEMMA TwoFields ==
    ASSUME NEW p, NEW e, NEW s, NEW k, NEW m, NEW v, NEW w
    PROVE  /\ WithStage(Seen(p, e, s, k, m), v, w) = Seen(p, e, v, w, m)
           /\ WithKind(Seen(p, e, s, k, m), w, v) = Seen(p, e, v, w, m)
           /\ WithReading(Seen(p, e, s, k, m), v, w) = Seen(p, v, s, k, w)
<1>1. WithStage(AsFunction(p, e, s, k, m), v, w) = AsFunction(p, e, v, w, m)
  BY DEF AsFunction, WithStage
<1>2. WithKind(AsFunction(p, e, s, k, m), w, v) = AsFunction(p, e, v, w, m)
  BY DEF AsFunction, WithKind
<1>3. WithReading(AsFunction(p, e, s, k, m), v, w) = AsFunction(p, v, s, k, w)
  BY DEF AsFunction, WithReading
<1> QED
  BY <1>1, <1>2, <1>3, RecordIsFunction

(* The fields.                                                                *)
LEMMA Fields ==
    ASSUME NEW p, NEW e, NEW s, NEW k, NEW m
    PROVE  /\ Seen(p, e, s, k, m).door = p
           /\ Seen(p, e, s, k, m).seen = e
           /\ Seen(p, e, s, k, m).stage = s
           /\ Seen(p, e, s, k, m).kind = k
           /\ Seen(p, e, s, k, m).status = m
BY DEF Seen

(* AtStage of the service.                                                    *)
LEMMA StageReached ==
    ASSUME NEW p, NEW e, NEW s, NEW k, NEW m, NEW s2
    PROVE  Service!AtStage(Seen(p, e, s, k, m), s2)
             = Seen(p, e, s2, IF s2 = "idle" THEN "none" ELSE k, m)
<1> DEFINE r  == Seen(p, e, s, k, m)
           k2 == IF s2 = "idle" THEN "none" ELSE k
<1>1. r.kind = k
  BY Fields
<1>2. Service!AtStage(r, s2) = WithStage(r, s2, IF s2 = "idle" THEN "none" ELSE r.kind)
  <2> HIDE DEF r
  <2> QED
    BY DEF Service!AtStage, WithStage
<1> QED
  BY <1>1, <1>2, TwoFields

-----------------------------------------------------------------------------
(* What the operations of the state machine do to the reading, the state and  *)
(* the request.                                                               *)

(* sm_change_door_state: the pairs of states that a new reading leads through. *)
LEMMA ChangeEffect ==
    ASSUME NEW d \in DoorStates, sm_change_door_state(d)
    PROVE  /\ sm_door_state' = d
           /\ request' = IF logic_state' = "IDLE" THEN "none" ELSE request
           /\ \/ /\ logic_state' = logic_state
                 /\ \/ sm_door_state = d
                    \/ logic_state \in {"IDLE", "INIT_OPEN", "INIT_LOCK"}
                    \/ logic_state = "WAIT_FOR_UNLOCKED" /\ d = "LOCKED"
                    \/ logic_state = "WAIT_FOR_OPEN" /\ d # "OPEN"
                    \/ logic_state = "WAIT_FOR_CLOSED" /\ d # "CLOSED"
                    \/ logic_state = "WAIT_FOR_LOCKED" /\ d # "LOCKED"
              \/ /\ sm_door_state # d
                 /\ \/ /\ logic_state = "WAIT_FOR_UNLOCKED" /\ d # "LOCKED"
                       /\ logic_state' = IF d = "CLOSED" /\ ~unsafe_action THEN "WAIT_FOR_OPEN"
                                                                          ELSE "IDLE"
                    \/ logic_state = "WAIT_FOR_OPEN" /\ d = "OPEN" /\ logic_state' = "IDLE"
                    \/ logic_state = "WAIT_FOR_CLOSED" /\ d = "CLOSED"
                         /\ logic_state' = "INIT_LOCK"
                    \/ logic_state = "WAIT_FOR_LOCKED" /\ d = "LOCKED" /\ logic_state' = "IDLE"
<1>1. ASSUME NEW sent, stay(sent) PROVE logic_state' = logic_state
  BY <1>1 DEF stay
<1>2. ASSUME NEW s, NEW flag, NEW sent, set_state(s, flag, sent) PROVE logic_state' = s
  BY <1>2 DEF set_state
<1>3. CASE ChangeInIdle(d) \/ ChangeWhilePressing
  BY <1>1, <1>3 DEF sm_change_door_state, ChangeInIdle, ChangeWhilePressing
<1>4. CASE sm_door_state # d /\ ChangeWhileUnlocking(d)
  BY <1>1, <1>2, <1>4 DEF sm_change_door_state, ChangeWhileUnlocking, DoorStates
<1>5. CASE sm_door_state # d /\ ChangeWhileWaiting(d)
  BY <1>1, <1>2, <1>5 DEF sm_change_door_state, ChangeWhileWaiting
<1> QED
  BY <1>1, <1>3, <1>4, <1>5 DEF sm_change_door_state

(* EVENT_TIMEOUT.                                                             *)
LEMMA TimeoutEffect ==
    ASSUME send_timeout
    PROVE  /\ sm_door_state' = sm_door_state
           /\ request' = IF logic_state' = "IDLE" THEN "none" ELSE request
           /\ logic_state' = timeout_target(logic_state)
<1>1. CASE stay({})
  BY <1>1 DEF send_timeout, stay, set_state, timeout_target
<1>2. CASE ~stay({})
  BY <1>2 DEF send_timeout, set_state, timeout_target
<1> QED
  BY <1>1, <1>2

(* The requests.                                                              *)
LEMMA RequestEffect ==
    ASSUME send_close \/ \E u \in BOOLEAN : send_open(u)
    PROVE  /\ sm_door_state' = sm_door_state
           /\ \/ UNCHANGED <<logic_state, request>>
              \/ /\ logic_state = "IDLE" /\ sm_door_state # "LOCKED"
                 /\ logic_state' = close_target /\ request' = "close"
              \/ /\ logic_state = "IDLE" /\ sm_door_state = "LOCKED"
                 /\ logic_state' = "INIT_OPEN" /\ request' \in {"safe", "unsafe"}
BY DEF send_close, send_open, stay, set_state

-----------------------------------------------------------------------------
(* Steps of the machine as steps of the service.                              *)

(* Only IDLE is idle.                                                         *)
LEMMA IdleStage ==
    ASSUME NEW s \in LogicStates
    PROVE  StageOf(s) = "idle" <=> s = "IDLE"
BY DEF StageOf, LogicStates, OpenStates, CloseStates

(* The stage after a new reading is one that the service allows.              *)
LEMMA StageAfterReading ==
    ASSUME DoorInv, KindOfProcess, alive, sm_change_door_state(door)
    PROVE  StageOf(logic_state') \in Service!AfterReading(View)
<1>1. door \in DoorStates /\ sm_door_state \in DoorStates /\ logic_state \in LogicStates
  BY DEF DoorInv, TypeOK, SmTypeOK
<1> DEFINE stage == StageOf(logic_state)
           next  == StageOf(logic_state')
<1>2. /\ View.door = door /\ View.seen = sm_door_state
      /\ View.stage = stage /\ View.kind = request
  BY Fields DEF View
<1>3. \/ next = stage
      \/ /\ sm_door_state # door
         /\ \/ /\ stage = "opening" /\ door # "LOCKED"
               /\ next = IF door = "CLOSED" /\ request = "safe" THEN "entry" ELSE "idle"
            \/ stage = "entry" /\ door = "OPEN" /\ next = "idle"
            \/ stage = "closing" /\ door = "CLOSED" /\ next = "locking"
            \/ stage = "locking" /\ door = "LOCKED" /\ next = "idle"
  <2>1. logic_state = "WAIT_FOR_UNLOCKED" => (~unsafe_action <=> request = "safe")
    BY DEF DoorInv, FlagOfRequest, KindOfProcess, OpenStates
  <2> QED
    BY <1>1, <2>1, ChangeEffect DEF StageOf
<1>4. next = stage =>
        \/ sm_door_state = door
        \/ stage \in {"idle", "opening", "locking"}
        \/ stage = "entry" /\ door # "OPEN"
        \/ stage = "closing" /\ door # "CLOSED"
  BY <1>1, ChangeEffect DEF StageOf
<1>5. next \in Service!AfterReading(View)
  <2> HIDE DEF stage, next
  <2> QED
    BY <1>1, <1>2, <1>3, <1>4 DEF Service!AfterReading, DoorStates
<1> QED
  BY <1>5

(* A reading that is forwarded is a reading of the service; the status that   *)
(* goes with it arrives or is lost.                                           *)
LEMMA ChangeIsReading ==
    ASSUME DoorInv, KindOfProcess, alive, sm_change_door_state(door), UNCHANGED door,
           published' \in {door, published}
    PROVE  View' \in Service!Readings(View)
<1> DEFINE next == StageOf(logic_state')
<1>1. door \in DoorStates /\ logic_state' \in LogicStates
  BY ChangeTypes DEF DoorInv, TypeOK, SmTypeOK
<1>2. /\ sm_door_state' = door
      /\ request' = IF next = "idle" THEN "none" ELSE request
  BY <1>1, ChangeEffect, IdleStage
<1>3. next \in Service!AfterReading(View)
  BY StageAfterReading
<1>4. View' = Seen(door, door, next, request', published')
  BY <1>2 DEF View, Seen
<1>5. Service!AtStage(View, next) = Seen(door, sm_door_state, next, request', published)
  <2> HIDE DEF next
  <2> QED
    BY <1>2, StageReached DEF View
<1>6. View.door = door /\ View.status = published
  BY Fields DEF View
<1>7. View' = WithReading(Service!AtStage(View, next), View.door, published')
  <2> HIDE DEF next
  <2> QED
    BY <1>4, <1>5, <1>6, TwoFields
<1>8. published' \in {View.door, View.status}
  BY <1>6
<1>9. View' = Service!ReadAt(View, next, published')
  <2> HIDE DEF next, View
  <2> QED
    BY <1>7, Zenon DEF Service!ReadAt, WithReading
<1> HIDE DEF next, View
<1> QED
  BY <1>3, <1>8, <1>9 DEF Service!Readings

(* A timeout moves on to the next stage, or from the press of a button to the *)
(* wait for its effect, which is the same stage.                              *)
LEMMA TimeoutIsTimeout ==
    ASSUME DoorInv, KindOfProcess, send_timeout, UNCHANGED <<door, published>>
    PROVE  \/ View.stage # "idle" /\ View' = Service!AfterTimeout(View)
           \/ View' = View
<1> DEFINE stage == StageOf(logic_state)
           next  == StageOf(logic_state')
<1>1. logic_state \in LogicStates
  BY DEF DoorInv, TypeOK, SmTypeOK
<1>2. /\ sm_door_state' = sm_door_state
      /\ request' = IF next = "idle" THEN "none" ELSE request
  BY <1>1, TimeoutEffect DEF StageOf, timeout_target, LogicStates, OpenStates, CloseStates
<1>3. \/ next = stage /\ request' = request
      \/ stage # "idle" /\ next = IF stage = "entry" THEN "locking" ELSE "idle"
  BY <1>1, TimeoutEffect DEF StageOf, timeout_target, LogicStates, OpenStates, CloseStates,
                             KindOfProcess
<1>4. View' = Seen(door, sm_door_state, next, request', published)
  BY <1>2 DEF View, Seen
<1>5. CASE next = stage /\ request' = request
  BY <1>4, <1>5 DEF View
<1>6. CASE stage # "idle" /\ next = IF stage = "entry" THEN "locking" ELSE "idle"
  <2>1. View.stage = stage
    BY Fields DEF View
  <2>2. Service!AtStage(View, next) = Seen(door, sm_door_state, next, request', published)
    <3> HIDE DEF next
    <3> QED
      BY <1>2, StageReached DEF View
  <2> HIDE DEF next, stage, View
  <2> QED
    BY <1>4, <1>6, <2>1, <2>2 DEF Service!AfterTimeout
<1> QED
  BY <1>3, <1>5, <1>6

(* A request is taken up by an idle controller, and otherwise ignored.        *)
LEMMA RequestIsAccepted ==
    ASSUME send_close \/ \E u \in BOOLEAN : send_open(u), UNCHANGED <<door, published>>
    PROVE  \/ \E k \in Service!Kinds : Service!Takes(View, k) /\ View' = Service!Accepted(View, k)
           \/ View' = View
<1> DEFINE next == StageOf(logic_state')
<1>1. sm_door_state' = sm_door_state
  BY RequestEffect
<1>2. View' = Seen(door, sm_door_state, next, request', published)
  BY <1>1 DEF View, Seen
<1>3. CASE UNCHANGED <<logic_state, request>>
  BY <1>2, <1>3 DEF View
<1>4. ASSUME NEW k \in {"safe", "unsafe", "close"}, request' = k, logic_state = "IDLE",
             IF k = "close" THEN sm_door_state # "LOCKED" ELSE sm_door_state = "LOCKED",
             logic_state' = IF k = "close" THEN close_target ELSE "INIT_OPEN"
      PROVE  Service!Takes(View, k) /\ View' = Service!Accepted(View, k)
  <2>1. View.stage = StageOf(logic_state) /\ View.seen = sm_door_state
    BY Fields DEF View
  <2>2. /\ StageOf(logic_state) = "idle"
        /\ next = IF k # "close" THEN "opening"
                  ELSE IF View.seen = "OPEN" THEN "closing" ELSE "locking"
    BY <1>4, <2>1 DEF StageOf, close_target
  <2>3. Service!Takes(View, k)
    BY <1>4, <2>1, <2>2 DEF Service!Takes
  <2>4. View' = WithKind(View, k, next)
    <3> HIDE DEF next
    <3> QED
      BY <1>2, <1>4, TwoFields DEF View
  <2>5. View' = Service!Accepted(View, k)
    <3> HIDE DEF next, View
    <3> QED
      BY <2>2, <2>4, Zenon DEF Service!Accepted, WithKind
  <2> QED
    BY <2>3, <2>5
<1>5. CASE /\ logic_state = "IDLE" /\ sm_door_state # "LOCKED"
           /\ logic_state' = close_target /\ request' = "close"
  BY <1>4, <1>5 DEF Service!Kinds
<1>6. CASE /\ logic_state = "IDLE" /\ sm_door_state = "LOCKED"
           /\ logic_state' = "INIT_OPEN" /\ request' \in {"safe", "unsafe"}
  BY <1>4, <1>6 DEF Service!Kinds
<1> QED
  BY <1>3, <1>5, <1>6, RequestEffect

(* A restart is one of the service.                                           *)
LEMMA RestartIsRestart ==
    ASSUME restart
    PROVE  View' = Service!Restarted(View)
<1>1. View.door = door /\ View.status = published
  BY Fields DEF View
<1>2. View' = Seen(door, "CLOSED", "idle", "none", published)
  BY DEF restart, View, Seen, StageOf
<1> QED
  BY <1>1, <1>2 DEF Service!Restarted, Service!Started, Seen

(* The first stable reading is a reading of an idle service.                  *)
LEMMA BootIsReading ==
    ASSUME DoorInv, KindOfProcess, phase = "boot", sm_door_state' = door,
           UNCHANGED <<door, logic_state, request, published>>
    PROVE  View' \in Service!Readings(View)
<1>1. logic_state = "IDLE" /\ request = "none" /\ StageOf(logic_state) = "idle"
  BY DEF DoorInv, BootsIdle, KindOfProcess, StageOf
<1>2. /\ View = Seen(door, sm_door_state, "idle", "none", published)
      /\ View' = Seen(door, door, "idle", "none", published)
  BY <1>1 DEF View, Seen
<1>3. View.door = door /\ View.status = published /\ View.stage = "idle"
  BY <1>1, Fields DEF View
<1>4. "idle" \in Service!AfterReading(View)
  <2> HIDE DEF View
  <2> QED
    BY <1>3 DEF Service!AfterReading
<1>5. View' = WithReading(Service!AtStage(View, "idle"), View.door, published)
  <2>1. Service!AtStage(View, "idle") = View
    BY <1>2, StageReached
  <2> QED
    BY <1>2, <1>3, <2>1, TwoFields
<1>6. View' = Service!ReadAt(View, "idle", published)
  <2> HIDE DEF View
  <2> QED
    BY <1>5, Zenon DEF Service!ReadAt, WithReading
<1> HIDE DEF View
<1> QED
  BY <1>3, <1>4, <1>6 DEF Service!Readings

(* A movement of the door is one of the service.                              *)
LEMMA MoveIsMove ==
    ASSUME DoorMoves
    PROVE  View' \in Service!Moved(View)
<1>1. View' = [View EXCEPT !.door = door']
  BY DEF DoorMoves, OutsideMain, View, Seen
<1>2. View.door = door
  BY Fields DEF View
<1> HIDE DEF View
<1> QED
  BY <1>1, <1>2 DEF Service!Moved, DoorMoves

-----------------------------------------------------------------------------
(* A step of the service, seen from the controller.                           *)
ViewStep ==
    \/ \E k \in Service!Kinds : Service!Takes(View, k) /\ View' = Service!Accepted(View, k)
    \/ View' \in Service!Readings(View)
    \/ View.stage # "idle" /\ View' = Service!AfterTimeout(View)
    \/ View' = Service!Restarted(View)
    \/ View' \in Service!Moved(View)
    \/ View' = View

(* Each step of the controller is one of the service or changes nothing that  *)
(* the service shows.                                                         *)
LEMMA StepIsViewStep ==
    ASSUME DoorInv, KindOfProcess, [Next]_vars
    PROVE  ViewStep
<1>1. ASSUME restart PROVE ViewStep
  BY <1>1, RestartIsRestart DEF ViewStep
<1>2. ASSUME UNCHANGED <<door, sm_door_state, logic_state, request, published>>
      PROVE  ViewStep
  <2>1. View' = View
    BY <1>2 DEF View, Seen
  <2> QED
    BY <2>1 DEF ViewStep
<1>3. CASE alive /\ Boot
  <2>1. CASE restart
    BY <1>1, <2>1
  <2>2. CASE phase = "boot" /\ sm_door_state' = door
             /\ UNCHANGED <<door, logic_state, request, published>>
    BY <2>2, BootIsReading DEF ViewStep
  <2>3. CASE UNCHANGED <<door, sm_door_state, logic_state, request, published>>
    BY <1>2, <2>3
  <2> QED
    BY <1>3, <2>1, <2>2, <2>3 DEF Boot, envVars
<1>4. CASE ServeTimeout
  BY <1>4, TimeoutIsTimeout DEF ServeTimeout, envVars, ViewStep
<1>5. CASE ServeRequest
  BY <1>5, RequestIsAccepted DEF ServeRequest, envVars, ViewStep
<1>6. CASE alive /\ SampleDoor
  <2>1. CASE sm_change_door_state(door) /\ publish_door_status(door) /\ UNCHANGED door
    BY <1>6, <2>1, ChangeIsReading DEF publish_door_status, ViewStep
  <2>2. CASE stay({}) /\ UNCHANGED <<door, published, sm_door_state, request>>
    BY <1>2, <2>2 DEF stay
  <2> QED
    BY <1>6, <2>1, <2>2 DEF SampleDoor
<1>7. CASE DoorMoves
  BY <1>7, MoveIsMove DEF ViewStep
<1>8. CASE ButtonPublishFails \/ StatusPublishFails \/ ResetArrives
  BY <1>1, <1>8 DEF ButtonPublishFails, StatusPublishFails, ResetArrives
<1>9. CASE WaitBits \/ ServeButton
  BY <1>2, <1>9 DEF WaitBits, ServeButton, envVars
<1>10. CASE TimeoutTask \/ RequestArrives \/ ButtonEdge
  BY <1>2, <1>10 DEF TimeoutTask, RequestArrives, ButtonEdge, OutsideMain, envVars
<1>11. CASE UNCHANGED vars
  BY <1>2, <1>11 DEF vars, smVars, envVars
<1> QED
  BY <1>3, <1>4, <1>5, <1>6, <1>7, <1>8, <1>9, <1>10, <1>11 DEF Next, MainTask

(* A process goes on knowing the request that it serves.                      *)
LEMMA KindStep ==
    ASSUME DoorInv, KindOfProcess, [Next]_vars
    PROVE  KindOfProcess'
<1>1. ASSUME restart PROVE KindOfProcess'
  BY <1>1 DEF restart, KindOfProcess
<1>2. ASSUME UNCHANGED <<logic_state, request>> PROVE KindOfProcess'
  BY <1>2 DEF KindOfProcess
<1>3. CASE Boot
  BY <1>1, <1>2, <1>3 DEF Boot
<1>4. CASE ServeTimeout
  <2>1. logic_state \in LogicStates
    BY DEF DoorInv, TypeOK, SmTypeOK
  <2> QED
    BY <1>4, <2>1, TimeoutEffect DEF ServeTimeout, timeout_target, KindOfProcess
<1>5. CASE ServeRequest
  BY <1>2, <1>5, RequestEffect DEF ServeRequest, KindOfProcess, close_target
<1>6. CASE SampleDoor
  <2>1. door \in DoorStates
    BY DEF DoorInv, TypeOK
  <2>2. CASE sm_change_door_state(door)
    BY <2>1, <2>2, ChangeEffect DEF KindOfProcess
  <2>3. CASE stay({}) /\ UNCHANGED request
    BY <1>2, <2>3 DEF stay
  <2> QED
    BY <1>6, <2>2, <2>3 DEF SampleDoor
<1>7. CASE ButtonPublishFails \/ StatusPublishFails \/ ResetArrives
  BY <1>1, <1>7 DEF ButtonPublishFails, StatusPublishFails, ResetArrives
<1>8. CASE WaitBits \/ ServeButton
  BY <1>2, <1>8 DEF WaitBits, ServeButton
<1>9. CASE TimeoutTask \/ RequestArrives \/ ButtonEdge \/ DoorMoves
  BY <1>2, <1>9 DEF TimeoutTask, RequestArrives, ButtonEdge, DoorMoves, OutsideMain
<1>10. CASE UNCHANGED vars
  BY <1>2, <1>10 DEF vars, smVars
<1> QED
  BY <1>3, <1>4, <1>5, <1>6, <1>7, <1>8, <1>9, <1>10 DEF Next, MainTask

(* The controller, with its tasks, event bits and samples, implements the     *)
(* service that Portal is built from: no interleaving of its tasks, of        *)
(* requests, door movements, lost messages and restarts shows anything at the *)
(* door or on MQTT that DoorService does not allow.                           *)
THEOREM ControllerImplementsService == Spec => ImplementsService
<1> DEFINE rec == [door |-> door, seen |-> sm_door_state, stage |-> StageOf(logic_state),
                   kind |-> request, status |-> published]
<1>1. Init => Service!ServiceInit /\ KindOfProcess
  BY DEF Init, PowerOn, sm_init, Service!ServiceInit, Service!Started, Service!Positions,
         DoorStates, StageOf, KindOfProcess
<1>2. DoorInv /\ KindOfProcess /\ [Next]_vars => KindOfProcess'
  BY KindStep
<1>3. DoorInv /\ KindOfProcess /\ [Next]_vars => [Service!ServiceNext]_rec
  <2> SUFFICES ASSUME DoorInv, KindOfProcess, [Next]_vars
               PROVE  [Service!ServiceNext]_rec
    OBVIOUS
  <2>1. View = rec /\ View' = rec'
    BY DEF View, Seen
  <2> QED
    BY <2>1, StepIsViewStep
       DEF ViewStep, Service!ServiceNext, Service!Accept, Service!Reading, Service!Timeout,
           Service!Restart, Service!Move
<1> QED
  BY <1>1, <1>2, <1>3, DoorInvariant, PTL DEF Spec, ImplementsService, Service!ServiceSpec
=============================================================================
