---------------------------- MODULE PortalProofs ----------------------------
(****************************************************************************)
(* Theorems about the portal as a whole, for every number of messages under   *)
(* way: the timeouts of the daemon and of the controllers fit together, and   *)
(* when nothing fails the daemon knows what it tells the users.               *)
(****************************************************************************)
EXTENDS Portal, SequenceTheorems, FiniteSetTheorems, TLAPS

(* How the daemon names the door x.                                           *)
Known(m, x) == IF x = "B2" THEN m.b2 ELSE m.c2

(* The messages about the door x.                                             *)
Of(x) == {StatusEvent(x, p) : p \in {"OPEN", "CLOSED", "LOCKED"}}

(* A controller and its door; what it has published is in inbox.              *)
Services == [door: {"OPEN", "CLOSED", "LOCKED"}, seen: {"OPEN", "CLOSED", "LOCKED"},
             stage: {"idle", "opening", "entry", "closing", "locking"},
             kind: {"safe", "unsafe", "close", "none"}, status: {"none"}]

(* The types of the variables.                                                *)
PortalTypes ==
    /\ sm \in Machines
    /\ timer = {} \/ \E t \in 0 .. STATE_MACHINE_TIMEOUT : timer = {t}
    /\ doors \in [Controllers -> Services]
    /\ left \in [Controllers -> Nat]
    /\ commands \in [Controllers -> {<<>>, <<"safe">>, <<"unsafe">>, <<"close">>, <<"reset">>}]
    /\ inbox \in Seq(DoorEvents)
    /\ smooth \in BOOLEAN
    /\ heard \in SUBSET Controllers

(* The time that a controller needs at most, in stage s with t left of it,    *)
(* until it locks no more.                                                    *)
Ahead(s, t) == CASE s = "opening" -> t + 4
                 [] s \in {"entry", "closing"} -> t + 1
                 [] OTHER -> t

(* The controller at stage s of a request k is going to lock the door.        *)
Locks(s, k) == s \in {"entry", "closing", "locking"} \/ (s = "opening" /\ k = "safe")

(* The stages keep their time; a request that ends with a locked door has     *)
(* just started the daemon's timer; and the timer outlasts the controllers.   *)
TimesFit ==
    /\ \A x \in Controllers : left[x] <= StageTime[doors[x].stage]
    /\ \A x \in Controllers : commands[x] \in {<<"safe">>, <<"close">>} =>
                                  timer = {STATE_MACHINE_TIMEOUT}
    /\ \A x \in Controllers : \A t \in timer :
          Locks(doors[x].stage, doors[x].kind) => Ahead(doors[x].stage, left[x]) < t

(* What the finality of a timeout rests on, whatever fails.                   *)
TimesInv == PortalTypes /\ TimesFit /\ TimeoutFinal

-----------------------------------------------------------------------------
(* What holds while nothing fails and everybody acts in time.                 *)

(* None of the messages ms is one of those in X; the last one that is in X is *)
(* v; all that are in X are l; before an l there are only l in X.             *)
NoneOf(ms, X) == \A i \in 1 .. Len(ms) : ms[i] \notin X
LastIs(ms, X, v) == \A i \in 1 .. Len(ms) :
    ms[i] \in X /\ (\A j \in i + 1 .. Len(ms) : ms[j] \notin X) => ms[i] = v
AllAre(ms, X, l) == \A i \in 1 .. Len(ms) : ms[i] \in X => ms[i] = l
FirstAre(ms, X, l) == \A i \in 1 .. Len(ms) :
    ms[i] = l => \A j \in 1 .. i : ms[j] \in X => ms[j] = l

(* The message that the door x is locked.                                     *)
LockEvent(x) == StatusEvent(x, "LOCKED")

(* The daemon knows the door x, but for the messages under way, or has not    *)
(* heard of it yet; and a stage does not run out of time.                     *)
KnowsDoor(x) ==
    /\ LastIs(inbox, Of(x), StatusEvent(x, doors[x].door))
    /\ NoneOf(inbox, Of(x)) =>
          \/ Known(sm, x) = doors[x].door
          \/ Known(sm, x) = "UNOBSERVED" /\ x \notin heard /\ doors[x].seen = "CLOSED"
    /\ doors[x].stage # "idle" => left[x] >= 1

(* While the daemon waits for nothing, a door may still wait for somebody to  *)
(* come in.                                                                   *)
IdleDoor(x) ==
    /\ commands[x] = <<>>
    /\ \/ doors[x].stage = "idle"
       \/ doors[x].stage = "entry" /\ doors[x].door = "CLOSED" /\ doors[x].seen = "CLOSED"

(* While the shack is locked, a door that is locked stays so.                 *)
LockingDoor(x) ==
    /\ doors[x].seen = doors[x].door
    /\ \/ commands[x] = <<>>
       \/ commands[x] = <<"close">> /\ doors[x].stage = "idle" /\ timer = {6}
    /\ doors[x].stage \in {"idle", "closing", "locking"}
    /\ doors[x].stage = "idle" /\ commands[x] = <<>> => doors[x].door = "LOCKED"
    /\ doors[x].stage # "idle" => doors[x].door # "LOCKED"
    /\ doors[x].stage = "closing" => doors[x].door = "OPEN"
    /\ timer = {5} => left[x] <= 1
    /\ Known(sm, x) = "LOCKED" => doors[x].door = "LOCKED"
    /\ ~NoneOf(inbox, {LockEvent(x)}) => doors[x].door = "LOCKED"

(* While the shack is opened, a door that is not locked stays so.             *)
OpeningDoor(x) ==
    /\ doors[x].seen = doors[x].door
    /\ doors[x].stage = "opening" => doors[x].door = "LOCKED"
    /\ doors[x].door = "LOCKED" => Known(sm, x) = "LOCKED" /\ AllAre(inbox, Of(x), LockEvent(x))
    /\ ~NoneOf(inbox, {LockEvent(x)}) => Known(sm, x) = "LOCKED"
    /\ FirstAre(inbox, Of(x), LockEvent(x))

(* The door that the user was promised,                                       *)
FirstDoor(x) ==
    /\ \/ commands[x] = <<>>
       \/ commands[x] = <<"safe">> /\ doors[x].stage = "idle" /\ timer = {6}
    /\ doors[x].stage \in {"idle", "opening", "entry"}
    /\ doors[x].stage = "idle" /\ commands[x] = <<>> => doors[x].door # "LOCKED"
    /\ doors[x].stage = "opening" => doors[x].kind = "safe" /\ timer = {6}
    /\ doors[x].stage = "entry" => doors[x].door = "CLOSED" /\ timer = {3 + left[x]}

(* the other one,                                                             *)
OtherOf(x) == IF x = "B2" THEN "C2" ELSE "B2"

SecondDoor(y) ==
    /\ commands[y] \in {<<>>, <<"unsafe">>}
    /\ doors[y].stage \in {"idle", "opening"}
    /\ doors[y].stage = "opening" => doors[y].kind = "unsafe"

(* and both: when the daemon has heard that the user came in through x, the   *)
(* other door is not left locked.                                             *)
FollowsUp(x, y) ==
    /\ timer # {6}
    /\ x \in heard
    /\ doors[x].door = "OPEN"
    /\ NoneOf(inbox, Of(x))
    => ~(doors[y].stage = "idle" /\ doors[y].door = "LOCKED" /\ commands[y] = <<>>)

(* The daemon waits for somebody to come in through x.                        *)
Goal(x) == IF x = "B2" THEN "WAIT_FOR_OPEN_VIA_B" ELSE "WAIT_FOR_OPEN_VIA_C"

(* The daemon takes both doors to be at one of the positions K.               *)
BothKnown(m, K) == m.b2 \in K /\ m.c2 \in K

(* What holds while the daemon waits for nothing,                             *)
IdleInv == timer = {} /\ \A x \in Controllers : IdleDoor(x)

(* while it waits for both doors to be locked,                                *)
LockingInv ==
    /\ timer \in {{5}, {6}}
    /\ ~BothKnown(sm, {"LOCKED"})
    /\ \A x \in Controllers : LockingDoor(x)

(* and while it waits for somebody to come in through x.                      *)
OpeningInv(x) ==
    /\ timer \in {{4}, {5}, {6}}
    /\ ~BothKnown(sm, {"OPEN", "CLOSED"})
    /\ \A y \in Controllers : OpeningDoor(y)
    /\ FirstDoor(x)
    /\ SecondDoor(OtherOf(x))
    /\ FollowsUp(x, OtherOf(x))

(* All of it.                                                                 *)
SmoothInv ==
    /\ \A x \in Controllers : KnowsDoor(x)
    /\ sm.state = "IDLE" => IdleInv
    /\ sm.state = "WAIT_FOR_LOCKED" => LockingInv
    /\ \A x \in Controllers : sm.state = Goal(x) => OpeningInv(x)

(* The inductive invariant.                                                   *)
PortalInv == TimesInv /\ (smooth => SmoothInv) /\ CooperationSucceeds /\ LockedIsLocked

-----------------------------------------------------------------------------
(* The daemon: what the signals of an event amount to.                        *)

(* The signals in the sequence q.                                             *)
Sent(q) == {q[i] : i \in 1 .. Len(q)}

(* The signals in a sequence of none,                                         *)
LEMMA SentNone ==
    ASSUME NEW T
    PROVE  <<>> \in Seq(T) /\ Sent(<<>>) = {}
<1>1. <<>> \in Seq(T) /\ Len(<<>>) = 0 /\ 1 .. 0 = {}
  OBVIOUS
<1> QED
  BY <1>1 DEF Sent

(* one,                                                                       *)
LEMMA SentOne ==
    ASSUME NEW T, NEW a \in T
    PROVE  <<a>> \in Seq(T) /\ Sent(<<a>>) = {a}
<1>1. <<a>> \in Seq(T) /\ Len(<<a>>) = 1 /\ <<a>>[1] = a /\ 1 .. 1 = {1}
  OBVIOUS
<1> QED
  BY <1>1 DEF Sent

(* two,                                                                       *)
LEMMA SentTwo ==
    ASSUME NEW T, NEW a \in T, NEW b \in T
    PROVE  <<a, b>> \in Seq(T) /\ Sent(<<a, b>>) = {a, b}
<1>1. /\ <<a, b>> \in Seq(T) /\ Len(<<a, b>>) = 2
      /\ <<a, b>>[1] = a /\ <<a, b>>[2] = b /\ 1 .. 2 = {1, 2}
  OBVIOUS
<1> QED
  BY <1>1 DEF Sent

(* and three.                                                                 *)
LEMMA SentThree ==
    ASSUME NEW T, NEW a \in T, NEW b \in T, NEW c \in T
    PROVE  <<a, b, c>> \in Seq(T) /\ Sent(<<a, b, c>>) = {a, b, c}
<1>1. /\ <<a, b, c>> \in Seq(T) /\ Len(<<a, b, c>>) = 3
      /\ <<a, b, c>>[1] = a /\ <<a, b, c>>[2] = b /\ <<a, b, c>>[3] = c
      /\ 1 .. 3 = {1, 2, 3}
  OBVIOUS
<1> QED
  BY <1>1 DEF Sent

(* And in two sequences one after the other.                                  *)
LEMMA SentConcat ==
    ASSUME NEW T, NEW p \in Seq(T), NEW q \in Seq(T)
    PROVE  Sent(p \o q) = Sent(p) \cup Sent(q)
<1>1. /\ Len(p) \in Nat /\ Len(q) \in Nat
      /\ Len(p \o q) = Len(p) + Len(q)
      /\ \A i \in 1 .. Len(p) + Len(q) :
            (p \o q)[i] = IF i <= Len(p) THEN p[i] ELSE q[i - Len(p)]
  OBVIOUS
<1>2. ASSUME NEW i \in 1 .. Len(p)
      PROVE  p[i] \in Sent(p \o q)
  <2>1. i \in 1 .. Len(p) + Len(q) /\ (p \o q)[i] = p[i]
    BY <1>1
  <2> QED
    BY <1>1, <2>1 DEF Sent
<1>3. ASSUME NEW i \in 1 .. Len(q)
      PROVE  q[i] \in Sent(p \o q)
  <2>1. i + Len(p) \in 1 .. Len(p) + Len(q) /\ (p \o q)[i + Len(p)] = q[i]
    BY <1>1
  <2> QED
    BY <1>1, <2>1 DEF Sent
<1>4. ASSUME NEW i \in 1 .. Len(p \o q)
      PROVE  (p \o q)[i] \in Sent(p) \cup Sent(q)
  <2>1. CASE i <= Len(p)
    BY <1>1, <2>1 DEF Sent
  <2>2. CASE ~(i <= Len(p))
    <3>1. i - Len(p) \in 1 .. Len(q) /\ (p \o q)[i] = q[i - Len(p)]
      BY <1>1, <2>2
    <3> QED
      BY <3>1 DEF Sent
  <2> QED
    BY <2>1, <2>2
<1> QED
  BY <1>2, <1>3, <1>4 DEF Sent
(* The state of the shack after the event e.                                  *)
ShackAfter(e) == sm_get_shack_state(sm_change_door_state(sm, e))

(* The effect of an event for which the rules give the state st and the       *)
(* signals q.                                                                 *)
LEMMA Applied ==
    ASSUME NEW e, Applies(e), NEW st, NEW q \in Seq(SmSignals),
           Reaction(sm, e, ShackAfter(e)) = Outcome(st, q),
           "START_TIMEOUT" \in Sent(q) => "CANCEL_TIMEOUT" \notin Sent(q) /\ e # "TIMEOUT"
    PROVE  /\ sm' = [state |-> st, b2 |-> sm_change_door_state(sm, e).b2,
                     c2 |-> sm_change_door_state(sm, e).c2,
                     last_shack_state |-> ShackAfter(e)]
           /\ timer' = IF "START_TIMEOUT" \in Sent(q) THEN {STATE_MACHINE_TIMEOUT}
                       ELSE IF "CANCEL_TIMEOUT" \in Sent(q) \/ e = "TIMEOUT" THEN {}
                       ELSE timer
           /\ commands' = [x \in Controllers |-> CommandFor(x, Sent(q))]
           /\ told' = Sent(q) \cap {"LOCK_SUCCESSFUL", "OPEN_SUCCESSFUL",
                                    "USER_REQUESTED_TIMED_OUT"}
<1> DEFINE r  == sm_apply_event(sm, e)
           sc == IF ShackAfter(e) # sm.last_shack_state THEN <<"STATE_CHANGE">> ELSE <<>>
<1>1. Outcome(st, q).state = st /\ Outcome(st, q).signals = q
  BY DEF Outcome
<1>2. /\ r.sm = [state |-> st, b2 |-> sm_change_door_state(sm, e).b2,
                 c2 |-> sm_change_door_state(sm, e).c2,
                 last_shack_state |-> ShackAfter(e)]
      /\ r.signals = sc \o q
  BY <1>1 DEF sm_apply_event, ShackAfter
<1>3. "STATE_CHANGE" \in SmSignals
  BY DEF SmSignals
<1>4. sc \in Seq(SmSignals) /\ (Sent(sc) = {} \/ Sent(sc) = {"STATE_CHANGE"})
  <2>1. /\ <<>> \in Seq(SmSignals) /\ <<"STATE_CHANGE">> \in Seq(SmSignals)
        /\ Sent(<<>>) = {} /\ Sent(<<"STATE_CHANGE">>) = {"STATE_CHANGE"}
    BY <1>3, SentNone, SentOne
  <2> QED
    BY <2>1
<1> HIDE DEF sc
<1>5. Sent(r.signals) = Sent(sc) \cup Sent(q)
  BY <1>2, <1>4, SentConcat
<1>6. \A s \in {"START_TIMEOUT", "CANCEL_TIMEOUT", "OPEN_DOOR_B2_SAFE", "OPEN_DOOR_B2_UNSAFE",
                "OPEN_DOOR_C2_SAFE", "OPEN_DOOR_C2_UNSAFE", "LOCK_ALL", "LOCK_SUCCESSFUL",
                "OPEN_SUCCESSFUL", "USER_REQUESTED_TIMED_OUT"} :
          s \in Sent(r.signals) <=> s \in Sent(q)
  BY <1>4, <1>5
<1>7. ASSUME NEW x \in Controllers
      PROVE  CommandFor(x, Sent(r.signals)) = CommandFor(x, Sent(q))
  BY <1>6 DEF CommandFor, Controllers
<1>8. /\ sm' = r.sm
      /\ timer' = CASE "START_TIMEOUT" \in Sent(r.signals) -> {STATE_MACHINE_TIMEOUT}
                    [] "CANCEL_TIMEOUT" \in Sent(r.signals) \/ e = "TIMEOUT" -> {}
                    [] OTHER -> timer
      /\ commands' = [x \in Controllers |-> CommandFor(x, Sent(r.signals))]
      /\ told' = Sent(r.signals) \cap {"LOCK_SUCCESSFUL", "OPEN_SUCCESSFUL",
                                       "USER_REQUESTED_TIMED_OUT"}
  BY DEF Applies, Sent
<1> HIDE DEF r
<1>9. commands' = [x \in Controllers |-> CommandFor(x, Sent(q))]
  BY <1>7, <1>8
<1>10. told' = Sent(q) \cap {"LOCK_SUCCESSFUL", "OPEN_SUCCESSFUL", "USER_REQUESTED_TIMED_OUT"}
  BY <1>6, <1>8
<1>11. timer' = IF "START_TIMEOUT" \in Sent(q) THEN {STATE_MACHINE_TIMEOUT}
                ELSE IF "CANCEL_TIMEOUT" \in Sent(q) \/ e = "TIMEOUT" THEN {}
                ELSE timer
  BY <1>6, <1>8
<1> QED
  BY <1>2, <1>8, <1>9, <1>10, <1>11
(* What an event does: the machine goes to st, the timer to tm, the commands  *)
(* b and c are sent, and the users are told tl.                               *)
Does(st, tm, b, c, tl) ==
    /\ sm'.state = st
    /\ timer' = tm
    /\ commands' = [x \in Controllers |-> IF x = "B2" THEN b ELSE c]
    /\ told' = tl

(* What is known of the doors after it.                                       *)
Learns(e) == /\ sm' \in Machines
             /\ sm'.b2 = sm_change_door_state(sm, e).b2
             /\ sm'.c2 = sm_change_door_state(sm, e).c2

(* The machine keeps its type.                                                *)
LEMMA ShackTyped ==
    ASSUME NEW m \in Machines, NEW e
    PROVE  /\ sm_change_door_state(m, e) \in Machines
           /\ sm_get_shack_state(m) \in ShackValues
<1>1. sm_change_door_state(m, e) \in Machines
  BY DEF sm_change_door_state, Machines, DoorValues
<1>2. m.b2 \in DoorValues /\ m.c2 \in DoorValues
  BY DEF Machines
<1>3. sm_get_shack_state(m) \in ShackValues
  BY <1>2 DEF sm_get_shack_state, DoorValues, ShackValues
<1> QED
  BY <1>1, <1>3

(* A sequence of at most three signals, and what it does.                     *)
LEMMA AppliedDoes ==
    ASSUME PortalTypes, NEW e, Applies(e), NEW st \in States,
           NEW q \in Seq(SmSignals), Reaction(sm, e, ShackAfter(e)) = Outcome(st, q),
           "START_TIMEOUT" \in Sent(q) => "CANCEL_TIMEOUT" \notin Sent(q) /\ e # "TIMEOUT"
    PROVE  /\ Learns(e)
           /\ Does(st,
                   IF "START_TIMEOUT" \in Sent(q) THEN {STATE_MACHINE_TIMEOUT}
                   ELSE IF "CANCEL_TIMEOUT" \in Sent(q) \/ e = "TIMEOUT" THEN {}
                   ELSE timer,
                   CommandFor("B2", Sent(q)), CommandFor("C2", Sent(q)),
                   Sent(q) \cap {"LOCK_SUCCESSFUL", "OPEN_SUCCESSFUL",
                                 "USER_REQUESTED_TIMED_OUT"})
<1>1. sm \in Machines
  BY DEF PortalTypes
<1>2. sm_change_door_state(sm, e) \in Machines /\ ShackAfter(e) \in ShackValues
  BY <1>1, ShackTyped DEF ShackAfter
<1>3. sm' = [state |-> st, b2 |-> sm_change_door_state(sm, e).b2,
             c2 |-> sm_change_door_state(sm, e).c2, last_shack_state |-> ShackAfter(e)]
  BY Applied
<1>4. Learns(e) /\ sm'.state = st
  BY <1>2, <1>3 DEF Learns, Machines
<1>5. [x \in Controllers |-> CommandFor(x, Sent(q))]
        = [x \in Controllers |-> IF x = "B2" THEN CommandFor("B2", Sent(q))
                                             ELSE CommandFor("C2", Sent(q))]
  BY DEF Controllers
<1>6. commands' = [x \in Controllers |-> IF x = "B2" THEN CommandFor("B2", Sent(q))
                                                     ELSE CommandFor("C2", Sent(q))]
  BY <1>5, Applied
<1> QED
  BY <1>4, <1>6, Applied DEF Does

(* The events of a door.                                                      *)
LEMMA DoorEventDoes ==
    ASSUME PortalTypes, NEW e \in DoorEvents, Applies(e)
    PROVE  /\ Learns(e)
           /\ \/ /\ AutoClosed(sm, e)
                 /\ Does("WAIT_FOR_LOCKED", {STATE_MACHINE_TIMEOUT}, <<>>, <<>>, {})
              \/ /\ Entered(sm, e, ShackAfter(e))
                 /\ \/ /\ e = "DOOR_B2_OPENED"
                       /\ Does(sm.state, timer, <<>>, <<"unsafe">>, {})
                    \/ /\ e = "DOOR_C2_OPENED"
                       /\ Does(sm.state, timer, <<"unsafe">>, <<>>, {})
              \/ /\ Opened(sm, e, ShackAfter(e))
                 /\ Does("IDLE", {}, <<>>, <<>>, {"OPEN_SUCCESSFUL"})
              \/ /\ Locked(sm, e, ShackAfter(e))
                 /\ Does("IDLE", {}, <<>>, <<>>, {"LOCK_SUCCESSFUL"})
              \/ /\ ~AutoClosed(sm, e) /\ ~Entered(sm, e, ShackAfter(e))
                 /\ ~Opened(sm, e, ShackAfter(e)) /\ ~Locked(sm, e, ShackAfter(e))
                 /\ Does(sm.state, timer, <<>>, <<>>, {})
<1> DEFINE sh == ShackAfter(e)
<1>0. e # "TIMEOUT" /\ Reaction(sm, e, sh) = OnDoor(sm, e, sh)
  BY DEF Reaction, DoorEvents, Buttons, SshRequests, is_ssh_request, is_open_request
<1>00. sm.state \in States /\ "IDLE" \in States /\ "WAIT_FOR_LOCKED" \in States
  BY DEF PortalTypes, Machines, States
<1>1. CASE AutoClosed(sm, e)
             /\ OnDoor(sm, e, sh) = Outcome("WAIT_FOR_LOCKED", <<"START_TIMEOUT", "UNLOCK_TIMEOUT">>)
  <2> DEFINE q == <<"START_TIMEOUT", "UNLOCK_TIMEOUT">>
  <2>0. "START_TIMEOUT" \in SmSignals /\ "UNLOCK_TIMEOUT" \in SmSignals
    BY DEF SmSignals
  <2>1. q \in Seq(SmSignals) /\ Sent(q) = {"START_TIMEOUT", "UNLOCK_TIMEOUT"}
    BY <2>0, SentTwo
  <2> HIDE DEF q
  <2>2. CommandFor("B2", Sent(q)) = <<>> /\ CommandFor("C2", Sent(q)) = <<>>
    BY <2>1 DEF CommandFor
  <2> QED
    BY <1>0, <1>00, <1>1, <2>1, <2>2, AppliedDoes DEF q
<1>2. CASE Entered(sm, e, sh) /\ e = "DOOR_B2_OPENED"
             /\ OnDoor(sm, e, sh) = Outcome(sm.state, <<"OPEN_DOOR_C2_UNSAFE">>)
  <2> DEFINE q == <<"OPEN_DOOR_C2_UNSAFE">>
  <2>0. "OPEN_DOOR_C2_UNSAFE" \in SmSignals
    BY DEF SmSignals
  <2>1. q \in Seq(SmSignals) /\ Sent(q) = {"OPEN_DOOR_C2_UNSAFE"}
    BY <2>0, SentOne
  <2> HIDE DEF q
  <2>2. CommandFor("B2", Sent(q)) = <<>> /\ CommandFor("C2", Sent(q)) = <<"unsafe">>
    BY <2>1 DEF CommandFor
  <2>3. Sent(q) \cap {"LOCK_SUCCESSFUL", "OPEN_SUCCESSFUL", "USER_REQUESTED_TIMED_OUT"} = {}
    BY <2>1
  <2> QED
    BY <1>0, <1>00, <1>2, <2>1, <2>2, <2>3, AppliedDoes DEF q
<1>3. CASE Entered(sm, e, sh) /\ e = "DOOR_C2_OPENED"
             /\ OnDoor(sm, e, sh) = Outcome(sm.state, <<"OPEN_DOOR_B2_UNSAFE">>)
  <2> DEFINE q == <<"OPEN_DOOR_B2_UNSAFE">>
  <2>0. "OPEN_DOOR_B2_UNSAFE" \in SmSignals
    BY DEF SmSignals
  <2>1. q \in Seq(SmSignals) /\ Sent(q) = {"OPEN_DOOR_B2_UNSAFE"}
    BY <2>0, SentOne
  <2> HIDE DEF q
  <2>2. CommandFor("B2", Sent(q)) = <<"unsafe">> /\ CommandFor("C2", Sent(q)) = <<>>
    BY <2>1 DEF CommandFor
  <2>3. Sent(q) \cap {"LOCK_SUCCESSFUL", "OPEN_SUCCESSFUL", "USER_REQUESTED_TIMED_OUT"} = {}
    BY <2>1
  <2> QED
    BY <1>0, <1>00, <1>3, <2>1, <2>2, <2>3, AppliedDoes DEF q
<1>4. CASE Opened(sm, e, sh)
             /\ OnDoor(sm, e, sh) = Outcome("IDLE", <<"CANCEL_TIMEOUT", "OPEN_SUCCESSFUL">>)
  <2> DEFINE q == <<"CANCEL_TIMEOUT", "OPEN_SUCCESSFUL">>
  <2>0. "CANCEL_TIMEOUT" \in SmSignals /\ "OPEN_SUCCESSFUL" \in SmSignals
    BY DEF SmSignals
  <2>1. q \in Seq(SmSignals) /\ Sent(q) = {"CANCEL_TIMEOUT", "OPEN_SUCCESSFUL"}
    BY <2>0, SentTwo
  <2> HIDE DEF q
  <2>2. CommandFor("B2", Sent(q)) = <<>> /\ CommandFor("C2", Sent(q)) = <<>>
    BY <2>1 DEF CommandFor
  <2>3. Sent(q) \cap {"LOCK_SUCCESSFUL", "OPEN_SUCCESSFUL", "USER_REQUESTED_TIMED_OUT"} = {"OPEN_SUCCESSFUL"}
    BY <2>1
  <2> QED
    BY <1>0, <1>00, <1>4, <2>1, <2>2, <2>3, AppliedDoes DEF q
<1>5. CASE Locked(sm, e, sh)
             /\ OnDoor(sm, e, sh) = Outcome("IDLE", <<"CANCEL_TIMEOUT", "LOCK_SUCCESSFUL", "OPEN_DOOR_B">>)
  <2> DEFINE q == <<"CANCEL_TIMEOUT", "LOCK_SUCCESSFUL", "OPEN_DOOR_B">>
  <2>0. /\ "CANCEL_TIMEOUT" \in SmSignals /\ "LOCK_SUCCESSFUL" \in SmSignals
        /\ "OPEN_DOOR_B" \in SmSignals
    BY DEF SmSignals
  <2>1. q \in Seq(SmSignals) /\ Sent(q) = {"CANCEL_TIMEOUT", "LOCK_SUCCESSFUL", "OPEN_DOOR_B"}
    BY <2>0, SentThree
  <2> HIDE DEF q
  <2>2. CommandFor("B2", Sent(q)) = <<>> /\ CommandFor("C2", Sent(q)) = <<>>
    BY <2>1 DEF CommandFor
  <2>3. Sent(q) \cap {"LOCK_SUCCESSFUL", "OPEN_SUCCESSFUL", "USER_REQUESTED_TIMED_OUT"} = {"LOCK_SUCCESSFUL"}
    BY <2>1
  <2> QED
    BY <1>0, <1>00, <1>5, <2>1, <2>2, <2>3, AppliedDoes DEF q
<1>6. CASE ~AutoClosed(sm, e) /\ ~Entered(sm, e, sh) /\ ~Opened(sm, e, sh)
             /\ ~Locked(sm, e, sh)
             /\ OnDoor(sm, e, sh) = Outcome(sm.state, <<>>)
  <2> DEFINE q == <<>>
  <2>1. q \in Seq(SmSignals) /\ Sent(q) = {}
    BY SentNone
  <2> HIDE DEF q
  <2>2. CommandFor("B2", Sent(q)) = <<>> /\ CommandFor("C2", Sent(q)) = <<>>
    BY <2>1 DEF CommandFor
  <2>3. Sent(q) \cap {"LOCK_SUCCESSFUL", "OPEN_SUCCESSFUL", "USER_REQUESTED_TIMED_OUT"} = {}
    BY <2>1
  <2> QED
    BY <1>0, <1>00, <1>6, <2>1, <2>2, <2>3, AppliedDoes DEF q
<1>7. \/ AutoClosed(sm, e)
           /\ OnDoor(sm, e, sh) = Outcome("WAIT_FOR_LOCKED", <<"START_TIMEOUT", "UNLOCK_TIMEOUT">>)
      \/ Entered(sm, e, sh) /\ OnDoor(sm, e, sh) = Outcome(sm.state, <<OtherDoor(e)>>)
      \/ Opened(sm, e, sh)
           /\ OnDoor(sm, e, sh) = Outcome("IDLE", <<"CANCEL_TIMEOUT", "OPEN_SUCCESSFUL">>)
      \/ Locked(sm, e, sh)
           /\ OnDoor(sm, e, sh)
                = Outcome("IDLE", <<"CANCEL_TIMEOUT", "LOCK_SUCCESSFUL", "OPEN_DOOR_B">>)
      \/ /\ ~AutoClosed(sm, e) /\ ~Entered(sm, e, sh) /\ ~Opened(sm, e, sh)
         /\ ~Locked(sm, e, sh) /\ OnDoor(sm, e, sh) = Outcome(sm.state, <<>>)
  BY DEF OnDoor
<1>8. Entered(sm, e, sh) =>
        \/ e = "DOOR_B2_OPENED" /\ OtherDoor(e) = "OPEN_DOOR_C2_UNSAFE"
        \/ e = "DOOR_C2_OPENED" /\ OtherDoor(e) = "OPEN_DOOR_B2_UNSAFE"
  BY DEF Entered, OtherDoor
<1> HIDE DEF sh
<1>9. CASE Entered(sm, e, sh) /\ OnDoor(sm, e, sh) = Outcome(sm.state, <<OtherDoor(e)>>)
  <2>1. CASE e = "DOOR_B2_OPENED"
    BY <1>2, <1>8, <1>9, <2>1 DEF sh
  <2>2. CASE e = "DOOR_C2_OPENED"
    BY <1>3, <1>8, <1>9, <2>2 DEF sh
  <2> QED
    BY <1>8, <1>9, <2>1, <2>2
<1> QED
  BY <1>1, <1>4, <1>5, <1>6, <1>7, <1>9 DEF sh

(* A request or a button.                                                     *)
LEMMA RequestDoes ==
    ASSUME PortalTypes, NEW e \in SshRequests \cup Buttons, Applies(e)
    PROVE  /\ Learns(e)
           /\ \/ /\ sm.state = "IDLE" /\ sm_get_shack_state(sm) # "OPEN"
                 /\ \/ Does("WAIT_FOR_OPEN_VIA_B", {STATE_MACHINE_TIMEOUT}, <<"safe">>, <<>>, {})
                    \/ Does("WAIT_FOR_OPEN_VIA_C", {STATE_MACHINE_TIMEOUT}, <<>>, <<"safe">>, {})
              \/ /\ sm.state = "IDLE" /\ sm_get_shack_state(sm) # "LOCKED"
                 /\ Does("WAIT_FOR_LOCKED", {STATE_MACHINE_TIMEOUT}, <<"close">>, <<"close">>, {})
              \/ Does(sm.state, timer, <<>>, <<>>, {})
<1> DEFINE sh == ShackAfter(e)
<1>0. e # "TIMEOUT" /\ e \notin DoorEvents /\ sh = sm_get_shack_state(sm)
  BY DEF DoorEvents, Buttons, SshRequests, ShackAfter, sm_change_door_state
<1>00. /\ sm.state \in States /\ "IDLE" \in States /\ "WAIT_FOR_LOCKED" \in States
       /\ "WAIT_FOR_OPEN_VIA_B" \in States /\ "WAIT_FOR_OPEN_VIA_C" \in States
  BY DEF PortalTypes, Machines, States
<1>1. CASE sm.state = "IDLE" /\ sh # "OPEN"
             /\ Reaction(sm, e, sh) = Outcome("WAIT_FOR_OPEN_VIA_B", <<"START_TIMEOUT", "OPEN_DOOR_B2_SAFE", "OPEN_DOOR_B">>)
  <2> DEFINE q == <<"START_TIMEOUT", "OPEN_DOOR_B2_SAFE", "OPEN_DOOR_B">>
  <2>0. /\ "START_TIMEOUT" \in SmSignals /\ "OPEN_DOOR_B2_SAFE" \in SmSignals
        /\ "OPEN_DOOR_B" \in SmSignals
    BY DEF SmSignals
  <2>1. q \in Seq(SmSignals) /\ Sent(q) = {"START_TIMEOUT", "OPEN_DOOR_B2_SAFE", "OPEN_DOOR_B"}
    BY <2>0, SentThree
  <2> HIDE DEF q
  <2>2. CommandFor("B2", Sent(q)) = <<"safe">> /\ CommandFor("C2", Sent(q)) = <<>>
    BY <2>1 DEF CommandFor
  <2>3. Sent(q) \cap {"LOCK_SUCCESSFUL", "OPEN_SUCCESSFUL", "USER_REQUESTED_TIMED_OUT"} = {}
    BY <2>1
  <2> QED
    BY <1>0, <1>00, <1>1, <2>1, <2>2, <2>3, AppliedDoes DEF q
<1>2. CASE sm.state = "IDLE" /\ sh # "OPEN"
             /\ Reaction(sm, e, sh) = Outcome("WAIT_FOR_OPEN_VIA_C", <<"START_TIMEOUT", "OPEN_DOOR_C2_SAFE", "OPEN_DOOR_C">>)
  <2> DEFINE q == <<"START_TIMEOUT", "OPEN_DOOR_C2_SAFE", "OPEN_DOOR_C">>
  <2>0. /\ "START_TIMEOUT" \in SmSignals /\ "OPEN_DOOR_C2_SAFE" \in SmSignals
        /\ "OPEN_DOOR_C" \in SmSignals
    BY DEF SmSignals
  <2>1. q \in Seq(SmSignals) /\ Sent(q) = {"START_TIMEOUT", "OPEN_DOOR_C2_SAFE", "OPEN_DOOR_C"}
    BY <2>0, SentThree
  <2> HIDE DEF q
  <2>2. CommandFor("B2", Sent(q)) = <<>> /\ CommandFor("C2", Sent(q)) = <<"safe">>
    BY <2>1 DEF CommandFor
  <2>3. Sent(q) \cap {"LOCK_SUCCESSFUL", "OPEN_SUCCESSFUL", "USER_REQUESTED_TIMED_OUT"} = {}
    BY <2>1
  <2> QED
    BY <1>0, <1>00, <1>2, <2>1, <2>2, <2>3, AppliedDoes DEF q
<1>3. CASE sm.state = "IDLE" /\ sh # "LOCKED"
             /\ Reaction(sm, e, sh) = Outcome("WAIT_FOR_LOCKED", <<"START_TIMEOUT", "LOCK_ALL">>)
  <2> DEFINE q == <<"START_TIMEOUT", "LOCK_ALL">>
  <2>0. "START_TIMEOUT" \in SmSignals /\ "LOCK_ALL" \in SmSignals
    BY DEF SmSignals
  <2>1. q \in Seq(SmSignals) /\ Sent(q) = {"START_TIMEOUT", "LOCK_ALL"}
    BY <2>0, SentTwo
  <2> HIDE DEF q
  <2>2. CommandFor("B2", Sent(q)) = <<"close">> /\ CommandFor("C2", Sent(q)) = <<"close">>
    BY <2>1 DEF CommandFor
  <2>3. Sent(q) \cap {"LOCK_SUCCESSFUL", "OPEN_SUCCESSFUL", "USER_REQUESTED_TIMED_OUT"} = {}
    BY <2>1
  <2> QED
    BY <1>0, <1>00, <1>3, <2>1, <2>2, <2>3, AppliedDoes DEF q
<1>4. ASSUME NEW s \in {"OPEN_DOOR_B", "OPEN_DOOR_C", "NO_STATE_CHANGE", "CANNOT_HANDLE_REQUEST"},
             NEW s2 \in {"OPEN_DOOR_B", "CHANGE_KEYHOLDER"},
             Reaction(sm, e, sh) \in {Outcome(sm.state, <<>>), Outcome(sm.state, <<s>>),
                                      Outcome(sm.state, <<s, s2>>)}
      PROVE  Learns(e) /\ Does(sm.state, timer, <<>>, <<>>, {})
  <2>1. s \in SmSignals /\ s2 \in SmSignals
    BY DEF SmSignals
  <2>2. PICK q \in {<<>>, <<s>>, <<s, s2>>} : Reaction(sm, e, sh) = Outcome(sm.state, q)
    BY <1>4
  <2>3. q \in Seq(SmSignals) /\ Sent(q) \subseteq {s, s2}
    <3>1. /\ <<>> \in Seq(SmSignals) /\ <<s>> \in Seq(SmSignals) /\ <<s, s2>> \in Seq(SmSignals)
          /\ Sent(<<>>) = {} /\ Sent(<<s>>) = {s} /\ Sent(<<s, s2>>) = {s, s2}
      BY <2>1, SentNone, SentOne, SentTwo
    <3> QED
      BY <2>2, <3>1
  <2>4. Sent(q) \cap {"START_TIMEOUT", "CANCEL_TIMEOUT", "OPEN_DOOR_B2_SAFE",
                      "OPEN_DOOR_C2_SAFE", "OPEN_DOOR_B2_UNSAFE", "OPEN_DOOR_C2_UNSAFE",
                      "LOCK_ALL", "LOCK_SUCCESSFUL", "OPEN_SUCCESSFUL",
                      "USER_REQUESTED_TIMED_OUT"} = {}
    BY <2>3
  <2>5. CommandFor("B2", Sent(q)) = <<>> /\ CommandFor("C2", Sent(q)) = <<>>
    BY <2>4 DEF CommandFor
  <2>6. /\ "START_TIMEOUT" \notin Sent(q) /\ "CANCEL_TIMEOUT" \notin Sent(q)
        /\ Sent(q) \cap {"LOCK_SUCCESSFUL", "OPEN_SUCCESSFUL", "USER_REQUESTED_TIMED_OUT"} = {}
    BY <2>4
  <2>7. /\ Learns(e)
        /\ Does(sm.state,
                IF "START_TIMEOUT" \in Sent(q) THEN {STATE_MACHINE_TIMEOUT}
                ELSE IF "CANCEL_TIMEOUT" \in Sent(q) \/ e = "TIMEOUT" THEN {}
                ELSE timer,
                CommandFor("B2", Sent(q)), CommandFor("C2", Sent(q)),
                Sent(q) \cap {"LOCK_SUCCESSFUL", "OPEN_SUCCESSFUL",
                              "USER_REQUESTED_TIMED_OUT"})
    BY <1>00, <2>2, <2>3, <2>6, AppliedDoes DEF sh
  <2> QED
    BY <1>0, <2>5, <2>6, <2>7
<1>5. CASE e \in Buttons
  <2>1. Reaction(sm, e, sh) = OnButton(sm, e, sh)
    BY <1>5 DEF Reaction, DoorEvents, Buttons, SshRequests, is_ssh_request, is_open_request
  <2>2. \/ /\ sh = "LOCKED"
           /\ \E s \in {"OPEN_DOOR_B", "OPEN_DOOR_C"} :
                 OnButton(sm, e, sh) = Outcome(sm.state, <<s>>)
        \/ sh # "LOCKED" /\ sm.state = "IDLE" /\ OnButton(sm, e, sh) = StartClosing
        \/ OnButton(sm, e, sh) = Outcome(sm.state, <<>>)
    BY <1>5 DEF OnButton, is_close_request, Buttons
  <2> HIDE DEF sh
  <2> QED
    BY <1>0, <1>3, <1>4, <2>1, <2>2 DEF StartClosing, sh
<1>6. CASE e \in SshRequests /\ sm.state # "IDLE"
  <2>1. Reaction(sm, e, sh) = Outcome(sm.state, <<"CANNOT_HANDLE_REQUEST">>)
    BY <1>6 DEF Reaction, DoorEvents, Buttons, SshRequests, is_ssh_request, is_open_request
  <2> QED
    BY <1>4, <2>1
<1>7. CASE is_open_request(e) /\ sm.state = "IDLE"
  <2>1. Reaction(sm, e, sh) = OnOpenRequest(sm, e, sh)
    BY <1>7 DEF Reaction, DoorEvents, Buttons, SshRequests, is_ssh_request, is_open_request
  <2>2. \/ sh # "OPEN" /\ OnOpenRequest(sm, e, sh)
              = Outcome("WAIT_FOR_OPEN_VIA_B",
                        <<"START_TIMEOUT", "OPEN_DOOR_B2_SAFE", "OPEN_DOOR_B">>)
        \/ sh # "OPEN" /\ OnOpenRequest(sm, e, sh)
              = Outcome("WAIT_FOR_OPEN_VIA_C",
                        <<"START_TIMEOUT", "OPEN_DOOR_C2_SAFE", "OPEN_DOOR_C">>)
        \/ \E s \in {"OPEN_DOOR_B", "OPEN_DOOR_C"} :
              OnOpenRequest(sm, e, sh) = Outcome(sm.state, <<s, "CHANGE_KEYHOLDER">>)
    BY <1>7 DEF OnOpenRequest
  <2> HIDE DEF sh
  <2> QED
    BY <1>0, <1>1, <1>2, <1>4, <1>7, <2>1, <2>2 DEF sh
<1>8. CASE e = "SSH_CLOSE_REQUEST" /\ sm.state = "IDLE"
  <2>1. Reaction(sm, e, sh) = OnCloseRequest(sm, sh)
    BY <1>8 DEF Reaction, DoorEvents, Buttons, SshRequests, is_ssh_request, is_open_request
  <2>2. \/ sh # "LOCKED" /\ OnCloseRequest(sm, sh) = StartClosing
        \/ OnCloseRequest(sm, sh) = Outcome(sm.state, <<"NO_STATE_CHANGE", "OPEN_DOOR_B">>)
    BY <1>8 DEF OnCloseRequest
  <2> HIDE DEF sh
  <2> QED
    BY <1>0, <1>3, <1>4, <1>8, <2>1, <2>2 DEF StartClosing, sh
<1> QED
  BY <1>5, <1>6, <1>7, <1>8 DEF SshRequests, is_open_request

(* The timeout.                                                               *)
LEMMA TimeoutDoes ==
    ASSUME PortalTypes, Applies("TIMEOUT")
    PROVE  /\ Learns("TIMEOUT")
           /\ \/ /\ sm.state # "IDLE"
                 /\ Does("IDLE", {}, <<>>, <<>>, {"USER_REQUESTED_TIMED_OUT"})
              \/ sm.state = "IDLE" /\ Does("IDLE", {}, <<>>, <<>>, {})
<1> DEFINE e == "TIMEOUT"
           sh == ShackAfter(e)
<1>0. Applies(e)
  OBVIOUS
<1>00. /\ sm.state \in States /\ "IDLE" \in States
  BY DEF PortalTypes, Machines, States
<1>1. CASE sm.state # "IDLE"
             /\ Reaction(sm, e, sh) = Outcome("IDLE", <<"USER_REQUESTED_TIMED_OUT">>)
  <2> DEFINE q == <<"USER_REQUESTED_TIMED_OUT">>
  <2>0. "USER_REQUESTED_TIMED_OUT" \in SmSignals
    BY DEF SmSignals
  <2>1. q \in Seq(SmSignals) /\ Sent(q) = {"USER_REQUESTED_TIMED_OUT"}
    BY <2>0, SentOne
  <2> HIDE DEF q
  <2>2. CommandFor("B2", Sent(q)) = <<>> /\ CommandFor("C2", Sent(q)) = <<>>
    BY <2>1 DEF CommandFor
  <2>3. Sent(q) \cap {"LOCK_SUCCESSFUL", "OPEN_SUCCESSFUL", "USER_REQUESTED_TIMED_OUT"} = {"USER_REQUESTED_TIMED_OUT"}
    BY <2>1
  <2> QED
    BY <1>0, <1>00, <1>1, <2>1, <2>2, <2>3, AppliedDoes DEF q
<1>2. CASE sm.state = "IDLE"
             /\ Reaction(sm, e, sh) = Outcome("IDLE", <<>>)
  <2> DEFINE q == <<>>
  <2>1. q \in Seq(SmSignals) /\ Sent(q) = {}
    BY SentNone
  <2> HIDE DEF q
  <2>2. CommandFor("B2", Sent(q)) = <<>> /\ CommandFor("C2", Sent(q)) = <<>>
    BY <2>1 DEF CommandFor
  <2>3. Sent(q) \cap {"LOCK_SUCCESSFUL", "OPEN_SUCCESSFUL", "USER_REQUESTED_TIMED_OUT"} = {}
    BY <2>1
  <2> QED
    BY <1>0, <1>00, <1>2, <2>1, <2>2, <2>3, AppliedDoes DEF q
<1>3. \/ sm.state # "IDLE"
           /\ Reaction(sm, e, sh) = Outcome("IDLE", <<"USER_REQUESTED_TIMED_OUT">>)
      \/ sm.state = "IDLE" /\ Reaction(sm, e, sh) = Outcome("IDLE", <<>>)
  BY DEF Reaction, DoorEvents, Buttons, SshRequests, is_ssh_request, is_open_request
<1> HIDE DEF sh
<1> QED
  BY <1>1, <1>2, <1>3
-----------------------------------------------------------------------------
(* The controllers: the records that DoorService goes through.                *)

(* A controller that has just published a status, or not.                     *)
Published == [door: {"OPEN", "CLOSED", "LOCKED"}, seen: {"OPEN", "CLOSED", "LOCKED"},
              stage: {"idle", "opening", "entry", "closing", "locking"},
              kind: {"safe", "unsafe", "close", "none"},
              status: {"none", "OPEN", "CLOSED", "LOCKED"}]

(* A controller starts,                                                       *)
LEMMA StartedIs ==
    ASSUME NEW x, NEW p \in {"OPEN", "CLOSED", "LOCKED"}
    PROVE  /\ S(x)!Started(p, "none") \in Services
           /\ S(x)!Started(p, "none").door = p
           /\ S(x)!Started(p, "none").seen = "CLOSED"
           /\ S(x)!Started(p, "none").stage = "idle"
           /\ S(x)!Started(p, "none").kind = "none"
BY DEF S!Started, Services

(* is reset,                                                                  *)
LEMMA RestartedIs ==
    ASSUME NEW x, NEW r \in Services
    PROVE  /\ S(x)!Restarted(r) \in Services
           /\ S(x)!Restarted(r).door = r.door
           /\ S(x)!Restarted(r).seen = "CLOSED"
           /\ S(x)!Restarted(r).stage = "idle"
           /\ S(x)!Restarted(r).kind = "none"
BY DEF S!Restarted, S!Started, Services

(* takes up a command,                                                        *)
LEMMA AcceptedIs ==
    ASSUME NEW x, NEW r \in Services, NEW k \in {"safe", "unsafe", "close"}
    PROVE  /\ S(x)!Accepted(r, k) \in Services
           /\ S(x)!Accepted(r, k).door = r.door
           /\ S(x)!Accepted(r, k).seen = r.seen
           /\ S(x)!Accepted(r, k).kind = k
           /\ S(x)!Accepted(r, k).stage = IF k # "close" THEN "opening"
                                          ELSE IF r.seen = "OPEN" THEN "closing" ELSE "locking"
BY DEF S!Accepted, Services

(* waits no longer,                                                           *)
LEMMA AfterTimeoutIs ==
    ASSUME NEW x, NEW r \in Services
    PROVE  /\ S(x)!AfterTimeout(r) \in Services
           /\ S(x)!AfterTimeout(r).door = r.door
           /\ S(x)!AfterTimeout(r).seen = r.seen
           /\ S(x)!AfterTimeout(r).stage = IF r.stage = "entry" THEN "locking" ELSE "idle"
BY DEF S!AfterTimeout, S!AtStage, Services

(* finds the door moved,                                                      *)
LEMMA MovedIs ==
    ASSUME NEW x, NEW r \in Services, NEW q \in S(x)!Moved(r)
    PROVE  /\ q \in Services
           /\ q.seen = r.seen /\ q.stage = r.stage /\ q.kind = r.kind
           /\ q.door # r.door /\ (q.door = "CLOSED" \/ r.door = "CLOSED")
BY DEF S!Moved, Services

(* or reads it.                                                               *)
LEMMA ReadingIs ==
    ASSUME NEW x, NEW r \in Services, NEW q \in S(x)!Readings(r)
    PROVE  /\ q \in Published
           /\ q.door = r.door /\ q.seen = r.door
           /\ q.stage \in S(x)!AfterReading(r)
           /\ q.kind = IF q.stage = "idle" THEN "none" ELSE r.kind
<1>1. PICK s \in S(x)!AfterReading(r), status \in {r.door, r.status} :
         q = S(x)!ReadAt(r, s, status)
  BY DEF S!Readings
<1>2. /\ r.door \in {"OPEN", "CLOSED", "LOCKED"} /\ r.kind \in {"safe", "unsafe", "close", "none"}
      /\ r.stage \in {"idle", "opening", "entry", "closing", "locking"}
      /\ r.status = "none"
  BY DEF Services
<1>3. s \in {"idle", "opening", "entry", "closing", "locking"}
  BY <1>2 DEF S!AfterReading
<1>4. status \in {"none", "OPEN", "CLOSED", "LOCKED"}
  BY <1>2
<1> QED
  BY <1>1, <1>2, <1>3, <1>4 DEF S!ReadAt, S!AtStage, Services, Published

(* What a reading leads to.                                                   *)
LEMMA AfterReadingIs ==
    ASSUME NEW x, NEW r \in Services, NEW s \in S(x)!AfterReading(r)
    PROVE  \/ s = r.stage
           \/ /\ r.stage = "opening" /\ r.door # r.seen /\ r.door # "LOCKED"
              /\ s = IF r.door = "CLOSED" /\ r.kind = "safe" THEN "entry" ELSE "idle"
           \/ r.stage = "entry" /\ r.door = "OPEN" /\ r.door # r.seen /\ s = "idle"
           \/ r.stage = "closing" /\ r.door = "CLOSED" /\ r.door # r.seen /\ s = "locking"
           \/ r.stage = "locking" /\ r.door = "LOCKED" /\ r.door # r.seen /\ s = "idle"
BY DEF S!AfterReading, Services

(* The controller x goes to the record r.                                     *)
LEMMA BecomesIs ==
    ASSUME PortalTypes, NEW x \in Controllers, NEW r \in Published, Becomes(x, r)
    PROVE  /\ doors' \in [Controllers -> Services] /\ left' \in [Controllers -> Nat]
           /\ doors'[x].door = r.door /\ doors'[x].seen = r.seen
           /\ doors'[x].stage = r.stage /\ doors'[x].kind = r.kind
           /\ left'[x] = IF r.stage = doors[x].stage THEN left[x] ELSE StageTime[r.stage]
           /\ \A y \in Controllers : y # x => doors'[y] = doors[y] /\ left'[y] = left[y]
<1>1. [r EXCEPT !.status = "none"] \in Services
  BY DEF Published, Services
<1>2. StageTime[r.stage] \in Nat
  BY DEF Published, StageTime
<1>3. doors' \in [Controllers -> Services] /\ left' \in [Controllers -> Nat]
  BY <1>1, <1>2 DEF PortalTypes, Becomes
<1>4. doors'[x] = [r EXCEPT !.status = "none"]
  BY DEF PortalTypes, Becomes
<1>5. /\ doors'[x].door = r.door /\ doors'[x].seen = r.seen
      /\ doors'[x].stage = r.stage /\ doors'[x].kind = r.kind
  BY <1>4 DEF Published
<1>6. left'[x] = IF r.stage = doors[x].stage THEN left[x] ELSE StageTime[r.stage]
  BY DEF PortalTypes, Becomes
<1>7. \A y \in Controllers : y # x => doors'[y] = doors[y] /\ left'[y] = left[y]
  BY DEF PortalTypes, Becomes
<1> QED
  BY <1>3, <1>5, <1>6, <1>7
-----------------------------------------------------------------------------
(* The timeouts fit together.                                                 *)

(* The stages and their times.                                                *)
LEMMA StageTimes ==
    /\ StageTime["idle"] = 0 /\ StageTime["opening"] = 1 /\ StageTime["entry"] = 3
    /\ StageTime["closing"] = 2 /\ StageTime["locking"] = 1
BY DEF StageTime

(* No controller is busy longer than the daemon waits.                        *)
LEMMA AheadBound ==
    ASSUME NEW s \in {"idle", "opening", "entry", "closing", "locking"},
           NEW t \in Nat, t <= StageTime[s]
    PROVE  Ahead(s, t) \in Nat /\ Ahead(s, t) < STATE_MACHINE_TIMEOUT
BY StageTimes DEF Ahead, STATE_MACHINE_TIMEOUT

(* Nothing was told.                                                          *)
LEMMA NothingTold == told' = {} => TimeoutFinal'
BY DEF TimeoutFinal

(* A step of a controller.                                                    *)
LEMMA ControllerTimes ==
    ASSUME TimesInv, NEW x \in Controllers, NEW r \in Published, Becomes(x, r),
           commands' = commands \/ commands' = [commands EXCEPT ![x] = <<>>],
           inbox' \in Seq(DoorEvents), heard' \in SUBSET Controllers,
           \A t \in timer : Locks(r.stage, r.kind) =>
               Ahead(r.stage, IF r.stage = doors[x].stage THEN left[x]
                              ELSE StageTime[r.stage]) < t
    PROVE  TimesInv'
<1>0. PortalTypes /\ TimesFit
  BY DEF TimesInv
<1>1. told' = {} /\ sm' = sm /\ timer' = timer /\ smooth' = smooth
  BY DEF Becomes
<1>2. /\ doors' \in [Controllers -> Services] /\ left' \in [Controllers -> Nat]
      /\ doors'[x].stage = r.stage /\ doors'[x].kind = r.kind
      /\ left'[x] = IF r.stage = doors[x].stage THEN left[x] ELSE StageTime[r.stage]
      /\ \A y \in Controllers : y # x => doors'[y] = doors[y] /\ left'[y] = left[y]
  BY <1>0, BecomesIs
<1>3. commands' \in [Controllers -> {<<>>, <<"safe">>, <<"unsafe">>, <<"close">>, <<"reset">>}]
  BY <1>0 DEF PortalTypes
<1>4. \A y \in Controllers : commands'[y] = commands[y] \/ commands'[y] = <<>>
  BY <1>0 DEF PortalTypes
<1>5. PortalTypes'
  BY <1>0, <1>1, <1>2, <1>3 DEF PortalTypes
<1>6. r.stage \in {"idle", "opening", "entry", "closing", "locking"}
  BY DEF Published
<1>7. \A y \in Controllers : left'[y] <= StageTime[doors'[y].stage]
  <2>1. left[x] <= StageTime[doors[x].stage]
    BY <1>0 DEF TimesFit
  <2>2. left'[x] <= StageTime[doors'[x].stage]
    BY <1>2, <1>6, <2>1, StageTimes
  <2> QED
    BY <1>0, <1>2, <2>2 DEF TimesFit
<1>8. \A y \in Controllers : commands'[y] \in {<<"safe">>, <<"close">>} =>
                                 timer' = {STATE_MACHINE_TIMEOUT}
  <2>1. <<>> \notin {<<"safe">>, <<"close">>}
    OBVIOUS
  <2> QED
    BY <1>0, <1>1, <1>4, <2>1 DEF TimesFit
<1>9. \A y \in Controllers : \A t \in timer' :
         Locks(doors'[y].stage, doors'[y].kind) => Ahead(doors'[y].stage, left'[y]) < t
  BY <1>0, <1>1, <1>2 DEF TimesFit
<1> QED
  BY <1>1, <1>5, <1>7, <1>8, <1>9, NothingTold DEF TimesInv, TimesFit
(* A record of Services is one of Published.                                  *)
LEMMA ServicesPublished == Services \subseteq Published
BY DEF Services, Published

(* A command that arrives is the only one.                                    *)
LEMMA CommandIs ==
    ASSUME PortalTypes, NEW x \in Controllers, commands[x] # <<>>
    PROVE  /\ Head(commands[x]) \in {"safe", "unsafe", "close", "reset"}
           /\ commands[x] = <<Head(commands[x])>>
           /\ [commands EXCEPT ![x] = Tail(@)] = [commands EXCEPT ![x] = <<>>]
<1>1. commands[x] \in {<<"safe">>, <<"unsafe">>, <<"close">>, <<"reset">>}
  BY DEF PortalTypes
<1>2. PICK k \in {"safe", "unsafe", "close", "reset"} : commands[x] = <<k>>
  BY <1>1
<1>3. Head(<<k>>) = k /\ Tail(<<k>>) = <<>>
  OBVIOUS
<1> QED
  BY <1>2, <1>3

(* A command reaches its controller, and the timeouts still fit.              *)
LEMMA CommandTimes ==
    ASSUME TimesInv, NEW x \in Controllers, CommandArrives(x)
    PROVE  TimesInv'
<1>0. PortalTypes /\ TimesFit
  BY DEF TimesInv
<1> DEFINE k == Head(commands[x])
           r == IF k = "reset" THEN S(x)!Restarted(doors[x])
                ELSE IF S(x)!Takes(doors[x], k) THEN S(x)!Accepted(doors[x], k)
                ELSE doors[x]
<1>1. Becomes(x, r) /\ commands[x] # <<>> /\ inbox' = inbox /\ heard' = heard
  BY DEF CommandArrives
<1>2. k \in {"safe", "unsafe", "close", "reset"} /\ commands[x] = <<k>>
  BY <1>0, <1>1, CommandIs
<1>3. commands' = [commands EXCEPT ![x] = <<>>]
  BY <1>0, <1>1, CommandIs DEF CommandArrives
<1>4. doors[x] \in Services
  BY <1>0 DEF PortalTypes
<1> HIDE DEF k
<1>5. r \in Services
  BY <1>2, <1>4, RestartedIs, AcceptedIs
<1>6. \A t \in timer : Locks(r.stage, r.kind) =>
         Ahead(r.stage, IF r.stage = doors[x].stage THEN left[x] ELSE StageTime[r.stage]) < t
  <2>1. CASE k = "reset"
    <3>1. r.stage = "idle"
      BY <1>4, <2>1, RestartedIs
    <3> QED
      BY <3>1 DEF Locks
  <2>2. CASE k # "reset" /\ S(x)!Takes(doors[x], k)
    <3>1. k \in {"safe", "unsafe", "close"}
      BY <1>2, <2>2
    <3>2. r = S(x)!Accepted(doors[x], k)
      BY <2>2
    <3>3. r.kind = k /\ doors[x].stage = "idle" /\ (k # "close" <=> r.stage = "opening")
                     /\ r.stage \in {"opening", "closing", "locking"}
      BY <1>4, <2>2, <3>1, <3>2, AcceptedIs DEF S!Takes
    <3> HIDE DEF r
    <3>4. k = "unsafe" => ~Locks(r.stage, r.kind)
      BY <3>3 DEF Locks
    <3>5. k # "unsafe" => timer = {STATE_MACHINE_TIMEOUT}
      BY <1>0, <1>2, <3>1 DEF TimesFit
    <3>6. StageTime[r.stage] \in Nat /\ StageTime[r.stage] <= StageTime[r.stage]
      BY <3>3, StageTimes
    <3>7. Ahead(r.stage, StageTime[r.stage]) < STATE_MACHINE_TIMEOUT
      BY <3>3, <3>6, AheadBound
    <3> QED
      BY <3>3, <3>4, <3>5, <3>7
  <2>3. CASE k # "reset" /\ ~S(x)!Takes(doors[x], k)
    <3>1. r = doors[x]
      BY <2>3
    <3> HIDE DEF r
    <3> QED
      BY <1>0, <3>1 DEF TimesFit
  <2> QED
    BY <2>1, <2>2, <2>3
<1> HIDE DEF r
<1>7. inbox' \in Seq(DoorEvents) /\ heard' \in SUBSET Controllers
  BY <1>0, <1>1 DEF PortalTypes
<1> QED
  BY <1>1, <1>3, <1>5, <1>6, <1>7, ServicesPublished, ControllerTimes

(* A position is told by one of the events of its door.                       *)
LEMMA StatusEventIs ==
    ASSUME NEW x \in Controllers, NEW p \in {"OPEN", "CLOSED", "LOCKED"}
    PROVE  StatusEvent(x, p) \in DoorEvents /\ StatusEvent(x, p) \in Of(x)
<1>1. StatusEvent(x, p) \in DoorEvents
  BY DEF StatusEvent, DoorEvents, Controllers
<1> QED
  BY <1>1 DEF Of

(* A reading of a record that differs from doors[x] in the door only.         *)
LEMMA ReadsTimes ==
    ASSUME TimesInv, NEW x \in Controllers, NEW b \in Services, Reads(x, b),
           b.stage = doors[x].stage, b.kind = doors[x].kind
    PROVE  TimesInv'
<1>0. PortalTypes /\ TimesFit
  BY DEF TimesInv
<1>1. PICK r \in S(x)!Readings(b) : Becomes(x, r)
  BY DEF Reads
<1>2. r \in Published /\ r.stage \in S(x)!AfterReading(b) /\ (r.stage # "idle" => r.kind = b.kind)
  BY <1>1, ReadingIs
<1>3. /\ doors[x].stage \in {"idle", "opening", "entry", "closing", "locking"}
      /\ left[x] \in Nat
  BY <1>0 DEF PortalTypes, Services
<1>4. \A t \in timer : t \in Nat
  BY <1>0 DEF PortalTypes, STATE_MACHINE_TIMEOUT
<1>5. ASSUME NEW t \in timer, Locks(r.stage, r.kind)
      PROVE  Ahead(r.stage, IF r.stage = doors[x].stage THEN left[x] ELSE StageTime[r.stage]) < t
  <2>1. r.stage # "idle" /\ r.kind = doors[x].kind
    BY <1>2, <1>5 DEF Locks
  <2>2. Locks(doors[x].stage, doors[x].kind) => Ahead(doors[x].stage, left[x]) < t
    BY <1>0 DEF TimesFit
  <2>3. \/ r.stage = doors[x].stage
        \/ doors[x].stage = "opening" /\ r.stage = "entry" /\ doors[x].kind = "safe"
        \/ doors[x].stage = "closing" /\ r.stage = "locking"
    BY <1>2, <2>1, AfterReadingIs
  <2> QED
    BY <1>3, <1>4, <1>5, <2>1, <2>2, <2>3, StageTimes DEF Ahead, Locks
<1>6. inbox' \in Seq(DoorEvents) /\ heard' \in SUBSET Controllers /\ commands' = commands
  <2>1. b.door \in {"OPEN", "CLOSED", "LOCKED"}
    BY DEF Services
  <2>2. StatusEvent(x, b.door) \in DoorEvents
    BY <2>1, StatusEventIs
  <2>3. inbox' = inbox \/ inbox' = Append(inbox, StatusEvent(x, b.door))
    BY DEF Reads
  <2>4. inbox' \in Seq(DoorEvents)
    <3>1. inbox \in Seq(DoorEvents)
      BY <1>0 DEF PortalTypes
    <3>2. Append(inbox, StatusEvent(x, b.door)) \in Seq(DoorEvents)
      BY <2>2, <3>1, AppendProperties
    <3> QED
      BY <2>3, <3>1, <3>2
  <2>5. heard' = heard \cup {x} \/ heard' = heard
    BY DEF Reads
  <2> QED
    BY <1>0, <2>4, <2>5 DEF PortalTypes, Reads
<1> QED
  BY <1>1, <1>2, <1>5, <1>6, ControllerTimes

(* So does what a controller, or somebody at its door, does.                  *)
LEMMA OwnStepTimes ==
    ASSUME TimesInv, NEW x \in Controllers,
           DoorReads(x) \/ DoorMoves(x) \/ StageEnds(x) \/ ControllerRestarts(x)
    PROVE  TimesInv'
<1>0. PortalTypes /\ TimesFit /\ doors[x] \in Services
  BY DEF TimesInv, PortalTypes
<1>1. CASE DoorReads(x)
  BY <1>0, <1>1, ReadsTimes DEF DoorReads
<1>2. CASE DoorMoves(x)
  <2>1. PICK b \in S(x)!Moved(doors[x]) : Reads(x, b)
    BY <1>2 DEF DoorMoves
  <2>2. b \in Services /\ b.stage = doors[x].stage /\ b.kind = doors[x].kind
    BY <1>0, <2>1, MovedIs
  <2> QED
    BY <2>1, <2>2, ReadsTimes
<1>3. CASE StageEnds(x)
  <2> DEFINE r == S(x)!AfterTimeout(doors[x])
  <2>1. /\ Becomes(x, r) /\ left[x] = 0
        /\ commands' = commands /\ inbox' = inbox /\ heard' = heard
    BY <1>3 DEF StageEnds
  <2>2. r \in Services /\ r.stage = IF doors[x].stage = "entry" THEN "locking" ELSE "idle"
    BY <1>0, AfterTimeoutIs
  <2> HIDE DEF r
  <2>3. \A t \in timer : t \in Nat
    BY <1>0 DEF PortalTypes, STATE_MACHINE_TIMEOUT
  <2>4. ASSUME NEW t \in timer, Locks(r.stage, r.kind)
        PROVE  Ahead(r.stage, IF r.stage = doors[x].stage THEN left[x] ELSE StageTime[r.stage]) < t
    <3>1. doors[x].stage = "entry" /\ r.stage = "locking"
      BY <2>2, <2>4 DEF Locks
    <3>2. Locks("entry", doors[x].kind)
      BY DEF Locks
    <3>3. Ahead("entry", 0) < t
      BY <1>0, <2>1, <3>1, <3>2 DEF TimesFit
    <3> QED
      BY <2>3, <3>1, <3>3, StageTimes DEF Ahead
  <2>5. inbox' \in Seq(DoorEvents) /\ heard' \in SUBSET Controllers
    BY <1>0, <2>1 DEF PortalTypes
  <2> QED
    BY <2>1, <2>2, <2>4, <2>5, ServicesPublished, ControllerTimes
<1>4. CASE ControllerRestarts(x)
  <2> DEFINE r == S(x)!Restarted(doors[x])
  <2>1. Becomes(x, r) /\ commands' = commands /\ inbox' = inbox /\ heard' = heard
    BY <1>4 DEF ControllerRestarts
  <2>2. r \in Services /\ r.stage = "idle"
    BY <1>0, RestartedIs
  <2> HIDE DEF r
  <2>3. ~Locks(r.stage, r.kind)
    BY <2>2 DEF Locks
  <2>4. inbox' \in Seq(DoorEvents) /\ heard' \in SUBSET Controllers
    BY <1>0, <2>1 DEF PortalTypes
  <2> QED
    BY <2>1, <2>2, <2>3, <2>4, ServicesPublished, ControllerTimes
<1> QED
  BY <1>1, <1>2, <1>3, <1>4
(* A step of the daemon: the doors are as before, and the timer keeps, stops  *)
(* or starts.                                                                 *)
LEMMA DaemonTimes ==
    ASSUME TimesInv, doors' = doors, left' = left, smooth' = smooth, heard' = heard,
           sm' \in Machines, inbox' \in Seq(DoorEvents),
           commands' \in [Controllers -> {<<>>, <<"safe">>, <<"unsafe">>, <<"close">>, <<"reset">>}],
           timer' \in {timer, {}, {STATE_MACHINE_TIMEOUT}},
           \A x \in Controllers : commands'[x] \in {<<"safe">>, <<"close">>} =>
               timer' = {STATE_MACHINE_TIMEOUT},
           TimeoutFinal'
    PROVE  TimesInv'
<1>0. PortalTypes /\ TimesFit
  BY DEF TimesInv
<1>1. STATE_MACHINE_TIMEOUT \in 0 .. STATE_MACHINE_TIMEOUT
  BY DEF STATE_MACHINE_TIMEOUT
<1>2. timer' = {} \/ \E t \in 0 .. STATE_MACHINE_TIMEOUT : timer' = {t}
  BY <1>0, <1>1 DEF PortalTypes
<1>3. PortalTypes'
  BY <1>0, <1>2 DEF PortalTypes
<1>4. ASSUME NEW x \in Controllers, NEW t \in timer',
             Locks(doors[x].stage, doors[x].kind)
      PROVE  Ahead(doors[x].stage, left[x]) < t
  <2>1. CASE t \in timer
    BY <1>0, <1>4, <2>1 DEF TimesFit
  <2>2. CASE t = STATE_MACHINE_TIMEOUT
    <3>1. /\ doors[x].stage \in {"idle", "opening", "entry", "closing", "locking"}
          /\ left[x] \in Nat /\ left[x] <= StageTime[doors[x].stage]
      BY <1>0 DEF PortalTypes, Services, TimesFit
    <3> QED
      BY <2>2, <3>1, AheadBound
  <2> QED
    BY <1>4, <2>1, <2>2
<1> QED
  BY <1>0, <1>3, <1>4 DEF TimesInv, TimesFit

(* The commands of an event.                                                  *)
LEMMA DoesCommands ==
    ASSUME NEW st, NEW tm, NEW tl,
           NEW b \in {<<>>, <<"safe">>, <<"unsafe">>, <<"close">>, <<"reset">>},
           NEW c \in {<<>>, <<"safe">>, <<"unsafe">>, <<"close">>, <<"reset">>},
           Does(st, tm, b, c, tl)
    PROVE  /\ commands' \in [Controllers -> {<<>>, <<"safe">>, <<"unsafe">>, <<"close">>, <<"reset">>}]
           /\ commands'["B2"] = b /\ commands'["C2"] = c
           /\ \A x \in Controllers : commands'[x] \in {b, c}
BY DEF Does, Controllers

(* An event that is not the timeout.                                          *)
LEMMA EventTimes ==
    ASSUME TimesInv, NEW e \in SshRequests \cup Buttons \cup DoorEvents, Applies(e),
           doors' = doors, left' = left, smooth' = smooth, heard' = heard,
           inbox' \in Seq(DoorEvents)
    PROVE  TimesInv'
<1> DEFINE C == {<<>>, <<"safe">>, <<"unsafe">>, <<"close">>, <<"reset">>}
           T == STATE_MACHINE_TIMEOUT
<1>0. PortalTypes
  BY DEF TimesInv
<1>1. ASSUME NEW st, NEW tm, NEW b, NEW c, NEW tl,
             tm \in {timer, {}, {T}}, b \in C, c \in C,
             tl \in {{}, {"LOCK_SUCCESSFUL"}, {"OPEN_SUCCESSFUL"}},
             Learns(e), Does(st, tm, b, c, tl),
             tm = {T} \/ (b \in {<<>>, <<"unsafe">>} /\ c \in {<<>>, <<"unsafe">>})
      PROVE  TimesInv'
  <2>1. commands' \in [Controllers -> C] /\ \A x \in Controllers : commands'[x] \in {b, c}
    BY <1>1, DoesCommands
  <2>2. timer' = tm /\ told' = tl /\ sm' \in Machines
    BY <1>1 DEF Does, Learns
  <2>3. TimeoutFinal'
    BY <1>1, <2>2 DEF TimeoutFinal
  <2>4. \A x \in Controllers : commands'[x] \in {<<"safe">>, <<"close">>} => timer' = {T}
    <3>1. /\ <<>> \notin {<<"safe">>, <<"close">>}
          /\ <<"unsafe">> \notin {<<"safe">>, <<"close">>}
      OBVIOUS
    <3> QED
      BY <1>1, <2>1, <2>2, <3>1
  <2> QED
    BY <1>1, <2>1, <2>2, <2>3, <2>4, DaemonTimes
<1>2. <<>> \in C /\ <<"safe">> \in C /\ <<"unsafe">> \in C /\ <<"close">> \in C
  OBVIOUS
<1> HIDE DEF C
<1>3. CASE e \in DoorEvents
  <2>1. Learns(e)
    BY <1>0, <1>3, DoorEventDoes
  <2>2. \/ Does("WAIT_FOR_LOCKED", {T}, <<>>, <<>>, {})
        \/ Does(sm.state, timer, <<>>, <<"unsafe">>, {})
        \/ Does(sm.state, timer, <<"unsafe">>, <<>>, {})
        \/ Does("IDLE", {}, <<>>, <<>>, {"OPEN_SUCCESSFUL"})
        \/ Does("IDLE", {}, <<>>, <<>>, {"LOCK_SUCCESSFUL"})
        \/ Does(sm.state, timer, <<>>, <<>>, {})
    BY <1>0, <1>3, DoorEventDoes
  <2> QED
    BY <1>1, <1>2, <2>1, <2>2
<1>4. CASE e \in SshRequests \cup Buttons
  <2>1. Learns(e)
    BY <1>0, <1>4, RequestDoes
  <2>2. \/ Does("WAIT_FOR_OPEN_VIA_B", {T}, <<"safe">>, <<>>, {})
        \/ Does("WAIT_FOR_OPEN_VIA_C", {T}, <<>>, <<"safe">>, {})
        \/ Does("WAIT_FOR_LOCKED", {T}, <<"close">>, <<"close">>, {})
        \/ Does(sm.state, timer, <<>>, <<>>, {})
    BY <1>0, <1>4, RequestDoes
  <2> QED
    BY <1>1, <1>2, <2>1, <2>2
<1> QED
  BY <1>3, <1>4

(* Every other step, and all of them.                                         *)
LEMMA TimesStep ==
    ASSUME TimesInv, [Next]_vars
    PROVE  TimesInv'
<1>0. PortalTypes /\ TimesFit /\ inbox \in Seq(DoorEvents)
  BY DEF TimesInv, PortalTypes
<1>1. CASE Request
  BY <1>0, <1>1, EventTimes DEF Request
<1>2. CASE StatusArrives
  <2>1. Head(inbox) \in DoorEvents /\ Tail(inbox) \in Seq(DoorEvents)
    BY <1>0, <1>2, HeadTailProperties DEF StatusArrives
  <2> QED
    BY <1>2, <2>1, EventTimes DEF StatusArrives
<1>3. CASE DaemonTimeout
  <2>1. /\ 0 \in timer /\ Applies("TIMEOUT") /\ doors' = doors /\ left' = left
        /\ inbox' = inbox /\ smooth' = smooth /\ heard' = heard
    BY <1>3 DEF DaemonTimeout
  <2>2. PICK tl : sm' \in Machines /\ Does("IDLE", {}, <<>>, <<>>, tl)
    BY <1>0, <2>1, TimeoutDoes DEF Learns
  <2>3. /\ commands' \in [Controllers -> {<<>>, <<"safe">>, <<"unsafe">>, <<"close">>, <<"reset">>}]
        /\ \A x \in Controllers : commands'[x] = <<>>
    <3>1. <<>> \in {<<>>, <<"safe">>, <<"unsafe">>, <<"close">>, <<"reset">>}
      OBVIOUS
    <3> QED
      BY <2>2, <3>1, DoesCommands
  <2>4. timer' = {}
    BY <2>2 DEF Does
  <2>5. \A x \in Controllers : ~WillLock(x)
    <3> SUFFICES ASSUME NEW x \in Controllers, WillLock(x)
                 PROVE  FALSE
      OBVIOUS
    <3>1. Locks(doors[x].stage, doors[x].kind)
      BY DEF WillLock, Locks
    <3>2. Ahead(doors[x].stage, left[x]) < 0
      BY <1>0, <2>1, <3>1 DEF TimesFit
    <3>3. Ahead(doors[x].stage, left[x]) \in Nat
      BY <1>0, AheadBound DEF PortalTypes, Services, TimesFit
    <3> QED
      BY <3>2, <3>3
  <2>6. TimeoutFinal'
    BY <2>1, <2>5 DEF TimeoutFinal, WillLock
  <2>7. <<>> \notin {<<"safe">>, <<"close">>}
    OBVIOUS
  <2> QED
    BY <1>0, <2>1, <2>2, <2>3, <2>4, <2>6, <2>7, DaemonTimes
<1>4. CASE Override \/ DaemonRestarts
  <2>1. /\ doors' = doors /\ left' = left /\ inbox' = inbox /\ smooth' = smooth
        /\ heard' = heard /\ told' = {} /\ timer' \in {timer, {}}
    BY <1>4 DEF Override, DaemonRestarts
  <2>2. sm' \in Machines
    BY <1>0, <1>4 DEF Override, DaemonRestarts, PortalTypes, sm_init, Machines, States,
                      DoorValues, ShackValues
  <2>3. /\ commands' \in [Controllers -> {<<>>, <<"safe">>, <<"unsafe">>, <<"close">>, <<"reset">>}]
        /\ \A x \in Controllers : commands'[x] \in {<<>>, <<"unsafe">>, <<"reset">>}
    <3>1. CASE Override
      BY <3>1 DEF Override
    <3>2. CASE DaemonRestarts
      BY <1>0, <3>2 DEF DaemonRestarts, Quiet, PortalTypes
    <3> QED
      BY <1>4, <3>1, <3>2
  <2>4. \A k \in {<<>>, <<"unsafe">>, <<"reset">>} : k \notin {<<"safe">>, <<"close">>}
    OBVIOUS
  <2> QED
    BY <1>0, <2>1, <2>2, <2>3, <2>4, NothingTold, DaemonTimes
<1>5. ASSUME NEW x \in Controllers, CommandArrives(x) \/ DoorReads(x) \/ StageEnds(x)
                                    \/ ControllerRestarts(x) \/ DoorMoves(x)
      PROVE  TimesInv'
  BY <1>5, CommandTimes, OwnStepTimes
<1>6. CASE Tick
  <2>1. /\ sm' = sm /\ doors' = doors /\ commands' = commands /\ inbox' = inbox
        /\ smooth' = smooth /\ told' = {} /\ heard' = {} /\ 0 \notin timer
        /\ timer' = {t - 1 : t \in timer}
        /\ left' = [x \in Controllers |-> IF left[x] = 0 THEN 0 ELSE left[x] - 1]
        /\ \A x \in Controllers : doors[x].stage # "idle" => left[x] > 0
        /\ \A x \in Controllers : commands[x] = <<>>
    BY <1>6 DEF Tick, Quiet
  <2>2. left \in [Controllers -> Nat]
    BY <1>0 DEF PortalTypes
  <2>3. /\ left' \in [Controllers -> Nat]
        /\ \A x \in Controllers : left'[x] = IF left[x] = 0 THEN 0 ELSE left[x] - 1
    BY <2>1, <2>2
  <2>4. timer' = {} \/ \E t \in 0 .. STATE_MACHINE_TIMEOUT : timer' = {t}
    <3>1. CASE timer = {}
      BY <2>1, <3>1
    <3>2. ASSUME NEW t \in 0 .. STATE_MACHINE_TIMEOUT, timer = {t}
          PROVE  timer' = {t - 1} /\ t - 1 \in 0 .. STATE_MACHINE_TIMEOUT
      BY <2>1, <3>2 DEF STATE_MACHINE_TIMEOUT
    <3> QED
      BY <1>0, <3>1, <3>2 DEF PortalTypes
  <2>5. PortalTypes'
    BY <1>0, <2>1, <2>3, <2>4 DEF PortalTypes
  <2>6. \A x \in Controllers : left'[x] <= StageTime[doors[x].stage]
    <3> SUFFICES ASSUME NEW x \in Controllers PROVE left'[x] <= StageTime[doors[x].stage]
      OBVIOUS
    <3>1. left[x] <= StageTime[doors[x].stage]
      BY <1>0 DEF TimesFit
    <3>2. doors[x].stage \in {"idle", "opening", "entry", "closing", "locking"}
      BY <1>0 DEF PortalTypes, Services
    <3>3. StageTime[doors[x].stage] \in Nat
      BY <3>2, StageTimes
    <3> QED
      BY <2>2, <2>3, <3>1, <3>3
  <2>7. ASSUME NEW x \in Controllers, NEW t \in timer,
               Locks(doors[x].stage, doors[x].kind)
        PROVE  Ahead(doors[x].stage, left'[x]) < t - 1
    <3>1. Ahead(doors[x].stage, left[x]) < t
      BY <1>0, <2>7 DEF TimesFit
    <3>2. doors[x].stage # "idle"
      BY <2>7 DEF Locks
    <3>3. left[x] \in Nat /\ left[x] > 0 /\ left'[x] = left[x] - 1 /\ t \in Nat
      BY <1>0, <2>1, <2>2, <2>3, <3>2 DEF PortalTypes, STATE_MACHINE_TIMEOUT
    <3> QED
      BY <3>1, <3>3 DEF Ahead
  <2>8. \A x \in Controllers : \A t \in timer' :
           Locks(doors[x].stage, doors[x].kind) => Ahead(doors[x].stage, left'[x]) < t
    BY <2>1, <2>7
  <2>9. <<>> \notin {<<"safe">>, <<"close">>}
    OBVIOUS
  <2> QED
    BY <2>1, <2>5, <2>6, <2>8, <2>9, NothingTold DEF TimesInv, TimesFit
<1>7. CASE UNCHANGED vars
  BY <1>0, <1>7 DEF vars, TimesInv, PortalTypes, TimesFit, TimeoutFinal, WillLock
<1> QED
  BY <1>1, <1>2, <1>3, <1>4, <1>5, <1>6, <1>7 DEF Next

(* Initially nobody is busy.                                                  *)
LEMMA TimesInit == Init => TimesInv
<1> SUFFICES ASSUME Init PROVE TimesInv
  OBVIOUS
<1>1. doors \in [Controllers -> Services] /\ \A x \in Controllers : doors[x].stage = "idle"
  <2>1. ASSUME NEW q \in {S("B2")!Started(p, "none") : p \in S("B2")!Positions}
        PROVE  q \in Services /\ q.stage = "idle"
    BY StartedIs DEF S!Positions
  <2> QED
    BY <2>1 DEF Init
<1>2. sm \in Machines
  BY DEF Init, sm_init, Machines, States, DoorValues, ShackValues
<1>3. /\ timer = {} /\ left = [x \in Controllers |-> 0] /\ commands = [x \in Controllers |-> <<>>]
      /\ inbox = <<>> /\ told = {} /\ smooth \in BOOLEAN /\ heard = {}
  BY DEF Init
<1>4. <<>> \in Seq(DoorEvents)
  OBVIOUS
<1>5. PortalTypes
  BY <1>1, <1>2, <1>3, <1>4 DEF PortalTypes
<1>6. TimesFit
  BY <1>1, <1>3, StageTimes DEF TimesFit
<1> QED
  BY <1>3, <1>5, <1>6 DEF TimesInv, TimeoutFinal

(* When the daemon tells the users that their request has timed out, no       *)
(* controller is going to lock a door, through lost messages, restarts of any *)
(* part, forced openings and resets, for every number of messages under way.  *)
THEOREM TimeoutsAreFinal == Spec => []TimeoutFinal
<1>1. TimesInv => TimeoutFinal
  BY DEF TimesInv
<1> QED
  BY <1>1, TimesInit, TimesStep, PTL DEF Spec
-----------------------------------------------------------------------------
(* The messages under way.                                                    *)

(* The first one is taken.                                                    *)
LEMMA TailMessages ==
    ASSUME NEW T, NEW ms \in Seq(T), ms # <<>>, NEW X, NEW v
    PROVE  /\ NoneOf(ms, X) <=> Head(ms) \notin X /\ NoneOf(Tail(ms), X)
           /\ LastIs(ms, X, v) =>
                 /\ LastIs(Tail(ms), X, v)
                 /\ Head(ms) \in X /\ NoneOf(Tail(ms), X) => Head(ms) = v
           /\ AllAre(ms, X, v) => AllAre(Tail(ms), X, v) /\ (Head(ms) \in X => Head(ms) = v)
           /\ FirstAre(ms, X, v) =>
                 /\ FirstAre(Tail(ms), X, v)
                 /\ ~NoneOf(Tail(ms), {v}) /\ Head(ms) \in X => Head(ms) = v
<1> DEFINE n == Len(ms)
           tl == Tail(ms)
<1>1. /\ n \in Nat /\ n >= 1 /\ Len(tl) = n - 1 /\ Head(ms) = ms[1]
      /\ \A i \in 1 .. n - 1 : tl[i] = ms[i + 1]
  BY HeadTailProperties
<1> HIDE DEF n, tl
<1>2. NoneOf(ms, X) <=> ms[1] \notin X /\ NoneOf(tl, X)
  <2>1. ASSUME NoneOf(ms, X)
        PROVE  ms[1] \notin X /\ NoneOf(tl, X)
    BY <1>1, <2>1 DEF NoneOf, n
  <2>2. ASSUME ms[1] \notin X, NoneOf(tl, X), NEW i \in 1 .. n
        PROVE  ms[i] \notin X
    <3>1. CASE i = 1
      BY <2>2, <3>1
    <3>2. CASE i # 1
      <4>1. i - 1 \in 1 .. n - 1 /\ tl[i - 1] = ms[(i - 1) + 1] /\ (i - 1) + 1 = i
        BY <1>1, <3>2
      <4> QED
        BY <1>1, <2>2, <4>1 DEF NoneOf
    <3> QED
      BY <3>1, <3>2
  <2> QED
    BY <2>1, <2>2 DEF NoneOf, n
<1>3. ASSUME LastIs(ms, X, v)
      PROVE  LastIs(tl, X, v) /\ (ms[1] \in X /\ NoneOf(tl, X) => ms[1] = v)
  <2>1. ASSUME NEW i \in 1 .. n - 1, tl[i] \in X, \A j \in i + 1 .. n - 1 : tl[j] \notin X
        PROVE  tl[i] = v
    <3>1. i + 1 \in 1 .. n /\ ms[i + 1] \in X
      BY <1>1, <2>1
    <3>2. ASSUME NEW j \in (i + 1) + 1 .. n
          PROVE  ms[j] \notin X
      <4>1. j - 1 \in i + 1 .. n - 1 /\ j - 1 \in 1 .. n - 1 /\ (j - 1) + 1 = j
        BY <1>1
      <4> QED
        BY <1>1, <2>1, <4>1
    <3> QED
      BY <1>1, <1>3, <3>1, <3>2 DEF LastIs, n
  <2>2. ASSUME ms[1] \in X, NoneOf(tl, X)
        PROVE  ms[1] = v
    <3>1. ASSUME NEW j \in 1 + 1 .. n
          PROVE  ms[j] \notin X
      <4>1. j - 1 \in 1 .. n - 1 /\ (j - 1) + 1 = j
        BY <1>1
      <4> QED
        BY <1>1, <2>2, <4>1 DEF NoneOf
    <3> QED
      BY <1>1, <1>3, <2>2, <3>1 DEF LastIs, n
  <2> QED
    BY <1>1, <2>1, <2>2 DEF LastIs
<1>4. ASSUME AllAre(ms, X, v)
      PROVE  AllAre(tl, X, v) /\ (ms[1] \in X => ms[1] = v)
  BY <1>1, <1>4 DEF AllAre, n
<1>5. ASSUME FirstAre(ms, X, v)
      PROVE  FirstAre(tl, X, v) /\ (~NoneOf(tl, {v}) /\ ms[1] \in X => ms[1] = v)
  <2>1. ASSUME NEW i \in 1 .. n - 1, tl[i] = v, NEW j \in 1 .. i, tl[j] \in X
        PROVE  tl[j] = v
    <3>1. /\ i + 1 \in 1 .. n /\ j + 1 \in 1 .. i + 1 /\ ms[i + 1] = v
          /\ tl[j] = ms[j + 1]
      BY <1>1, <2>1
    <3> QED
      BY <1>5, <2>1, <3>1 DEF FirstAre, n
  <2>2. ASSUME NEW i \in 1 .. n - 1, tl[i] = v, ms[1] \in X
        PROVE  ms[1] = v
    <3>1. i + 1 \in 1 .. n /\ 1 \in 1 .. i + 1 /\ ms[i + 1] = v
      BY <1>1, <2>2
    <3> QED
      BY <1>5, <2>2, <3>1 DEF FirstAre, n
  <2> QED
    BY <1>1, <2>1, <2>2 DEF FirstAre, NoneOf
<1> QED
  BY <1>1, <1>2, <1>3, <1>4, <1>5 DEF tl

(* One more is sent.                                                          *)
LEMMA AppendMessages ==
    ASSUME NEW T, NEW ms \in Seq(T), NEW w \in T, NEW X, NEW v
    PROVE  /\ NoneOf(Append(ms, w), X) <=> NoneOf(ms, X) /\ w \notin X
           /\ w \in X => LastIs(Append(ms, w), X, w)
           /\ w \notin X /\ LastIs(ms, X, v) => LastIs(Append(ms, w), X, v)
           /\ AllAre(ms, X, v) /\ (w \in X => w = v) => AllAre(Append(ms, w), X, v)
           /\ FirstAre(ms, X, v) /\ (w # v \/ AllAre(ms, X, v)) => FirstAre(Append(ms, w), X, v)
<1> DEFINE n == Len(ms)
           as == Append(ms, w)
<1>1. /\ n \in Nat /\ Len(as) = n + 1 /\ as[n + 1] = w
      /\ \A i \in 1 .. n : as[i] = ms[i]
  BY AppendProperties
<1> HIDE DEF n, as
<1>2. 1 .. n + 1 = (1 .. n) \cup {n + 1}
  BY <1>1
<1>3. NoneOf(as, X) <=> NoneOf(ms, X) /\ w \notin X
  BY <1>1, <1>2 DEF NoneOf, n
<1>4. ASSUME w \in X
      PROVE  LastIs(as, X, w)
  <2>1. ASSUME NEW i \in 1 .. n, \A j \in i + 1 .. n + 1 : as[j] \notin X
        PROVE  FALSE
    <3>1. n + 1 \in i + 1 .. n + 1
      BY <1>1
    <3> QED
      BY <1>1, <1>4, <2>1, <3>1
  <2> QED
    BY <1>1, <1>2, <2>1 DEF LastIs
<1>5. ASSUME w \notin X, LastIs(ms, X, v)
      PROVE  LastIs(as, X, v)
  <2>1. ASSUME NEW i \in 1 .. n, as[i] \in X, \A j \in i + 1 .. n + 1 : as[j] \notin X
        PROVE  as[i] = v
    <3>0. n \in Nat
      BY <1>1
    <3>1. \A j \in i + 1 .. n : j \in i + 1 .. n + 1 /\ j \in 1 .. n
      BY <3>0
    <3>2. \A j \in i + 1 .. n : ms[j] \notin X
      BY <1>1, <2>1, <3>1
    <3> QED
      BY <1>1, <1>5, <2>1, <3>2 DEF LastIs, n
  <2> QED
    BY <1>1, <1>2, <1>5, <2>1 DEF LastIs
<1>6. AllAre(ms, X, v) /\ (w \in X => w = v) => AllAre(as, X, v)
  BY <1>1, <1>2 DEF AllAre, n
<1>7. ASSUME FirstAre(ms, X, v), w # v \/ AllAre(ms, X, v)
      PROVE  FirstAre(as, X, v)
  <2>1. ASSUME NEW i \in 1 .. n, as[i] = v, NEW j \in 1 .. i, as[j] \in X
        PROVE  as[j] = v
    <3>0. n \in Nat
      BY <1>1
    <3>1. j \in 1 .. n
      BY <3>0
    <3>2. ms[i] = v /\ as[j] = ms[j]
      BY <1>1, <2>1, <3>1
    <3> QED
      BY <1>7, <2>1, <3>1, <3>2 DEF FirstAre, n
  <2>2. ASSUME w = v, NEW j \in 1 .. n + 1, as[j] \in X
        PROVE  as[j] = v
    BY <1>1, <1>2, <1>7, <2>2 DEF AllAre, n
  <2> QED
    BY <1>1, <1>2, <2>1, <2>2 DEF FirstAre
<1> QED
  BY <1>3, <1>4, <1>5, <1>6, <1>7 DEF as
-----------------------------------------------------------------------------
(* What the daemon learns from a message.                                     *)

(* The messages of the two doors differ, and each names a position.           *)
LEMMA StatusEvents ==
    /\ \A x \in Controllers : \A p, q \in {"OPEN", "CLOSED", "LOCKED"} :
          StatusEvent(x, p) = StatusEvent(x, q) => p = q
    /\ \A x, y \in Controllers : \A e \in Of(x) : x # y => e \notin Of(y)
    /\ \A x \in Controllers : \A e \in Of(x) : e \in DoorEvents
    /\ \A e \in DoorEvents : \E x \in Controllers : e \in Of(x)
<1>1. /\ StatusEvent("B2", "OPEN") = "DOOR_B2_OPENED" /\ StatusEvent("C2", "OPEN") = "DOOR_C2_OPENED"
      /\ StatusEvent("B2", "CLOSED") = "DOOR_B2_CLOSED" /\ StatusEvent("C2", "CLOSED") = "DOOR_C2_CLOSED"
      /\ StatusEvent("B2", "LOCKED") = "DOOR_B2_LOCKED" /\ StatusEvent("C2", "LOCKED") = "DOOR_C2_LOCKED"
  BY DEF StatusEvent
<1>2. /\ Of("B2") = {"DOOR_B2_OPENED", "DOOR_B2_CLOSED", "DOOR_B2_LOCKED"}
      /\ Of("C2") = {"DOOR_C2_OPENED", "DOOR_C2_CLOSED", "DOOR_C2_LOCKED"}
  BY <1>1 DEF Of
<1>3. \A p, q \in {"OPEN", "CLOSED", "LOCKED"} :
         /\ StatusEvent("B2", p) = StatusEvent("B2", q) => p = q
         /\ StatusEvent("C2", p) = StatusEvent("C2", q) => p = q
  BY <1>1
<1> QED
  BY <1>2, <1>3 DEF Controllers, DoorEvents

(* A message tells the position of its door, and nothing of the other one.    *)
LEMMA Learned ==
    ASSUME PortalTypes, NEW e \in DoorEvents, Learns(e), NEW x \in Controllers
    PROVE  /\ e \notin Of(x) => Known(sm', x) = Known(sm, x)
           /\ \A p \in {"OPEN", "CLOSED", "LOCKED"} : e = StatusEvent(x, p) => Known(sm', x) = p
<1>1. /\ sm \in [state: States, b2: DoorValues, c2: DoorValues, last_shack_state: ShackValues]
      /\ sm'.b2 = sm_change_door_state(sm, e).b2
      /\ sm'.c2 = sm_change_door_state(sm, e).c2
  BY DEF PortalTypes, Machines, Learns
<1>2. /\ e = "DOOR_B2_OPENED" => sm'.b2 = "OPEN" /\ sm'.c2 = sm.c2
      /\ e = "DOOR_B2_CLOSED" => sm'.b2 = "CLOSED" /\ sm'.c2 = sm.c2
      /\ e = "DOOR_B2_LOCKED" => sm'.b2 = "LOCKED" /\ sm'.c2 = sm.c2
      /\ e = "DOOR_C2_OPENED" => sm'.b2 = sm.b2 /\ sm'.c2 = "OPEN"
      /\ e = "DOOR_C2_CLOSED" => sm'.b2 = sm.b2 /\ sm'.c2 = "CLOSED"
      /\ e = "DOOR_C2_LOCKED" => sm'.b2 = sm.b2 /\ sm'.c2 = "LOCKED"
  BY <1>1 DEF sm_change_door_state
<1>3. /\ StatusEvent("B2", "OPEN") = "DOOR_B2_OPENED" /\ StatusEvent("C2", "OPEN") = "DOOR_C2_OPENED"
      /\ StatusEvent("B2", "CLOSED") = "DOOR_B2_CLOSED" /\ StatusEvent("C2", "CLOSED") = "DOOR_C2_CLOSED"
      /\ StatusEvent("B2", "LOCKED") = "DOOR_B2_LOCKED" /\ StatusEvent("C2", "LOCKED") = "DOOR_C2_LOCKED"
  BY DEF StatusEvent
<1>4. /\ Of("B2") = {"DOOR_B2_OPENED", "DOOR_B2_CLOSED", "DOOR_B2_LOCKED"}
      /\ Of("C2") = {"DOOR_C2_OPENED", "DOOR_C2_CLOSED", "DOOR_C2_LOCKED"}
  BY <1>3 DEF Of
<1>5. CASE x = "B2"
  BY <1>2, <1>3, <1>4, <1>5 DEF Known, DoorEvents
<1>6. CASE x = "C2"
  BY <1>2, <1>3, <1>4, <1>6 DEF Known, DoorEvents
<1> QED
  BY <1>5, <1>6 DEF Controllers

(* The state of the shack is what is known of its doors.                      *)
LEMMA ShackIs ==
    ASSUME NEW m \in Machines
    PROVE  /\ sm_get_shack_state(m) = "OPEN" <=> BothKnown(m, {"OPEN", "CLOSED"})
           /\ sm_get_shack_state(m) = "LOCKED" <=> BothKnown(m, {"LOCKED"})
<1>1. m.b2 \in DoorValues /\ m.c2 \in DoorValues
  BY DEF Machines
<1> QED
  BY <1>1 DEF sm_get_shack_state, BothKnown, DoorValues

(* What the daemon makes of the shack after a message.                        *)
LEMMA ShackAfterIs ==
    ASSUME PortalTypes, NEW e, Learns(e)
    PROVE  /\ ShackAfter(e) = "OPEN" <=> BothKnown(sm', {"OPEN", "CLOSED"})
           /\ ShackAfter(e) = "LOCKED" <=> BothKnown(sm', {"LOCKED"})
<1>1. sm_change_door_state(sm, e) \in Machines
  BY ShackTyped DEF PortalTypes
<1> QED
  BY <1>1, ShackIs DEF ShackAfter, Learns, BothKnown

(* A request tells nothing of the doors.                                      *)
LEMMA NotLearned ==
    ASSUME PortalTypes, NEW e \in SshRequests \cup Buttons, Learns(e)
    PROVE  /\ sm'.b2 = sm.b2 /\ sm'.c2 = sm.c2
           /\ \A x \in Controllers : Known(sm', x) = Known(sm, x)
<1>1. e \notin DoorEvents
  BY DEF SshRequests, Buttons, DoorEvents
<1>2. sm_change_door_state(sm, e) = sm
  BY <1>1 DEF sm_change_door_state, DoorEvents
<1> QED
  BY <1>2 DEF Learns, Known
(* The states of the machine.                                                 *)
LEMMA Goals ==
    /\ \A x \in Controllers : Goal(x) # "IDLE" /\ Goal(x) # "WAIT_FOR_LOCKED"
    /\ \A x, y \in Controllers : Goal(x) = Goal(y) => x = y
    /\ \A s \in States : s = "IDLE" \/ s = "WAIT_FOR_LOCKED" \/ \E x \in Controllers : s = Goal(x)
    /\ \A x \in Controllers : OtherOf(x) \in Controllers /\ OtherOf(x) # x
    /\ \A x, y \in Controllers : y = x \/ y = OtherOf(x)
BY DEF Goal, Controllers, States, OtherOf

(* The commands that an event sends: one to the door x, nothing else.         *)
SendsTo(x, k) == commands' = [y \in Controllers |-> IF y = x THEN k ELSE <<>>]

(* What a message does to the machine.                                        *)
LEMMA MessageDoes ==
    ASSUME PortalTypes, NEW e \in DoorEvents, Applies(e)
    PROVE  /\ Learns(e)
           /\ \/ \E x \in Controllers : /\ sm.state = Goal(x) /\ e = LockEvent(x)
                                        /\ Known(sm, x) # "LOCKED"
              \/ \E x \in Controllers :
                    /\ sm.state = Goal(x) /\ e = StatusEvent(x, "OPEN")
                    /\ ~BothKnown(sm', {"OPEN", "CLOSED"})
                    /\ sm'.state = sm.state /\ timer' = timer /\ told' = {}
                    /\ SendsTo(OtherOf(x), <<"unsafe">>)
              \/ /\ \E x \in Controllers : sm.state = Goal(x)
                 /\ BothKnown(sm', {"OPEN", "CLOSED"})
                 /\ sm'.state = "IDLE" /\ timer' = {} /\ told' = {"OPEN_SUCCESSFUL"}
                 /\ commands' = [x \in Controllers |-> <<>>]
              \/ /\ sm.state = "WAIT_FOR_LOCKED" /\ BothKnown(sm', {"LOCKED"})
                 /\ sm'.state = "IDLE" /\ timer' = {} /\ told' = {"LOCK_SUCCESSFUL"}
                 /\ commands' = [x \in Controllers |-> <<>>]
              \/ /\ sm'.state = sm.state /\ timer' = timer /\ told' = {}
                 /\ commands' = [x \in Controllers |-> <<>>]
                 /\ \A x \in Controllers : sm.state = Goal(x) =>
                       ~BothKnown(sm', {"OPEN", "CLOSED"}) /\ e # StatusEvent(x, "OPEN")
                 /\ sm.state = "WAIT_FOR_LOCKED" => ~BothKnown(sm', {"LOCKED"})
<1> DEFINE sh == ShackAfter(e)
<1>0. /\ StatusEvent("B2", "OPEN") = "DOOR_B2_OPENED" /\ StatusEvent("C2", "OPEN") = "DOOR_C2_OPENED"
      /\ LockEvent("B2") = "DOOR_B2_LOCKED" /\ LockEvent("C2") = "DOOR_C2_LOCKED"
      /\ Goal("B2") = "WAIT_FOR_OPEN_VIA_B" /\ Goal("C2") = "WAIT_FOR_OPEN_VIA_C"
      /\ OtherOf("B2") = "C2" /\ OtherOf("C2") = "B2"
      /\ "B2" \in Controllers /\ "C2" \in Controllers
  BY DEF StatusEvent, LockEvent, Goal, OtherOf, Controllers
<1>1. Learns(e)
  BY DoorEventDoes
<1>2. /\ sh = "OPEN" <=> BothKnown(sm', {"OPEN", "CLOSED"})
      /\ sh = "LOCKED" <=> BothKnown(sm', {"LOCKED"})
  BY <1>1, ShackAfterIs
<1>3. /\ is_door_lock_event(e) => ~BothKnown(sm', {"OPEN", "CLOSED"})
      /\ is_door_unlock_event(e) => ~BothKnown(sm', {"LOCKED"})
      /\ is_door_lock_event(e) \/ is_door_unlock_event(e)
  BY <1>1 DEF Learns, BothKnown, is_door_lock_event, is_door_unlock_event, DoorEvents,
              sm_change_door_state, PortalTypes, Machines
<1> HIDE DEF sh
<1>4. ASSUME NEW st, NEW tm, NEW tl, Does(st, tm, <<>>, <<>>, tl)
      PROVE  /\ sm'.state = st /\ timer' = tm /\ told' = tl
             /\ commands' = [x \in Controllers |-> <<>>]
  BY <1>4 DEF Does
<1>5. CASE AutoClosed(sm, e)
  BY <1>0, <1>1, <1>5 DEF AutoClosed, Known
<1>6. CASE /\ Entered(sm, e, sh) /\ e = "DOOR_B2_OPENED"
           /\ Does(sm.state, timer, <<>>, <<"unsafe">>, {})
  <2>1. sm.state = Goal("B2") /\ e = StatusEvent("B2", "OPEN") /\ sh # "OPEN"
    BY <1>0, <1>6 DEF Entered
  <2>2. SendsTo(OtherOf("B2"), <<"unsafe">>)
    BY <1>0, <1>6 DEF Does, SendsTo, Controllers
  <2> QED
    BY <1>0, <1>1, <1>2, <1>6, <2>1, <2>2 DEF Does
<1>7. CASE /\ Entered(sm, e, sh) /\ e = "DOOR_C2_OPENED"
           /\ Does(sm.state, timer, <<"unsafe">>, <<>>, {})
  <2>1. sm.state = Goal("C2") /\ e = StatusEvent("C2", "OPEN") /\ sh # "OPEN"
    BY <1>0, <1>7 DEF Entered
  <2>2. SendsTo(OtherOf("C2"), <<"unsafe">>)
    BY <1>0, <1>7 DEF Does, SendsTo, Controllers
  <2> QED
    BY <1>0, <1>1, <1>2, <1>7, <2>1, <2>2 DEF Does
<1>8. CASE Opened(sm, e, sh) /\ Does("IDLE", {}, <<>>, <<>>, {"OPEN_SUCCESSFUL"})
  BY <1>0, <1>1, <1>2, <1>4, <1>8 DEF Opened, is_state_wait_for_open
<1>9. CASE Locked(sm, e, sh) /\ Does("IDLE", {}, <<>>, <<>>, {"LOCK_SUCCESSFUL"})
  BY <1>1, <1>2, <1>4, <1>9 DEF Locked
<1>10. CASE /\ ~AutoClosed(sm, e) /\ ~Entered(sm, e, sh) /\ ~Opened(sm, e, sh) /\ ~Locked(sm, e, sh)
            /\ Does(sm.state, timer, <<>>, <<>>, {})
  <2>1. ASSUME NEW x \in Controllers, sm.state = Goal(x)
        PROVE  ~BothKnown(sm', {"OPEN", "CLOSED"}) /\ e # StatusEvent(x, "OPEN")
    <3>1. is_state_wait_for_open(sm.state)
      BY <1>0, <2>1 DEF is_state_wait_for_open, Controllers
    <3>2. ~BothKnown(sm', {"OPEN", "CLOSED"})
      BY <1>2, <1>3, <1>10, <3>1 DEF Opened
    <3>3. e # StatusEvent(x, "OPEN")
      BY <1>0, <1>2, <1>10, <2>1, <3>2 DEF Entered, Controllers
    <3> QED
      BY <3>2, <3>3
  <2>2. sm.state = "WAIT_FOR_LOCKED" => ~BothKnown(sm', {"LOCKED"})
    BY <1>2, <1>3, <1>10 DEF Locked
  <2> QED
    BY <1>1, <1>4, <1>10, <2>1, <2>2
<1> QED
  BY <1>5, <1>6, <1>7, <1>8, <1>9, <1>10, DoorEventDoes DEF sh

-----------------------------------------------------------------------------
(* A message arrives.                                                         *)

(* The conditions of StatusArrives, without the machine.                      *)
Arrives(e) ==
    /\ inbox # <<>> /\ e = Head(inbox) /\ inbox' = Tail(inbox)
    /\ doors' = doors /\ left' = left /\ smooth' = smooth /\ heard' = heard
    /\ \A x \in Controllers : commands[x] = <<>>

(* The daemon still knows the doors, but for the messages that are left.      *)
LEMMA KnowsArrival ==
    ASSUME PortalTypes, NEW e \in DoorEvents, Arrives(e), Learns(e),
           NEW x \in Controllers, KnowsDoor(x)
    PROVE  KnowsDoor(x)'
<1> DEFINE X == Of(x)
           v == StatusEvent(x, doors[x].door)
<1>1. inbox \in Seq(DoorEvents) /\ inbox # <<>> /\ inbox' = Tail(inbox) /\ e = Head(inbox)
  BY DEF PortalTypes, Arrives
<1>2. /\ LastIs(inbox', X, v)
      /\ e \in X /\ NoneOf(inbox', X) => e = v
      /\ NoneOf(inbox, X) <=> e \notin X /\ NoneOf(inbox', X)
  <2>1. LastIs(inbox, X, v)
    BY DEF KnowsDoor
  <2> HIDE DEF X, v
  <2>2. /\ LastIs(Tail(inbox), X, v)
        /\ Head(inbox) \in X /\ NoneOf(Tail(inbox), X) => Head(inbox) = v
        /\ NoneOf(inbox, X) <=> Head(inbox) \notin X /\ NoneOf(Tail(inbox), X)
    BY <1>1, <2>1, TailMessages
  <2> QED
    BY <1>1, <2>2
<1>3. doors[x].door \in {"OPEN", "CLOSED", "LOCKED"}
  BY DEF PortalTypes, Services
<1>4. /\ e \notin X => Known(sm', x) = Known(sm, x)
      /\ e = v => Known(sm', x) = doors[x].door
  BY <1>3, Learned
<1>5. NoneOf(inbox', X) =>
          \/ Known(sm', x) = doors[x].door
          \/ Known(sm', x) = "UNOBSERVED" /\ x \notin heard /\ doors[x].seen = "CLOSED"
  BY <1>2, <1>4 DEF KnowsDoor
<1> QED
  BY <1>2, <1>5 DEF KnowsDoor, Arrives
(* While the shack is locked: what is known to be locked is locked.           *)
LEMMA LockedKnown ==
    ASSUME PortalTypes, NEW e \in DoorEvents, Arrives(e), Learns(e),
           NEW x \in Controllers, LockingDoor(x)
    PROVE  /\ ~NoneOf(inbox', {LockEvent(x)}) => doors[x].door = "LOCKED"
           /\ Known(sm', x) = "LOCKED" => doors[x].door = "LOCKED"
<1>1. inbox \in Seq(DoorEvents) /\ inbox # <<>> /\ inbox' = Tail(inbox) /\ e = Head(inbox)
  BY DEF PortalTypes, Arrives
<1>2. NoneOf(inbox, {LockEvent(x)}) <=> e # LockEvent(x) /\ NoneOf(inbox', {LockEvent(x)})
  <2> DEFINE X == {LockEvent(x)}
  <2> HIDE DEF X
  <2>1. NoneOf(inbox, X) <=> Head(inbox) \notin X /\ NoneOf(Tail(inbox), X)
    BY <1>1, TailMessages
  <2> QED
    BY <1>1, <2>1 DEF X
<1>3. e \in Of(x) => \E p \in {"OPEN", "CLOSED", "LOCKED"} : e = StatusEvent(x, p)
  BY DEF Of
<1>4. Known(sm', x) = "LOCKED" => Known(sm, x) = "LOCKED" \/ e = LockEvent(x)
  BY <1>3, Learned DEF LockEvent
<1> QED
  BY <1>2, <1>4 DEF LockingDoor

(* While it is opened.                                                        *)
LEMMA OpeningArrival ==
    ASSUME PortalTypes, NEW e \in DoorEvents, Arrives(e), Learns(e),
           NEW x \in Controllers, OpeningDoor(x)
    PROVE  /\ OpeningDoor(x)'
           /\ e = LockEvent(x) => Known(sm, x) = "LOCKED"
<1> DEFINE X == Of(x)
           l == LockEvent(x)
<1>1. inbox \in Seq(DoorEvents) /\ inbox # <<>> /\ inbox' = Tail(inbox) /\ e = Head(inbox)
  BY DEF PortalTypes, Arrives
<1>2. /\ doors[x].door = "LOCKED" => Known(sm, x) = "LOCKED" /\ AllAre(inbox, X, l)
      /\ ~NoneOf(inbox, {l}) => Known(sm, x) = "LOCKED"
      /\ FirstAre(inbox, X, l)
  BY DEF OpeningDoor
<1>3. /\ e \notin X => Known(sm', x) = Known(sm, x)
      /\ e = l => Known(sm', x) = "LOCKED"
  BY Learned DEF LockEvent
<1> HIDE DEF X, l
<1>4. NoneOf(inbox, {l}) <=> Head(inbox) \notin {l} /\ NoneOf(Tail(inbox), {l})
  BY <1>1, TailMessages
<1>5. AllAre(inbox, X, l) => AllAre(Tail(inbox), X, l) /\ (Head(inbox) \in X => Head(inbox) = l)
  BY <1>1, TailMessages
<1>6. /\ FirstAre(Tail(inbox), X, l)
      /\ ~NoneOf(Tail(inbox), {l}) /\ Head(inbox) \in X => Head(inbox) = l
  BY <1>1, <1>2, TailMessages
<1>7. doors[x].door = "LOCKED" => Known(sm', x) = "LOCKED" /\ AllAre(inbox', X, l)
  BY <1>1, <1>2, <1>3, <1>5
<1>8. ~NoneOf(inbox', {l}) => Known(sm', x) = "LOCKED"
  BY <1>1, <1>2, <1>3, <1>4, <1>6
<1>9. FirstAre(inbox', X, l) /\ (e = l => Known(sm, x) = "LOCKED")
  BY <1>1, <1>2, <1>4, <1>6
<1> QED
  BY <1>7, <1>8, <1>9 DEF OpeningDoor, Arrives, X, l

(* A message arrives: SmoothInv is kept.                                      *)
LEMMA StatusSmooth ==
    ASSUME TimesInv, smooth, SmoothInv, StatusArrives
    PROVE  SmoothInv' /\ CooperationSucceeds' /\ LockedIsLocked'
<1> DEFINE e == Head(inbox)
<1>0. PortalTypes /\ inbox \in Seq(DoorEvents) /\ inbox # <<>> /\ Applies(e)
  BY DEF TimesInv, PortalTypes, StatusArrives
<1>1. e \in DoorEvents
  BY <1>0, HeadTailProperties
<1>2. Arrives(e)
  BY DEF StatusArrives, Applies, Arrives
<1> HIDE DEF e
<1>3. Learns(e)
  BY <1>0, <1>1, MessageDoes
<1>4. \A x \in Controllers : KnowsDoor(x)'
  BY <1>0, <1>1, <1>2, <1>3, KnowsArrival DEF SmoothInv
<1>5. /\ doors' = doors /\ left' = left /\ smooth' = smooth /\ heard' = heard
      /\ \A x \in Controllers : commands[x] = <<>>
  BY <1>2 DEF Arrives
<1>6. CASE \E x \in Controllers : /\ sm.state = Goal(x) /\ e = LockEvent(x)
                                  /\ Known(sm, x) # "LOCKED"
  BY <1>0, <1>1, <1>2, <1>3, <1>6, OpeningArrival DEF SmoothInv, OpeningInv
<1>7. ASSUME NEW x \in Controllers, sm.state = Goal(x), e = StatusEvent(x, "OPEN"),
             ~BothKnown(sm', {"OPEN", "CLOSED"}),
             sm'.state = sm.state, timer' = timer, told' = {},
             SendsTo(OtherOf(x), <<"unsafe">>)
      PROVE  SmoothInv' /\ CooperationSucceeds' /\ LockedIsLocked'
  <2>1. OpeningInv(x)
    BY <1>7 DEF SmoothInv
  <2>2. \A y \in Controllers : OpeningDoor(y)'
    BY <1>0, <1>1, <1>2, <1>3, <2>1, OpeningArrival DEF OpeningInv
  <2>3. OtherOf(x) \in Controllers /\ OtherOf(x) # x
    BY Goals
  <2>4. commands'[x] = <<>> /\ commands'[OtherOf(x)] = <<"unsafe">>
    BY <1>7, <2>3 DEF SendsTo
  <2>5. FirstDoor(x)'
    BY <1>5, <1>7, <2>1, <2>4 DEF OpeningInv, FirstDoor
  <2>6. SecondDoor(OtherOf(x))'
    BY <1>5, <2>1, <2>4 DEF OpeningInv, SecondDoor
  <2>7. FollowsUp(x, OtherOf(x))'
    BY <2>4 DEF FollowsUp
  <2>8. OpeningInv(x)'
    BY <1>7, <2>1, <2>2, <2>5, <2>6, <2>7 DEF OpeningInv
  <2>9. SmoothInv'
    BY <1>4, <1>7, <2>8, Goals DEF SmoothInv
  <2> QED
    BY <1>7, <2>9 DEF CooperationSucceeds, LockedIsLocked
<1>8. CASE /\ \E x \in Controllers : sm.state = Goal(x)
           /\ BothKnown(sm', {"OPEN", "CLOSED"})
           /\ sm'.state = "IDLE" /\ timer' = {} /\ told' = {"OPEN_SUCCESSFUL"}
           /\ commands' = [x \in Controllers |-> <<>>]
  <2>1. PICK x \in Controllers : OpeningInv(x)
    BY <1>8 DEF SmoothInv
  <2>2. ASSUME NEW y \in Controllers
        PROVE  doors[y].door # "LOCKED"
    <3>1. Known(sm', y) # "LOCKED"
      BY <1>8 DEF BothKnown, Known
    <3>2. OpeningDoor(y)'
      BY <1>0, <1>1, <1>2, <1>3, <2>1, OpeningArrival DEF OpeningInv
    <3> QED
      BY <1>5, <3>1, <3>2 DEF OpeningDoor
  <2>3. ASSUME NEW y \in Controllers
        PROVE  IdleDoor(y)'
    <3>1. OpeningDoor(y) /\ doors[y].stage # "opening"
      BY <2>1, <2>2 DEF OpeningInv, OpeningDoor
    <3>2. CASE y = x
      BY <1>5, <1>8, <2>1, <3>1, <3>2 DEF OpeningInv, FirstDoor, OpeningDoor, IdleDoor
    <3>3. CASE y = OtherOf(x)
      BY <1>5, <1>8, <2>1, <3>1, <3>3 DEF OpeningInv, SecondDoor, IdleDoor
    <3> QED
      BY <3>2, <3>3, Goals
  <2>4. SmoothInv'
    BY <1>4, <1>8, <2>3, Goals DEF SmoothInv, IdleInv
  <2> QED
    BY <1>8, <2>4 DEF CooperationSucceeds, LockedIsLocked
<1>9. CASE /\ sm.state = "WAIT_FOR_LOCKED" /\ BothKnown(sm', {"LOCKED"})
           /\ sm'.state = "IDLE" /\ timer' = {} /\ told' = {"LOCK_SUCCESSFUL"}
           /\ commands' = [x \in Controllers |-> <<>>]
  <2>1. \A x \in Controllers : LockingDoor(x)
    BY <1>9 DEF SmoothInv, LockingInv
  <2>2. ASSUME NEW x \in Controllers
        PROVE  doors[x].door = "LOCKED" /\ doors[x].stage = "idle" /\ commands'[x] = <<>>
    <3>1. Known(sm', x) = "LOCKED"
      BY <1>9 DEF BothKnown, Known
    <3>2. doors[x].door = "LOCKED"
      BY <1>0, <1>1, <1>2, <1>3, <2>1, <3>1, LockedKnown
    <3> QED
      BY <1>9, <2>1, <3>2 DEF LockingDoor
  <2>3. SmoothInv'
    BY <1>4, <1>5, <1>9, <2>2, Goals DEF SmoothInv, IdleInv, IdleDoor
  <2> QED
    BY <1>5, <1>9, <2>2, <2>3 DEF CooperationSucceeds, LockedIsLocked
<1>10. CASE /\ sm'.state = sm.state /\ timer' = timer /\ told' = {}
            /\ commands' = [x \in Controllers |-> <<>>]
            /\ \A x \in Controllers : sm.state = Goal(x) =>
                  ~BothKnown(sm', {"OPEN", "CLOSED"}) /\ e # StatusEvent(x, "OPEN")
            /\ sm.state = "WAIT_FOR_LOCKED" => ~BothKnown(sm', {"LOCKED"})
  <2>1. \A x \in Controllers : commands'[x] = commands[x]
    BY <1>5, <1>10
  <2>2. ASSUME sm.state = "IDLE"
        PROVE  SmoothInv'
    <3>1. IdleInv'
      BY <1>5, <1>10, <2>1, <2>2 DEF SmoothInv, IdleInv, IdleDoor
    <3> QED
      BY <1>4, <1>10, <2>2, <3>1, Goals DEF SmoothInv
  <2>3. ASSUME sm.state = "WAIT_FOR_LOCKED"
        PROVE  SmoothInv'
    <3>1. ASSUME NEW x \in Controllers
          PROVE  LockingDoor(x)'
      <4>1. LockingDoor(x)
        BY <2>3 DEF SmoothInv, LockingInv
      <4>2. /\ ~NoneOf(inbox', {LockEvent(x)}) => doors[x].door = "LOCKED"
            /\ Known(sm', x) = "LOCKED" => doors[x].door = "LOCKED"
        BY <1>0, <1>1, <1>2, <1>3, <4>1, LockedKnown
      <4> QED
        BY <1>5, <1>10, <2>1, <4>1, <4>2 DEF LockingDoor
    <3>2. LockingInv'
      BY <1>10, <2>3, <3>1 DEF SmoothInv, LockingInv
    <3> QED
      BY <1>4, <1>10, <2>3, <3>2, Goals DEF SmoothInv
  <2>4. ASSUME NEW x \in Controllers, sm.state = Goal(x)
        PROVE  SmoothInv'
    <3>1. OpeningInv(x) /\ KnowsDoor(x)
      BY <2>4 DEF SmoothInv
    <3>2. \A y \in Controllers : OpeningDoor(y)'
      BY <1>0, <1>1, <1>2, <1>3, <3>1, OpeningArrival DEF OpeningInv
    <3>3. OtherOf(x) \in Controllers
      BY Goals
    <3>4. FirstDoor(x)'
      BY <1>5, <1>10, <2>1, <3>1 DEF OpeningInv, FirstDoor
    <3>5. SecondDoor(OtherOf(x))'
      BY <1>5, <2>1, <3>1, <3>3 DEF OpeningInv, SecondDoor
    <3>6. FollowsUp(x, OtherOf(x))'
      <4> SUFFICES ASSUME timer # {6}, x \in heard, doors[x].door = "OPEN",
                          NoneOf(inbox', Of(x))
                   PROVE  ~(/\ doors[OtherOf(x)].stage = "idle"
                            /\ doors[OtherOf(x)].door = "LOCKED"
                            /\ commands[OtherOf(x)] = <<>>)
        BY <1>5, <1>10, <2>1, <3>3 DEF FollowsUp
      <4> DEFINE X == Of(x)
                 v == StatusEvent(x, doors[x].door)
      <4>1. e # v
        BY <1>10, <2>4
      <4>2. LastIs(inbox, X, v) /\ NoneOf(inbox', X)
        BY <3>1 DEF KnowsDoor
      <4> HIDE DEF X, v
      <4>3. NoneOf(inbox, X)
        <5>1. /\ LastIs(inbox, X, v) =>
                    (Head(inbox) \in X /\ NoneOf(Tail(inbox), X) => Head(inbox) = v)
              /\ NoneOf(inbox, X) <=> Head(inbox) \notin X /\ NoneOf(Tail(inbox), X)
          BY <1>0, TailMessages
        <5> QED
          BY <1>2, <4>1, <4>2, <5>1 DEF Arrives
      <4> QED
        BY <3>1, <4>3 DEF OpeningInv, FollowsUp, X
    <3>7. OpeningInv(x)'
      BY <1>10, <2>4, <3>1, <3>2, <3>4, <3>5, <3>6 DEF OpeningInv
    <3> QED
      BY <1>4, <1>10, <2>4, <3>7, Goals DEF SmoothInv
  <2>5. sm.state \in States
    BY <1>0 DEF PortalTypes, Machines
  <2>6. SmoothInv'
    BY <2>2, <2>3, <2>4, <2>5, Goals
  <2> QED
    BY <1>10, <2>6 DEF CooperationSucceeds, LockedIsLocked
<1> QED
  BY <1>0, <1>1, <1>6, <1>7, <1>8, <1>9, <1>10, MessageDoes
-----------------------------------------------------------------------------
(* A request.                                                                 *)
LEMMA RequestSmooth ==
    ASSUME TimesInv, smooth, SmoothInv, Request
    PROVE  SmoothInv' /\ CooperationSucceeds' /\ LockedIsLocked'
<1>0. PortalTypes
  BY DEF TimesInv
<1>1. PICK e \in SshRequests \cup Buttons : Applies(e)
  BY DEF Request
<1>2. /\ doors' = doors /\ left' = left /\ inbox' = inbox /\ smooth' = smooth /\ heard' = heard
      /\ sm.state = "IDLE" /\ inbox = <<>> /\ \A x \in Controllers : commands[x] = <<>>
      /\ \A x \in Controllers : doors[x].stage = "idle" /\ doors[x].seen = doors[x].door
  BY DEF Request, AtRest, Quiet
<1>3. Learns(e)
  BY <1>0, <1>1, RequestDoes
<1>4. /\ sm'.b2 = sm.b2 /\ sm'.c2 = sm.c2
      /\ \A x \in Controllers : Known(sm', x) = Known(sm, x)
  BY <1>0, <1>1, <1>3, NotLearned
<1>5. IdleInv /\ \A x \in Controllers : KnowsDoor(x)
  BY <1>2 DEF SmoothInv
<1>6. \A x \in Controllers : KnowsDoor(x)'
  BY <1>2, <1>4, <1>5 DEF KnowsDoor
<1>7. \A X, v : /\ NoneOf(inbox, X) /\ AllAre(inbox, X, v) /\ FirstAre(inbox, X, v)
  BY <1>2 DEF NoneOf, AllAre, FirstAre
<1>8. ASSUME NEW x \in Controllers
      PROVE  /\ doors[x].door = "LOCKED" => Known(sm', x) = "LOCKED"
             /\ Known(sm', x) = "LOCKED" => doors[x].door = "LOCKED"
  <2>1. \/ Known(sm, x) = doors[x].door
        \/ Known(sm, x) = "UNOBSERVED" /\ doors[x].seen = "CLOSED"
    BY <1>5, <1>7 DEF KnowsDoor
  <2> QED
    BY <1>2, <1>4, <2>1
<1>9. sm \in Machines
  BY <1>0 DEF PortalTypes
<1>10. ASSUME NEW x \in Controllers, sm_get_shack_state(sm) # "OPEN",
              sm'.state = Goal(x), timer' = {STATE_MACHINE_TIMEOUT}, told' = {},
              SendsTo(x, <<"safe">>)
       PROVE  SmoothInv' /\ CooperationSucceeds' /\ LockedIsLocked'
  <2>1. OtherOf(x) \in Controllers /\ OtherOf(x) # x
    BY Goals
  <2>2. commands'[x] = <<"safe">> /\ commands'[OtherOf(x)] = <<>> /\ timer' = {6}
    BY <1>10, <2>1 DEF SendsTo, STATE_MACHINE_TIMEOUT
  <2>3. ~BothKnown(sm', {"OPEN", "CLOSED"})
    BY <1>4, <1>9, <1>10, ShackIs DEF BothKnown
  <2>4. ASSUME NEW y \in Controllers
        PROVE  OpeningDoor(y)'
    BY <1>2, <1>7, <1>8 DEF OpeningDoor
  <2>5. <<"safe">> # <<>>
    OBVIOUS
  <2>6. FirstDoor(x)'
    BY <1>2, <2>2, <2>5 DEF FirstDoor
  <2>7. SecondDoor(OtherOf(x))' /\ FollowsUp(x, OtherOf(x))'
    BY <1>2, <2>1, <2>2 DEF SecondDoor, FollowsUp
  <2>8. OpeningInv(x)'
    BY <2>2, <2>3, <2>4, <2>6, <2>7 DEF OpeningInv
  <2>9. SmoothInv'
    BY <1>6, <1>10, <2>8, Goals DEF SmoothInv
  <2> QED
    BY <1>10, <2>9 DEF CooperationSucceeds, LockedIsLocked
<1>11. CASE /\ sm_get_shack_state(sm) # "LOCKED"
            /\ Does("WAIT_FOR_LOCKED", {STATE_MACHINE_TIMEOUT}, <<"close">>, <<"close">>, {})
  <2>1. /\ sm'.state = "WAIT_FOR_LOCKED" /\ timer' = {6} /\ told' = {}
        /\ \A x \in Controllers : commands'[x] = <<"close">>
    BY <1>11 DEF Does, STATE_MACHINE_TIMEOUT
  <2>2. ~BothKnown(sm', {"LOCKED"})
    BY <1>4, <1>9, <1>11, ShackIs DEF BothKnown
  <2>3. <<"close">> # <<>> /\ {5} # {6}
    OBVIOUS
  <2>4. ASSUME NEW y \in Controllers
        PROVE  LockingDoor(y)'
    BY <1>2, <1>7, <1>8, <2>1, <2>3 DEF LockingDoor
  <2>5. LockingInv'
    BY <2>1, <2>2, <2>4 DEF LockingInv
  <2>6. SmoothInv'
    BY <1>6, <2>1, <2>5, Goals DEF SmoothInv
  <2> QED
    BY <2>1, <2>6 DEF CooperationSucceeds, LockedIsLocked
<1>12. CASE Does(sm.state, timer, <<>>, <<>>, {})
  <2>1. /\ sm'.state = "IDLE" /\ timer' = timer /\ told' = {}
        /\ \A x \in Controllers : commands'[x] = <<>>
    BY <1>2, <1>12 DEF Does
  <2>2. IdleInv'
    BY <1>2, <1>5, <2>1 DEF IdleInv, IdleDoor
  <2>3. SmoothInv'
    BY <1>6, <2>1, <2>2, Goals DEF SmoothInv
  <2> QED
    BY <2>1, <2>3 DEF CooperationSucceeds, LockedIsLocked
<1>13. CASE /\ sm_get_shack_state(sm) # "OPEN"
            /\ \/ Does("WAIT_FOR_OPEN_VIA_B", {STATE_MACHINE_TIMEOUT}, <<"safe">>, <<>>, {})
               \/ Does("WAIT_FOR_OPEN_VIA_C", {STATE_MACHINE_TIMEOUT}, <<>>, <<"safe">>, {})
  <2>1. \E x \in Controllers :
           /\ sm'.state = Goal(x) /\ timer' = {STATE_MACHINE_TIMEOUT} /\ told' = {}
           /\ SendsTo(x, <<"safe">>)
    <3>1. "B2" \in Controllers /\ "C2" \in Controllers
      BY DEF Controllers
    <3>2. CASE Does("WAIT_FOR_OPEN_VIA_B", {STATE_MACHINE_TIMEOUT}, <<"safe">>, <<>>, {})
      BY <3>1, <3>2 DEF Does, Goal, SendsTo
    <3>3. CASE Does("WAIT_FOR_OPEN_VIA_C", {STATE_MACHINE_TIMEOUT}, <<>>, <<"safe">>, {})
      <4>1. SendsTo("C2", <<"safe">>)
        BY <3>3 DEF Does, SendsTo, Controllers
      <4> QED
        BY <3>1, <3>3, <4>1 DEF Does, Goal
    <3> QED
      BY <1>13, <3>2, <3>3
  <2> QED
    BY <1>10, <1>13, <2>1
<1> QED
  BY <1>0, <1>1, <1>11, <1>12, <1>13, RequestDoes
-----------------------------------------------------------------------------
(* A controller carries out a command, or ignores it.                         *)

(* What a command does to the door x.                                         *)
LEMMA CommandDoes ==
    ASSUME PortalTypes, NEW x \in Controllers, CommandArrives(x)
    PROVE  /\ commands[x] # <<>> /\ commands'[x] = <<>>
           /\ \A y \in Controllers : y # x =>
                 doors'[y] = doors[y] /\ left'[y] = left[y] /\ commands'[y] = commands[y]
           /\ sm' = sm /\ timer' = timer /\ smooth' = smooth /\ inbox' = inbox /\ heard' = heard
           /\ told' = {}
           /\ commands[x] # <<"reset">> =>
                 /\ doors'[x].door = doors[x].door /\ doors'[x].seen = doors[x].seen
                 /\ \/ /\ doors'[x].stage = doors[x].stage /\ doors'[x].kind = doors[x].kind
                       /\ left'[x] = left[x]
                       /\ \/ doors[x].stage # "idle"
                          \/ commands[x] = <<"close">> /\ doors[x].seen = "LOCKED"
                          \/ commands[x] # <<"close">> /\ doors[x].seen # "LOCKED"
                    \/ /\ commands[x] = <<"close">> /\ doors[x].stage = "idle"
                       /\ doors[x].seen # "LOCKED"
                       /\ doors'[x].stage = IF doors[x].seen = "OPEN" THEN "closing" ELSE "locking"
                       /\ left'[x] = StageTime[doors'[x].stage]
                    \/ /\ commands[x] # <<"close">> /\ doors[x].stage = "idle"
                       /\ doors[x].seen = "LOCKED"
                       /\ doors'[x].stage = "opening" /\ left'[x] = 1
                       /\ commands[x] = <<doors'[x].kind>>
<1> DEFINE k == Head(commands[x])
           r == IF k = "reset" THEN S(x)!Restarted(doors[x])
                ELSE IF S(x)!Takes(doors[x], k) THEN S(x)!Accepted(doors[x], k)
                ELSE doors[x]
<1>1. Becomes(x, r) /\ commands[x] # <<>> /\ inbox' = inbox /\ heard' = heard
  BY DEF CommandArrives
<1>2. k \in {"safe", "unsafe", "close", "reset"} /\ commands[x] = <<k>>
  BY <1>1, CommandIs
<1>3. commands' = [commands EXCEPT ![x] = <<>>]
  BY <1>1, CommandIs DEF CommandArrives
<1>4. doors[x] \in Services
  BY DEF PortalTypes
<1> HIDE DEF k
<1>5. r \in Services
  BY <1>2, <1>4, RestartedIs, AcceptedIs
<1> HIDE DEF r
<1>6. r \in Published
  BY <1>5, ServicesPublished
<1>7. /\ doors'[x].door = r.door /\ doors'[x].seen = r.seen
      /\ doors'[x].stage = r.stage /\ doors'[x].kind = r.kind
      /\ left'[x] = IF r.stage = doors[x].stage THEN left[x] ELSE StageTime[r.stage]
      /\ \A y \in Controllers : y # x => doors'[y] = doors[y] /\ left'[y] = left[y]
  BY <1>1, <1>6, BecomesIs
<1>8. sm' = sm /\ timer' = timer /\ smooth' = smooth /\ told' = {}
  BY <1>1 DEF Becomes
<1>9. commands'[x] = <<>> /\ \A y \in Controllers : y # x => commands'[y] = commands[y]
  BY <1>3 DEF PortalTypes
<1>10. /\ commands[x] = <<"reset">> <=> k = "reset"
       /\ commands[x] = <<"close">> <=> k = "close"
  BY <1>2
<1>11. CASE k = "reset"
  BY <1>1, <1>7, <1>8, <1>9, <1>10, <1>11
<1>12. CASE k # "reset" /\ S(x)!Takes(doors[x], k)
  <2>1. r = S(x)!Accepted(doors[x], k) /\ k \in {"safe", "unsafe", "close"}
    BY <1>2, <1>12 DEF r
  <2>2. /\ r.door = doors[x].door /\ r.seen = doors[x].seen /\ r.kind = k
        /\ r.stage = IF k # "close" THEN "opening"
                     ELSE IF doors[x].seen = "OPEN" THEN "closing" ELSE "locking"
    BY <1>4, <2>1, AcceptedIs
  <2>3. /\ doors[x].stage = "idle"
        /\ IF k = "close" THEN doors[x].seen # "LOCKED" ELSE doors[x].seen = "LOCKED"
    BY <1>12 DEF S!Takes
  <2>4. left'[x] = StageTime[doors'[x].stage]
    BY <1>7, <2>2, <2>3
  <2>5. CASE k = "close"
    BY <1>1, <1>7, <1>8, <1>9, <1>10, <2>2, <2>3, <2>4, <2>5
  <2>6. CASE k # "close"
    BY <1>1, <1>2, <1>7, <1>8, <1>9, <1>10, <2>2, <2>3, <2>4, <2>6, StageTimes
  <2> QED
    BY <2>5, <2>6
<1>13. CASE k # "reset" /\ ~S(x)!Takes(doors[x], k)
  <2>1. r = doors[x]
    BY <1>13 DEF r
  <2>2. \/ doors[x].stage # "idle"
        \/ k = "close" /\ doors[x].seen = "LOCKED"
        \/ k # "close" /\ doors[x].seen # "LOCKED"
    BY <1>13 DEF S!Takes
  <2> QED
    BY <1>1, <1>7, <1>8, <1>9, <1>10, <2>1, <2>2
<1> QED
  BY <1>11, <1>12, <1>13

(* The door x is left alone by a step that sends and takes no message.        *)
Alone(x) == doors'[x] = doors[x] /\ left'[x] = left[x] /\ commands'[x] = commands[x]

(* A command reaches its controller.                                          *)
LEMMA CommandSmooth ==
    ASSUME TimesInv, smooth, SmoothInv, NEW x \in Controllers, CommandArrives(x)
    PROVE  SmoothInv' /\ CooperationSucceeds' /\ LockedIsLocked'
<1>0. PortalTypes
  BY DEF TimesInv
<1>1. /\ commands[x] # <<>> /\ commands'[x] = <<>>
      /\ \A y \in Controllers : y # x => Alone(y)
      /\ sm' = sm /\ timer' = timer /\ smooth' = smooth /\ inbox' = inbox /\ heard' = heard
      /\ told' = {}
  BY <1>0, CommandDoes DEF Alone
<1>2. commands[x] # <<"reset">> /\ sm.state # "IDLE"
  <2>1. sm.state \in States
    BY <1>0 DEF PortalTypes, Machines
  <2>2. \A k \in {<<>>, <<"close">>, <<"safe">>, <<"unsafe">>} : k # <<"reset">>
    OBVIOUS
  <2>3. sm.state # "IDLE"
    BY <1>1 DEF SmoothInv, IdleInv, IdleDoor
  <2>4. CASE sm.state = "WAIT_FOR_LOCKED"
    BY <2>2, <2>3, <2>4 DEF SmoothInv, LockingInv, LockingDoor
  <2>5. ASSUME NEW y \in Controllers, sm.state = Goal(y)
        PROVE  commands[x] # <<"reset">>
    <3>1. FirstDoor(y) /\ SecondDoor(OtherOf(y))
      BY <2>5 DEF SmoothInv, OpeningInv
    <3> QED
      BY <2>2, <3>1, Goals DEF FirstDoor, SecondDoor
  <2> QED
    BY <2>1, <2>3, <2>4, <2>5, Goals
<1>3. /\ doors'[x].door = doors[x].door /\ doors'[x].seen = doors[x].seen
      /\ \/ /\ doors'[x].stage = doors[x].stage /\ doors'[x].kind = doors[x].kind
            /\ left'[x] = left[x]
            /\ \/ doors[x].stage # "idle"
               \/ commands[x] = <<"close">> /\ doors[x].seen = "LOCKED"
               \/ commands[x] # <<"close">> /\ doors[x].seen # "LOCKED"
         \/ /\ commands[x] = <<"close">> /\ doors[x].stage = "idle"
            /\ doors[x].seen # "LOCKED"
            /\ doors'[x].stage = IF doors[x].seen = "OPEN" THEN "closing" ELSE "locking"
            /\ left'[x] = StageTime[doors'[x].stage]
         \/ /\ commands[x] # <<"close">> /\ doors[x].stage = "idle"
            /\ doors[x].seen = "LOCKED"
            /\ doors'[x].stage = "opening" /\ left'[x] = 1
            /\ commands[x] = <<doors'[x].kind>>
  BY <1>0, <1>2, CommandDoes
<1>4. ASSUME NEW y \in Controllers
      PROVE  KnowsDoor(y)'
  <2>1. KnowsDoor(y)
    BY DEF SmoothInv
  <2>2. CASE y = x
    <3>1. doors'[x].stage # "idle" => left'[x] >= 1
      BY <1>3, <2>1, <2>2, StageTimes DEF KnowsDoor
    <3> QED
      BY <1>1, <1>3, <2>1, <2>2, <3>1 DEF KnowsDoor
  <2>3. CASE y # x
    BY <1>1, <2>1, <2>3 DEF KnowsDoor, Alone
  <2> QED
    BY <2>2, <2>3
<1>5. CASE sm.state = "WAIT_FOR_LOCKED"
  <2>1. LockingInv
    BY <1>5 DEF SmoothInv
  <2>2. ASSUME NEW y \in Controllers
        PROVE  LockingDoor(y)'
    <3>1. LockingDoor(y)
      BY <2>1 DEF LockingInv
    <3>2. CASE y = x
      <4>1. commands[x] = <<"close">> /\ doors[x].stage = "idle" /\ timer = {6} /\ {5} # {6}
        BY <1>1, <3>1, <3>2 DEF LockingDoor
      <4> QED
        BY <1>1, <1>3, <3>1, <3>2, <4>1 DEF LockingDoor
    <3>3. CASE y # x
      BY <1>1, <3>1, <3>3 DEF LockingDoor, Alone
    <3> QED
      BY <3>2, <3>3
  <2>3. LockingInv'
    BY <1>1, <2>1, <2>2 DEF LockingInv
  <2> QED
    BY <1>1, <1>4, <1>5, <2>3, Goals DEF SmoothInv, CooperationSucceeds, LockedIsLocked
<1>6. ASSUME NEW g \in Controllers, sm.state = Goal(g)
      PROVE  SmoothInv' /\ CooperationSucceeds' /\ LockedIsLocked'
  <2>1. OpeningInv(g) /\ OtherOf(g) \in Controllers /\ OtherOf(g) # g
    BY <1>6, Goals DEF SmoothInv
  <2>2. FirstDoor(g) /\ SecondDoor(OtherOf(g)) /\ FollowsUp(g, OtherOf(g))
    BY <2>1 DEF OpeningInv
  <2>3. /\ <<"safe">> # <<"close">> /\ <<"unsafe">> # <<"close">>
        /\ \A k : <<k>> = <<"safe">> => k = "safe"
        /\ \A k : <<k>> = <<"unsafe">> => k = "unsafe"
    OBVIOUS
  <2>4. commands[x] # <<"close">>
    BY <1>1, <2>2, <2>3, Goals DEF FirstDoor, SecondDoor
  <2>5. ASSUME NEW y \in Controllers
        PROVE  OpeningDoor(y)'
    <3>1. OpeningDoor(y)
      BY <2>1 DEF OpeningInv
    <3>2. CASE y = x
      BY <1>1, <1>3, <2>4, <3>1, <3>2 DEF OpeningDoor
    <3>3. CASE y # x
      BY <1>1, <3>1, <3>3 DEF OpeningDoor, Alone
    <3> QED
      BY <3>2, <3>3
  <2>6. CASE x = g
    <3>1. commands[x] = <<"safe">> /\ doors[x].stage = "idle" /\ timer = {6}
      BY <1>1, <2>2, <2>6 DEF FirstDoor
    <3>2. doors[x].seen = doors[x].door
      BY <2>1 DEF OpeningInv, OpeningDoor
    <3>3. FirstDoor(g)'
      BY <1>1, <1>3, <2>3, <2>4, <2>6, <3>1, <3>2 DEF FirstDoor
    <3>4. SecondDoor(OtherOf(g))' /\ FollowsUp(g, OtherOf(g))'
      BY <1>1, <2>1, <2>2, <2>6, <3>1 DEF SecondDoor, FollowsUp, Alone
    <3>5. OpeningInv(g)'
      BY <1>1, <2>1, <2>5, <3>3, <3>4 DEF OpeningInv
    <3> QED
      BY <1>1, <1>4, <1>6, <3>5, Goals DEF SmoothInv, CooperationSucceeds, LockedIsLocked
  <2>7. CASE x = OtherOf(g)
    <3>1. commands[x] = <<"unsafe">> /\ doors[x].seen = doors[x].door
      BY <1>1, <2>1, <2>2, <2>7 DEF SecondDoor, OpeningInv, OpeningDoor
    <3>2. FirstDoor(g)'
      BY <1>1, <2>1, <2>2, <2>7 DEF FirstDoor, Alone
    <3>3. SecondDoor(x)'
      BY <1>1, <1>3, <2>2, <2>3, <2>4, <2>7, <3>1 DEF SecondDoor
    <3>4. FollowsUp(g, x)'
      BY <1>3, <2>4, <3>1 DEF FollowsUp
    <3>5. OpeningInv(g)'
      BY <1>1, <2>1, <2>5, <2>7, <3>2, <3>3, <3>4 DEF OpeningInv
    <3> QED
      BY <1>1, <1>4, <1>6, <3>5, Goals DEF SmoothInv, CooperationSucceeds, LockedIsLocked
  <2> QED
    BY <2>6, <2>7, Goals
<1>7. sm.state \in States
  BY <1>0 DEF PortalTypes, Machines
<1> QED
  BY <1>2, <1>5, <1>6, <1>7, Goals
-----------------------------------------------------------------------------
(* A controller reads its door.                                               *)

(* The stage after a reading of the record b, when nothing fails.             *)
StageAfter(b) ==
    IF b.door = b.seen THEN b.stage
    ELSE CASE b.stage = "opening" /\ b.door # "LOCKED" ->
                IF b.door = "CLOSED" /\ b.kind = "safe" THEN "entry" ELSE "idle"
           [] b.stage = "entry" /\ b.door = "OPEN" -> "idle"
           [] b.stage = "closing" /\ b.door = "CLOSED" -> "locking"
           [] b.stage = "locking" /\ b.door = "LOCKED" -> "idle"
           [] OTHER -> b.stage

(* A set of two.                                                              *)
LEMMA Pair ==
    ASSUME NEW a, NEW c, a # c
    PROVE  Cardinality({a, c}) = 2
<1>1. IsFiniteSet({a}) /\ Cardinality({a}) = 1
  BY FS_Singleton
<1>2. {a, c} = {a} \cup {c} /\ c \notin {a}
  OBVIOUS
<1>3. Cardinality({a} \cup {c}) = Cardinality({a}) + 1
  BY <1>1, <1>2, FS_AddElement
<1> QED
  BY <1>1, <1>2, <1>3

(* When the button is not pressed late, a reading leads to one stage.         *)
LEMMA ReadingStage ==
    ASSUME NEW x, NEW b \in Services, NEW s \in S(x)!AfterReading(b),
           Cardinality(S(x)!AfterReading(b)) > 1 => s # b.stage
    PROVE  s = StageAfter(b)
<1>1. /\ b.door \in {"OPEN", "CLOSED", "LOCKED"} /\ b.seen \in {"OPEN", "CLOSED", "LOCKED"}
      /\ b.stage \in {"idle", "opening", "entry", "closing", "locking"}
  BY DEF Services
<1>2. CASE b.door # b.seen /\ b.stage = "opening" /\ b.door # "LOCKED"
  <2> DEFINE t == IF b.door = "CLOSED" /\ b.kind = "safe" THEN "entry" ELSE "idle"
  <2>1. S(x)!AfterReading(b) = {"opening", t}
    BY <1>1, <1>2 DEF S!AfterReading
  <2>2. t # "opening"
    OBVIOUS
  <2>3. StageAfter(b) = t
    BY <1>2 DEF StageAfter
  <2> HIDE DEF t
  <2>4. Cardinality({"opening", t}) > 1
    <3>1. Cardinality({"opening", t}) = 2
      BY <2>2, Pair, Zenon
    <3> QED
      BY <3>1
  <2> QED
    BY <1>2, <2>1, <2>3, <2>4
<1>3. CASE b.door # b.seen /\ b.stage = "locking" /\ b.door = "LOCKED"
  <2>1. S(x)!AfterReading(b) = {"locking", "idle"}
    BY <1>1, <1>3 DEF S!AfterReading
  <2>2. Cardinality({"locking", "idle"}) > 1
    <3>1. "locking" # "idle"
      OBVIOUS
    <3>2. Cardinality({"locking", "idle"}) = 2
      BY <3>1, Pair, Zenon
    <3> QED
      BY <3>2
  <2>3. StageAfter(b) = "idle"
    BY <1>3 DEF StageAfter
  <2> QED
    BY <1>3, <2>1, <2>2, <2>3
<1>4. CASE /\ ~(b.door # b.seen /\ b.stage = "opening" /\ b.door # "LOCKED")
           /\ ~(b.door # b.seen /\ b.stage = "locking" /\ b.door = "LOCKED")
  BY <1>1, <1>4 DEF S!AfterReading, StageAfter
<1> QED
  BY <1>2, <1>3, <1>4

(* What a reading does to the door x, when nothing fails.                     *)
LEMMA ReadsDoes ==
    ASSUME PortalTypes, smooth, NEW x \in Controllers, NEW b \in Services, Reads(x, b)
    PROVE  /\ \A y \in Controllers : y # x => Alone(y)
           /\ commands' = commands
           /\ sm' = sm /\ timer' = timer /\ smooth' = smooth /\ told' = {}
           /\ inbox' = Append(inbox, StatusEvent(x, b.door)) /\ heard' = heard \cup {x}
           /\ doors'[x].door = b.door /\ doors'[x].seen = b.door
           /\ doors'[x].stage = StageAfter(b)
           /\ doors'[x].stage # "idle" => doors'[x].kind = b.kind
           /\ left'[x] = IF StageAfter(b) = doors[x].stage THEN left[x]
                         ELSE StageTime[StageAfter(b)]
<1>1. PICK r \in S(x)!Readings(b) :
         /\ Becomes(x, r)
         /\ Cardinality(S(x)!AfterReading(b)) > 1 => r.stage # b.stage
  BY DEF Reads
<1>2. /\ r \in Published /\ r.door = b.door /\ r.seen = b.door
      /\ r.stage \in S(x)!AfterReading(b) /\ (r.stage # "idle" => r.kind = b.kind)
  BY <1>1, ReadingIs
<1>3. r.stage = StageAfter(b)
  BY <1>1, <1>2, ReadingStage
<1>4. /\ doors'[x].door = r.door /\ doors'[x].seen = r.seen
      /\ doors'[x].stage = r.stage /\ doors'[x].kind = r.kind
      /\ left'[x] = IF r.stage = doors[x].stage THEN left[x] ELSE StageTime[r.stage]
      /\ \A y \in Controllers : y # x => doors'[y] = doors[y] /\ left'[y] = left[y]
  BY <1>1, <1>2, BecomesIs
<1>5. /\ commands' = commands /\ heard' = heard \cup {x}
      /\ inbox' = Append(inbox, StatusEvent(x, b.door))
  BY DEF Reads
<1>6. sm' = sm /\ timer' = timer /\ smooth' = smooth /\ told' = {}
  BY <1>1 DEF Becomes
<1> QED
  BY <1>2, <1>3, <1>4, <1>5, <1>6 DEF Alone

(* The door as a controller finds it: as it was, or moved; only the motor     *)
(* turns the lock, and only when asked to.                                    *)
Finds(x, b) ==
    /\ b \in Services
    /\ b.seen = doors[x].seen /\ b.stage = doors[x].stage /\ b.kind = doors[x].kind
    /\ \/ b.door = doors[x].door
       \/ /\ b.door # doors[x].door /\ (b.door = "CLOSED" \/ doors[x].door = "CLOSED")
          /\ doors[x].door = "LOCKED" => doors[x].stage = "opening"
          /\ b.door = "LOCKED" => doors[x].stage = "locking"

(* The daemon will know what was found.                                       *)
LEMMA KnowsReading ==
    ASSUME TimesInv, smooth, NEW x \in Controllers, NEW b, Finds(x, b), Reads(x, b),
           NEW y \in Controllers, KnowsDoor(x), KnowsDoor(y)
    PROVE  KnowsDoor(y)'
<1>0. PortalTypes /\ b \in Services /\ b.door \in {"OPEN", "CLOSED", "LOCKED"}
  BY DEF TimesInv, Finds, Services
<1>1. /\ \A z \in Controllers : z # x => Alone(z)
      /\ sm' = sm /\ heard' = heard \cup {x}
      /\ inbox' = Append(inbox, StatusEvent(x, b.door))
      /\ doors'[x].door = b.door
      /\ doors'[x].stage = StageAfter(b)
      /\ left'[x] = IF StageAfter(b) = doors[x].stage THEN left[x] ELSE StageTime[StageAfter(b)]
  BY <1>0, ReadsDoes
<1> DEFINE w == StatusEvent(x, b.door)
<1>2. inbox \in Seq(DoorEvents) /\ w \in DoorEvents /\ w \in Of(x)
  BY <1>0, StatusEventIs DEF PortalTypes
<1> HIDE DEF w
<1>3. CASE y = x
  <2>1. LastIs(inbox', Of(x), w) /\ ~NoneOf(inbox', Of(x))
    BY <1>1, <1>2, AppendMessages DEF w
  <2>2. StageAfter(b) \in {"idle", "opening", "entry", "closing", "locking"}
    BY <1>0 DEF StageAfter, Services
  <2>3. StageAfter(b) # "idle" => left'[x] >= 1
    BY <1>1, <2>2, StageTimes DEF KnowsDoor
  <2> QED
    BY <1>1, <1>3, <2>1, <2>3 DEF KnowsDoor, w
<1>4. CASE y # x
  <2>1. w \notin Of(y)
    BY <1>2, <1>4, StatusEvents
  <2> DEFINE v == StatusEvent(y, doors[y].door)
  <2>2. LastIs(inbox, Of(y), v)
    BY DEF KnowsDoor
  <2> HIDE DEF v
  <2>3. LastIs(inbox', Of(y), v) /\ (NoneOf(inbox', Of(y)) => NoneOf(inbox, Of(y)))
    BY <1>1, <1>2, <2>1, <2>2, AppendMessages DEF w
  <2> QED
    BY <1>1, <1>4, <2>3 DEF KnowsDoor, Alone, v
<1> QED
  BY <1>3, <1>4

(* A controller reads its door.                                               *)
LEMMA ReadsSmooth ==
    ASSUME TimesInv, smooth, SmoothInv, NEW x \in Controllers, NEW b, Finds(x, b), Reads(x, b)
    PROVE  SmoothInv' /\ CooperationSucceeds' /\ LockedIsLocked'
<1>0. PortalTypes /\ b \in Services /\ b.door \in {"OPEN", "CLOSED", "LOCKED"}
  BY DEF TimesInv, Finds, Services
<1>1. /\ \A y \in Controllers : y # x => Alone(y)
      /\ commands' = commands
      /\ sm' = sm /\ timer' = timer /\ smooth' = smooth /\ told' = {}
      /\ inbox' = Append(inbox, StatusEvent(x, b.door)) /\ heard' = heard \cup {x}
      /\ doors'[x].door = b.door /\ doors'[x].seen = b.door
      /\ doors'[x].stage = StageAfter(b)
      /\ doors'[x].stage # "idle" => doors'[x].kind = b.kind
      /\ left'[x] = IF StageAfter(b) = doors[x].stage THEN left[x] ELSE StageTime[StageAfter(b)]
  BY <1>0, ReadsDoes
<1>2. \A y \in Controllers : KnowsDoor(y)'
  BY KnowsReading DEF SmoothInv
<1>3. /\ b.seen = doors[x].seen /\ b.stage = doors[x].stage /\ b.kind = doors[x].kind
      /\ \/ b.door = doors[x].door
         \/ /\ b.door # doors[x].door /\ (b.door = "CLOSED" \/ doors[x].door = "CLOSED")
            /\ doors[x].door = "LOCKED" => doors[x].stage = "opening"
            /\ b.door = "LOCKED" => doors[x].stage = "locking"
  BY DEF Finds
<1> DEFINE w == StatusEvent(x, b.door)
<1>4. inbox \in Seq(DoorEvents) /\ w \in DoorEvents /\ w \in Of(x)
  BY <1>0, StatusEventIs DEF PortalTypes
<1>5. w = LockEvent(x) <=> b.door = "LOCKED"
  BY <1>0, StatusEvents DEF LockEvent
<1>6. \A y \in Controllers : LockEvent(y) \in Of(y)
  BY StatusEventIs DEF LockEvent
<1>7. \A y \in Controllers : y # x => w \notin Of(y) /\ w # LockEvent(y)
  BY <1>4, <1>6, StatusEvents
<1> HIDE DEF w
<1>8. \A y \in Controllers :
         NoneOf(inbox', {LockEvent(y)}) <=> NoneOf(inbox, {LockEvent(y)}) /\ w # LockEvent(y)
  <2> SUFFICES ASSUME NEW y \in Controllers
               PROVE  NoneOf(inbox', {LockEvent(y)}) <=>
                         NoneOf(inbox, {LockEvent(y)}) /\ w # LockEvent(y)
    OBVIOUS
  <2> DEFINE X == {LockEvent(y)}
  <2> HIDE DEF X
  <2>1. NoneOf(Append(inbox, w), X) <=> NoneOf(inbox, X) /\ w \notin X
    BY <1>4, AppendMessages
  <2> QED
    BY <1>1, <2>1 DEF X, w
<1>9. sm.state \in States
  BY <1>0 DEF PortalTypes, Machines
<1>10. CASE sm.state = "IDLE"
  <2>1. IdleInv
    BY <1>10 DEF SmoothInv
  <2>2. IdleDoor(x)'
    <3>1. IdleDoor(x)
      BY <2>1 DEF IdleInv
    <3>2. CASE doors[x].stage = "idle"
      BY <1>1, <1>3, <3>1, <3>2 DEF IdleDoor, StageAfter
    <3>3. CASE doors[x].stage = "entry" /\ doors[x].door = "CLOSED" /\ doors[x].seen = "CLOSED"
      BY <1>0, <1>1, <1>3, <3>1, <3>3 DEF IdleDoor, StageAfter
    <3> QED
      BY <3>1, <3>2, <3>3 DEF IdleDoor
  <2>3. ASSUME NEW y \in Controllers, y # x
        PROVE  IdleDoor(y)'
    BY <1>1, <2>1, <2>3 DEF IdleInv, IdleDoor, Alone
  <2>4. IdleInv'
    BY <1>1, <2>1, <2>2, <2>3 DEF IdleInv
  <2> QED
    BY <1>1, <1>2, <1>10, <2>4, Goals DEF SmoothInv, CooperationSucceeds, LockedIsLocked
<1>11. CASE sm.state = "WAIT_FOR_LOCKED"
  <2>1. LockingInv
    BY <1>11 DEF SmoothInv
  <2>2. LockingDoor(x)'
    <3>1. LockingDoor(x)
      BY <2>1 DEF LockingInv
    <3>2. CASE b.door = doors[x].door
      <4>1. doors'[x].stage = doors[x].stage /\ left'[x] = left[x]
        BY <1>1, <1>3, <3>1, <3>2 DEF LockingDoor, StageAfter
      <4> QED
        BY <1>1, <1>3, <1>5, <1>8, <3>1, <3>2, <4>1 DEF LockingDoor
    <3>3. CASE b.door # doors[x].door
      <4>1. doors[x].door # "LOCKED"
        BY <1>3, <3>1, <3>3 DEF LockingDoor
      <4>2. CASE doors[x].stage = "idle"
        <5>1. doors'[x].stage = "idle" /\ left'[x] = left[x] /\ b.door # "LOCKED"
          BY <1>1, <1>3, <3>3, <4>2 DEF StageAfter
        <5> QED
          BY <1>1, <1>3, <1>5, <1>8, <3>1, <3>3, <4>1, <4>2, <5>1 DEF LockingDoor
      <4>3. CASE doors[x].stage = "closing"
        <5>1. b.door = "CLOSED" /\ doors[x].door = "OPEN"
          BY <1>3, <3>1, <3>3, <4>3 DEF LockingDoor
        <5>2. doors'[x].stage = "locking" /\ left'[x] = 1
          BY <1>1, <1>3, <3>1, <4>3, <5>1, StageTimes DEF LockingDoor, StageAfter
        <5> QED
          BY <1>1, <1>3, <1>5, <1>8, <3>1, <4>3, <5>1, <5>2 DEF LockingDoor
      <4>4. CASE doors[x].stage = "locking"
        <5>1. commands[x] = <<>>
          BY <3>1, <4>4 DEF LockingDoor
        <5>2. CASE b.door = "LOCKED"
          <6>1. doors'[x].stage = "idle" /\ left'[x] = 0
            BY <1>1, <1>3, <3>1, <3>3, <4>4, <5>2, StageTimes DEF LockingDoor, StageAfter
          <6> QED
            BY <1>1, <3>1, <5>1, <5>2, <6>1 DEF LockingDoor
        <5>3. CASE b.door # "LOCKED"
          <6>1. doors'[x].stage = "locking" /\ left'[x] = left[x]
            BY <1>1, <1>3, <4>4, <5>3 DEF StageAfter
          <6> QED
            BY <1>1, <1>5, <1>8, <3>1, <4>1, <5>1, <5>3, <6>1, <4>4 DEF LockingDoor
        <5> QED
          BY <5>2, <5>3
      <4> QED
        BY <3>1, <4>2, <4>3, <4>4 DEF LockingDoor
    <3> QED
      BY <3>2, <3>3
  <2>3. ASSUME NEW y \in Controllers, y # x
        PROVE  LockingDoor(y)'
    BY <1>1, <1>7, <1>8, <2>1, <2>3 DEF LockingInv, LockingDoor, Alone
  <2>4. LockingInv'
    BY <1>1, <2>1, <2>2, <2>3 DEF LockingInv
  <2> QED
    BY <1>1, <1>2, <1>11, <2>4, Goals DEF SmoothInv, CooperationSucceeds, LockedIsLocked
<1>12. ASSUME NEW g \in Controllers, sm.state = Goal(g)
       PROVE  SmoothInv' /\ CooperationSucceeds' /\ LockedIsLocked'
  <2>1. OpeningInv(g) /\ OtherOf(g) \in Controllers /\ OtherOf(g) # g
    BY <1>12, Goals DEF SmoothInv
  <2>2. FirstDoor(g) /\ SecondDoor(OtherOf(g)) /\ FollowsUp(g, OtherOf(g)) /\ OpeningDoor(x)
    BY <2>1 DEF OpeningInv
  <2>3. b.door = "LOCKED" => doors[x].door = "LOCKED"
    <3>1. doors[x].stage # "locking"
      BY <2>2, Goals DEF FirstDoor, SecondDoor
    <3> QED
      BY <1>3, <3>1
  <2>4. ASSUME NEW y \in Controllers
        PROVE  OpeningDoor(y)'
    <3>1. OpeningDoor(y)
      BY <2>1 DEF OpeningInv
    <3> DEFINE X == Of(y)
               l == LockEvent(y)
    <3>2. CASE y = x
      <4>1. w = l => AllAre(inbox, X, l) /\ Known(sm, x) = "LOCKED"
        BY <1>5, <2>3, <3>1, <3>2 DEF OpeningDoor
      <4>2. FirstAre(inbox, X, l) /\ (b.door = "LOCKED" => AllAre(inbox, X, l) /\ w = l)
        BY <1>5, <2>3, <3>1, <3>2 DEF OpeningDoor
      <4>3. doors'[x].stage = "opening" => doors'[x].door = "LOCKED"
        BY <1>0, <1>1, <1>3, <2>2 DEF OpeningDoor, StageAfter, Services
      <4> HIDE DEF X, l
      <4>4. FirstAre(inbox', X, l)
        BY <1>1, <1>4, <4>1, <4>2, AppendMessages DEF w
      <4>5. b.door = "LOCKED" => AllAre(inbox', X, l)
        BY <1>1, <1>4, <4>2, AppendMessages DEF w
      <4> QED
        BY <1>1, <1>8, <2>3, <3>1, <3>2, <4>1, <4>3, <4>4, <4>5 DEF OpeningDoor, X, l
    <3>3. CASE y # x
      <4>1. w \notin X /\ w # l
        BY <1>7, <3>3
      <4>2. FirstAre(inbox, X, l) /\ (doors[y].door = "LOCKED" => AllAre(inbox, X, l))
        BY <3>1 DEF OpeningDoor
      <4> HIDE DEF X, l
      <4>3. FirstAre(inbox', X, l)
        BY <1>1, <1>4, <4>1, <4>2, AppendMessages DEF w
      <4>4. doors[y].door = "LOCKED" => AllAre(inbox', X, l)
        BY <1>1, <1>4, <4>1, <4>2, AppendMessages DEF w
      <4> QED
        BY <1>1, <1>8, <3>1, <3>3, <4>1, <4>3, <4>4 DEF OpeningDoor, Alone, X, l
    <3> QED
      BY <3>2, <3>3
  <2>5. CASE x = g
    <3>1. FirstDoor(g)'
      <4>1. CASE doors[x].stage = "idle"
        <5>1. doors'[x].stage = "idle" /\ left'[x] = left[x]
          BY <1>1, <1>3, <4>1 DEF StageAfter
        <5> QED
          BY <1>1, <2>2, <2>3, <2>5, <4>1, <5>1 DEF FirstDoor
      <4>2. CASE doors[x].stage = "opening"
        <5>1. /\ commands[x] = <<>> /\ timer = {6} /\ doors[x].door = "LOCKED"
              /\ doors[x].seen = "LOCKED" /\ doors[x].kind = "safe"
          BY <2>2, <2>5, <4>2 DEF FirstDoor, OpeningDoor
        <5>2. CASE b.door = "LOCKED"
          <6>1. doors'[x].stage = "opening" /\ left'[x] = left[x]
            BY <1>1, <1>3, <4>2, <5>1, <5>2 DEF StageAfter
          <6> QED
            BY <1>1, <1>3, <2>5, <5>1, <6>1 DEF FirstDoor
        <5>3. CASE b.door # "LOCKED"
          <6>1. b.door = "CLOSED"
            BY <1>0, <1>3, <5>1, <5>3
          <6>2. doors'[x].stage = "entry" /\ left'[x] = 3
            BY <1>1, <1>3, <4>2, <5>1, <6>1, StageTimes DEF StageAfter
          <6> QED
            BY <1>1, <2>5, <5>1, <6>1, <6>2 DEF FirstDoor
        <5> QED
          BY <5>2, <5>3
      <4>3. CASE doors[x].stage = "entry"
        <5>1. commands[x] = <<>> /\ doors[x].door = "CLOSED" /\ doors[x].seen = "CLOSED"
              /\ timer = {3 + left[x]}
          BY <2>2, <2>5, <4>3 DEF FirstDoor, OpeningDoor
        <5>2. CASE b.door = "CLOSED"
          <6>1. doors'[x].stage = "entry" /\ left'[x] = left[x]
            BY <1>1, <1>3, <4>3, <5>1, <5>2 DEF StageAfter
          <6> QED
            BY <1>1, <2>5, <5>1, <5>2, <6>1 DEF FirstDoor
        <5>3. CASE b.door # "CLOSED"
          <6>1. b.door = "OPEN"
            BY <1>0, <2>3, <5>1, <5>3
          <6>2. doors'[x].stage = "idle"
            BY <1>1, <1>3, <4>3, <5>1, <6>1 DEF StageAfter
          <6> QED
            BY <1>1, <2>5, <5>1, <6>1, <6>2 DEF FirstDoor
        <5> QED
          BY <5>2, <5>3
      <4> QED
        BY <2>2, <2>5, <4>1, <4>2, <4>3 DEF FirstDoor
    <3>2. SecondDoor(OtherOf(g))'
      BY <1>1, <2>1, <2>2, <2>5 DEF SecondDoor, Alone
    <3>3. FollowsUp(g, OtherOf(g))'
      <4>1. ~NoneOf(inbox', Of(g))
        BY <1>1, <1>4, <2>5, AppendMessages DEF w
      <4> QED
        BY <4>1 DEF FollowsUp
    <3>4. OpeningInv(g)'
      BY <1>1, <2>1, <2>4, <3>1, <3>2, <3>3 DEF OpeningInv
    <3> QED
      BY <1>1, <1>2, <1>12, <3>4, Goals DEF SmoothInv, CooperationSucceeds, LockedIsLocked
  <2>6. CASE x = OtherOf(g)
    <3>1. FirstDoor(g)'
      BY <1>1, <2>1, <2>2, <2>6 DEF FirstDoor, Alone
    <3>2. SecondDoor(x)' /\ (b.door = doors[x].door => doors'[x].stage = doors[x].stage)
      <4>1. doors[x].stage \in {"idle", "opening"} /\ doors[x].seen = doors[x].door
        BY <2>2, <2>6 DEF SecondDoor, OpeningDoor
      <4>2. \/ doors'[x].stage = doors[x].stage
            \/ doors'[x].stage = "idle" /\ b.door # doors[x].door
        BY <1>1, <1>3, <2>2, <2>6, <4>1 DEF SecondDoor, StageAfter
      <4> QED
        BY <1>1, <1>3, <2>2, <2>6, <4>1, <4>2 DEF SecondDoor
    <3>3. FollowsUp(g, x)'
      <4>1. doors'[x].door = "LOCKED" => doors[x].door = "LOCKED" /\ doors'[x].stage = doors[x].stage
        BY <1>1, <2>3, <3>2
      <4>2. NoneOf(inbox', Of(g)) => NoneOf(inbox, Of(g))
        BY <1>1, <1>4, AppendMessages DEF w
      <4>3. Alone(g) /\ (g \in heard' => g \in heard)
        BY <1>1, <2>1, <2>6
      <4> QED
        BY <1>1, <2>2, <2>6, <4>1, <4>2, <4>3 DEF FollowsUp, Alone
    <3>4. OpeningInv(g)'
      BY <1>1, <2>1, <2>4, <2>6, <3>1, <3>2, <3>3 DEF OpeningInv
    <3> QED
      BY <1>1, <1>2, <1>12, <3>4, Goals DEF SmoothInv, CooperationSucceeds, LockedIsLocked
  <2> QED
    BY <2>5, <2>6, Goals
<1> QED
  BY <1>9, <1>10, <1>11, <1>12, Goals
(* The door is read as it is, or as somebody or the motor has moved it.       *)
LEMMA OwnReadingSmooth ==
    ASSUME TimesInv, smooth, SmoothInv, NEW x \in Controllers, DoorReads(x) \/ DoorMoves(x)
    PROVE  SmoothInv' /\ CooperationSucceeds' /\ LockedIsLocked'
<1>0. doors[x] \in Services
  BY DEF TimesInv, PortalTypes
<1>1. CASE DoorReads(x)
  <2>1. Finds(x, doors[x]) /\ Reads(x, doors[x])
    BY <1>0, <1>1 DEF Finds, DoorReads
  <2> QED
    BY <2>1, ReadsSmooth
<1>2. CASE DoorMoves(x)
  <2>1. PICK r \in S(x)!Moved(doors[x]) :
           /\ Reads(x, r)
           /\ doors[x].door = "LOCKED" => doors[x].stage = "opening"
           /\ r.door = "LOCKED" => doors[x].stage = "locking"
    BY <1>2 DEF DoorMoves
  <2>2. /\ r \in Services
        /\ r.seen = doors[x].seen /\ r.stage = doors[x].stage /\ r.kind = doors[x].kind
        /\ r.door # doors[x].door /\ (r.door = "CLOSED" \/ doors[x].door = "CLOSED")
    BY <1>0, MovedIs
  <2>3. Finds(x, r)
    BY <2>1, <2>2 DEF Finds
  <2> QED
    BY <2>1, <2>3, ReadsSmooth
<1> QED
  BY <1>1, <1>2
-----------------------------------------------------------------------------
(* A unit of time passes.  Nobody waits so long that a stage or the daemon's  *)
(* own time runs out.                                                         *)
LEMMA TickSmooth ==
    ASSUME TimesInv, smooth, SmoothInv, Tick
    PROVE  SmoothInv' /\ CooperationSucceeds' /\ LockedIsLocked'
<1>0. /\ PortalTypes /\ doors \in [Controllers -> Services] /\ left \in [Controllers -> Nat]
      /\ \A x \in Controllers : left[x] <= StageTime[doors[x].stage]
  BY DEF TimesInv, TimesFit, PortalTypes
<1>1. /\ sm' = sm /\ doors' = doors /\ commands' = commands /\ inbox' = inbox
      /\ smooth' = smooth /\ told' = {} /\ heard' = {} /\ heard = Controllers
      /\ inbox = <<>>
      /\ timer' = {t - 1 : t \in timer}
      /\ left' = [x \in Controllers |-> IF left[x] = 0 THEN 0 ELSE left[x] - 1]
  BY DEF Tick, Quiet
<1>2. \A x \in Controllers : /\ commands[x] = <<>> /\ doors[x].seen = doors[x].door
                             /\ left[x] # 1 /\ ~UserAtDoor(x)
  BY DEF Tick, Quiet
<1>3. \A x \in Controllers : left[x] \in Nat /\ left'[x] = IF left[x] = 0 THEN 0 ELSE left[x] - 1
  BY <1>0, <1>1
<1>4. \A x \in Controllers : KnowsDoor(x)
  BY DEF SmoothInv
<1>5. \A x \in Controllers : KnowsDoor(x)'
  <2> SUFFICES ASSUME NEW x \in Controllers PROVE KnowsDoor(x)'
    OBVIOUS
  <2>1. doors[x].stage # "idle" => left'[x] >= 1
    BY <1>2, <1>3, <1>4 DEF KnowsDoor
  <2> QED
    BY <1>1, <1>4, <2>1 DEF KnowsDoor
<1>6. \A x \in Controllers : doors[x].stage # "opening"
  <2> SUFFICES ASSUME NEW x \in Controllers, doors[x].stage = "opening" PROVE FALSE
    OBVIOUS
  <2>1. left[x] <= 1 /\ left[x] >= 1
    BY <1>0, <1>4, StageTimes DEF KnowsDoor
  <2> QED
    BY <1>2, <1>3, <2>1
<1>7. \A x \in Controllers : Known(sm, x) = doors[x].door
  <2>1. \A x \in Controllers : NoneOf(inbox, Of(x))
    BY <1>1 DEF NoneOf
  <2> QED
    BY <1>1, <1>4, <2>1 DEF KnowsDoor
<1>8. Known(sm, "B2") = sm.b2 /\ Known(sm, "C2") = sm.c2 /\ "B2" \in Controllers /\ "C2" \in Controllers
  BY DEF Known, Controllers
<1>9. sm.state \in States
  BY <1>0 DEF PortalTypes, Machines
<1>10. CASE sm.state = "IDLE"
  <2>1. IdleInv
    BY <1>10 DEF SmoothInv
  <2>2. IdleInv'
    BY <1>1, <2>1 DEF IdleInv, IdleDoor
  <2> QED
    BY <1>1, <1>5, <1>10, <2>2, Goals DEF SmoothInv, CooperationSucceeds, LockedIsLocked
<1>11. CASE sm.state = "WAIT_FOR_LOCKED"
  <2>1. LockingInv
    BY <1>11 DEF SmoothInv
  <2>2. \A x \in Controllers : left'[x] <= 1
    <3> SUFFICES ASSUME NEW x \in Controllers PROVE left'[x] <= 1
      OBVIOUS
    <3>1. doors[x].stage \in {"idle", "closing", "locking"}
      BY <2>1 DEF LockingInv, LockingDoor
    <3>2. left[x] <= 2
      BY <1>0, <1>3, <3>1, StageTimes
    <3> QED
      BY <1>3, <3>2
  <2>3. timer # {5}
    <3> SUFFICES ASSUME timer = {5} PROVE FALSE
      OBVIOUS
    <3>1. ASSUME NEW x \in Controllers
          PROVE  doors[x].door = "LOCKED"
      <4>1. left[x] <= 1
        BY <2>1 DEF LockingInv, LockingDoor
      <4>2. doors[x].stage = "idle"
        BY <1>2, <1>3, <1>4, <4>1 DEF KnowsDoor
      <4> QED
        BY <1>2, <2>1, <4>2 DEF LockingInv, LockingDoor
    <3> QED
      BY <1>7, <1>8, <2>1, <3>1 DEF LockingInv, BothKnown
  <2>4. timer' = {5}
    BY <1>1, <2>1, <2>3 DEF LockingInv
  <2>5. \A x \in Controllers : LockingDoor(x)'
    BY <1>1, <1>2, <2>1, <2>2 DEF LockingInv, LockingDoor
  <2>6. LockingInv'
    BY <1>1, <2>1, <2>4, <2>5 DEF LockingInv
  <2> QED
    BY <1>1, <1>5, <1>11, <2>6, Goals DEF SmoothInv, CooperationSucceeds, LockedIsLocked
<1>12. ASSUME NEW g \in Controllers, sm.state = Goal(g)
       PROVE  SmoothInv' /\ CooperationSucceeds' /\ LockedIsLocked'
  <2>1. OpeningInv(g) /\ OtherOf(g) \in Controllers /\ OtherOf(g) # g
    BY <1>12, Goals DEF SmoothInv
  <2>2. FirstDoor(g) /\ SecondDoor(OtherOf(g)) /\ FollowsUp(g, OtherOf(g))
    BY <2>1 DEF OpeningInv
  <2>3. CASE doors[g].stage = "entry"
    <3>1. timer = {3 + left[g]} /\ left[g] \in {2, 3} /\ left'[g] = left[g] - 1
      BY <1>0, <1>2, <1>3, <1>4, <2>2, <2>3, StageTimes DEF FirstDoor, KnowsDoor
    <3>2. timer' = {3 + left'[g]} /\ timer' \in {{4}, {5}}
      BY <1>1, <3>1
    <3>3. FirstDoor(g)'
      BY <1>1, <1>2, <2>2, <2>3, <3>2 DEF FirstDoor
    <3>4. OpeningInv(g)'
      BY <1>1, <2>1, <2>2, <3>2, <3>3 DEF OpeningInv, OpeningDoor, SecondDoor, FollowsUp
    <3> QED
      BY <1>1, <1>5, <1>12, <3>4, Goals DEF SmoothInv, CooperationSucceeds, LockedIsLocked
  <2>4. CASE doors[g].stage = "idle"
    <3>1. doors[g].door = "OPEN"
      <4>1. doors[g].door # "LOCKED"
        BY <1>2, <2>2, <2>4 DEF FirstDoor
      <4>2. doors[g].door # "CLOSED"
        BY <1>2, <1>12, <2>4 DEF UserAtDoor, Goal
      <4> QED
        BY <1>0, <4>1, <4>2 DEF Services
    <3>2. timer = {6}
      <4> SUFFICES ASSUME timer # {6} PROVE FALSE
        OBVIOUS
      <4> DEFINE y == OtherOf(g)
      <4>1. NoneOf(inbox, Of(g)) /\ g \in heard
        BY <1>1 DEF NoneOf
      <4>2. ~(doors[y].stage = "idle" /\ doors[y].door = "LOCKED" /\ commands[y] = <<>>)
        BY <2>2, <3>1, <4>1 DEF FollowsUp
      <4>3. doors[y].stage = "idle"
        BY <1>6, <2>1, <2>2 DEF SecondDoor
      <4>4. doors[y].door # "LOCKED"
        BY <1>2, <2>1, <4>2, <4>3
      <4>5. \A x \in Controllers : doors[x].door \in {"OPEN", "CLOSED"}
        <5>1. \A x \in Controllers : x = g \/ x = y
          BY Goals
        <5> QED
          BY <1>0, <3>1, <4>4, <5>1 DEF Services
      <4> QED
        BY <1>7, <1>8, <2>1, <4>5 DEF OpeningInv, BothKnown
    <3>3. timer' = {5}
      BY <1>1, <3>2
    <3>4. FirstDoor(g)'
      BY <1>1, <1>2, <2>2, <2>4 DEF FirstDoor
    <3>5. OpeningInv(g)'
      BY <1>1, <2>1, <2>2, <3>3, <3>4 DEF OpeningInv, OpeningDoor, SecondDoor, FollowsUp
    <3> QED
      BY <1>1, <1>5, <1>12, <3>5, Goals DEF SmoothInv, CooperationSucceeds, LockedIsLocked
  <2> QED
    BY <1>6, <2>2, <2>3, <2>4 DEF FirstDoor
<1> QED
  BY <1>9, <1>10, <1>11, <1>12, Goals
-----------------------------------------------------------------------------
(* While nothing fails, neither a stage nor the daemon's own time runs out.   *)
LEMMA NoTimeout ==
    ASSUME TimesInv, SmoothInv
    PROVE  /\ ~DaemonTimeout
           /\ \A x \in Controllers : ~StageEnds(x)
<1>1. 0 \notin timer
  <2>1. timer = {} \/ timer \in {{4}, {5}, {6}}
    <3>1. sm.state \in States
      BY DEF TimesInv, PortalTypes, Machines
    <3> QED
      BY <3>1, Goals DEF SmoothInv, IdleInv, LockingInv, OpeningInv
  <2> QED
    BY <2>1
<1>2. ASSUME NEW x \in Controllers, StageEnds(x)
      PROVE  FALSE
  BY <1>2 DEF SmoothInv, KnowsDoor, StageEnds
<1> QED
  BY <1>1, <1>2 DEF DaemonTimeout

(* A step keeps the portal smooth or not.                                     *)
LEMMA SmoothStays ==
    ASSUME [Next]_vars
    PROVE  smooth' = smooth
BY DEF Next, vars, Request, StatusArrives, DaemonTimeout, Override, DaemonRestarts,
       CommandArrives, DoorReads, DoorMoves, Reads, StageEnds, ControllerRestarts, Becomes, Tick

(* Every step preserves the invariant of the portal.                          *)
LEMMA PortalStep ==
    ASSUME PortalInv, [Next]_vars
    PROVE  PortalInv'
<1>1. TimesInv'
  BY TimesStep DEF PortalInv
<1>2. CASE ~smooth
  BY <1>1, <1>2, SmoothStays DEF PortalInv, CooperationSucceeds, LockedIsLocked
<1>3. CASE smooth
  <2>1. TimesInv /\ SmoothInv
    BY <1>3 DEF PortalInv
  <2>2. CASE Request
    BY <1>1, <1>3, <2>1, <2>2, RequestSmooth DEF PortalInv
  <2>3. CASE StatusArrives
    BY <1>1, <1>3, <2>1, <2>3, StatusSmooth DEF PortalInv
  <2>4. CASE DaemonTimeout
    BY <2>1, <2>4, NoTimeout
  <2>5. CASE Override \/ DaemonRestarts
    BY <1>3, <2>5 DEF Override, DaemonRestarts
  <2>6. ASSUME NEW x \in Controllers, CommandArrives(x)
        PROVE  PortalInv'
    BY <1>1, <1>3, <2>1, <2>6, CommandSmooth DEF PortalInv
  <2>7. ASSUME NEW x \in Controllers, DoorReads(x) \/ DoorMoves(x)
        PROVE  PortalInv'
    BY <1>1, <1>3, <2>1, <2>7, OwnReadingSmooth DEF PortalInv
  <2>8. ASSUME NEW x \in Controllers, StageEnds(x) \/ ControllerRestarts(x)
        PROVE  FALSE
    BY <1>3, <2>1, <2>8, NoTimeout DEF ControllerRestarts
  <2>9. CASE Tick
    BY <1>1, <1>3, <2>1, <2>9, TickSmooth DEF PortalInv
  <2>10. CASE UNCHANGED vars
    <3>1. /\ sm' = sm /\ timer' = timer /\ doors' = doors /\ left' = left /\ commands' = commands
          /\ inbox' = inbox /\ told' = told /\ smooth' = smooth /\ heard' = heard
      BY <2>10 DEF vars
    <3>2. SmoothInv'
      <4>1. ASSUME NEW x \in Controllers
            PROVE  KnowsDoor(x)' <=> KnowsDoor(x)
        BY <3>1 DEF KnowsDoor
      <4>2. IdleInv' <=> IdleInv
        BY <3>1 DEF IdleInv, IdleDoor
      <4>3. LockingInv' <=> LockingInv
        BY <3>1 DEF LockingInv, LockingDoor
      <4>4. ASSUME NEW x \in Controllers
            PROVE  OpeningInv(x)' <=> OpeningInv(x)
        BY <3>1 DEF OpeningInv, OpeningDoor, FirstDoor, SecondDoor, FollowsUp
      <4> QED
        BY <2>1, <3>1, <4>1, <4>2, <4>3, <4>4 DEF SmoothInv
    <3> QED
      BY <1>1, <3>1, <3>2 DEF PortalInv, CooperationSucceeds, LockedIsLocked
  <2> QED
    BY <2>2, <2>3, <2>4, <2>5, <2>6, <2>7, <2>8, <2>9, <2>10 DEF Next
<1>4. smooth \in BOOLEAN
  BY DEF PortalInv, TimesInv, PortalTypes
<1> QED
  BY <1>2, <1>3

(* Initially the daemon has heard nothing, and waits for nothing.             *)
LEMMA PortalInit == Init => PortalInv
<1> SUFFICES ASSUME Init PROVE PortalInv
  OBVIOUS
<1>1. TimesInv
  BY TimesInit
<1>2. /\ timer = {} /\ inbox = <<>> /\ told = {} /\ heard = {}
      /\ \A x \in Controllers : commands[x] = <<>>
      /\ sm.state = "IDLE" /\ sm.b2 = "UNOBSERVED" /\ sm.c2 = "UNOBSERVED"
  BY DEF Init, sm_init
<1>3. ASSUME NEW x \in Controllers
      PROVE  doors[x].stage = "idle" /\ doors[x].seen = "CLOSED"
  <2>1. ASSUME NEW q \in {S("B2")!Started(p, "none") : p \in S("B2")!Positions}
        PROVE  q.stage = "idle" /\ q.seen = "CLOSED"
    BY StartedIs DEF S!Positions
  <2> QED
    BY <2>1 DEF Init
<1>4. \A x \in Controllers : KnowsDoor(x)
  BY <1>2, <1>3 DEF KnowsDoor, LastIs, Known
<1>5. SmoothInv
  BY <1>2, <1>3, <1>4, Goals DEF SmoothInv, IdleInv, IdleDoor
<1> QED
  BY <1>1, <1>2, <1>5 DEF PortalInv, CooperationSucceeds, LockedIsLocked

(* When nothing fails and everybody acts in time, the daemon never tells a    *)
(* user that the request has timed out: what it waits for is what it told the *)
(* controllers to do, however many messages are under way.                    *)
THEOREM RequestsSucceed == Spec => []CooperationSucceeds
<1>1. PortalInv => CooperationSucceeds
  BY DEF PortalInv
<1> QED
  BY <1>1, PortalInit, PortalStep, PTL DEF Spec

(* When nothing fails, a user who is told that the shack is locked leaves two *)
(* locked doors behind, however many messages are under way.                  *)
THEOREM LockedShackIsLocked == Spec => []LockedIsLocked
<1>1. PortalInv => LockedIsLocked
  BY DEF PortalInv
<1> QED
  BY <1>1, PortalInit, PortalStep, PTL DEF Spec
=============================================================================
