---------------------------- MODULE DoorService ----------------------------
(****************************************************************************)
(* What one door controller promises to the daemon, without its tasks, event  *)
(* bits, relays and sampling: a request is carried out in stages, one request *)
(* at a time; a stage ends with a reading of the door or with its timeout;    *)
(* and every status message was true of the door when it was sent.            *)
(* DoorControl implements it, Portal is built from two of them.               *)
(****************************************************************************)

Positions == {"OPEN", "CLOSED", "LOCKED"}

(* "opening" until the bolt is out, "entry" until somebody opens the door,    *)
(* "closing" until somebody closes it, "locking" until the bolt is in.        *)
Stages == {"idle", "opening", "entry", "closing", "locking"}
Kinds  == {"safe", "unsafe", "close"}

VARIABLE d   \* the door, its latest reading, the running request and its
             \* stage, and the status that was published last

ServiceTypeOK ==
    d \in [door: Positions, seen: Positions, stage: Stages, kind: Kinds \cup {"none"},
           status: Positions \cup {"none"}]

(* A controller that has just started: what it believes before the first      *)
(* stable reading is that the door is closed.                                 *)
Started(position, status) ==
    [door |-> position, seen |-> "CLOSED", stage |-> "idle", kind |-> "none",
     status |-> status]

ServiceInit == \E p \in Positions : d = Started(p, "none")

AtStage(r, s) == [r EXCEPT !.stage = s, !.kind = IF s = "idle" THEN "none" ELSE @]

(* A request is taken up when nothing else is going on and the door is not    *)
(* already as it should be.                                                   *)
Takes(r, k) == /\ r.stage = "idle"
               /\ IF k = "close" THEN r.seen # "LOCKED" ELSE r.seen = "LOCKED"

Accepted(r, k) ==
    [r EXCEPT !.kind = k,
              !.stage = IF k # "close" THEN "opening"
                        ELSE IF r.seen = "OPEN" THEN "closing" ELSE "locking"]

(* The stages that a new reading can lead to.  A reading while the motor's    *)
(* button is still pressed is stored and not acted on.                        *)
AfterReading(r) ==
    CASE r.door = r.seen -> {r.stage}
      [] r.stage = "opening" /\ r.door \notin {r.seen, "LOCKED"} ->
           {"opening", IF r.door = "CLOSED" /\ r.kind = "safe" THEN "entry" ELSE "idle"}
      [] r.stage = "entry" /\ r.door = "OPEN" /\ r.seen # "OPEN" -> {"idle"}
      [] r.stage = "closing" /\ r.door = "CLOSED" /\ r.seen # "CLOSED" -> {"locking"}
      [] r.stage = "locking" /\ r.door = "LOCKED" /\ r.seen # "LOCKED" -> {"locking", "idle"}
      [] OTHER -> {r.stage}

(* The door is read, and its status published; the message may be lost.       *)
ReadAt(r, s, status) == [AtStage(r, s) EXCEPT !.seen = r.door, !.status = status]

Readings(r) == {ReadAt(r, s, status) : s \in AfterReading(r), status \in {r.door, r.status}}

(* Nobody came in: the door is locked again, unless it was opened unsafely.   *)
AfterTimeout(r) == AtStage(r, IF r.stage = "entry" THEN "locking" ELSE "idle")

(* The controller is reset or gives up.                                       *)
Restarted(r) == Started(r.door, r.status)

Moved(r) == {[r EXCEPT !.door = p] : p \in IF r.door = "CLOSED" THEN {"OPEN", "LOCKED"}
                                                               ELSE {"CLOSED"}}

Accept(k) == Takes(d, k) /\ d' = Accepted(d, k)
Reading   == d' \in Readings(d)
Timeout   == d.stage # "idle" /\ d' = AfterTimeout(d)
Restart   == d' = Restarted(d)
Move      == d' \in Moved(d)

ServiceNext ==
    \/ \E k \in Kinds : Accept(k)
    \/ Reading
    \/ Timeout
    \/ Restart
    \/ Move

ServiceSpec == ServiceInit /\ [][ServiceNext]_d
=============================================================================
