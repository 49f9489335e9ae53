------------------------- MODULE PortalDaemonProofs -------------------------
(****************************************************************************)
(* Theorems about the daemon, for every number of processes and of entries in *)
(* its table, every width of the id counter, every size of the signal ring    *)
(* and every bound on batches and lost connections: the types, and the safety *)
(* properties of module PortalDaemon.  They are parts of one inductive        *)
(* invariant, DaemonInv.                                                      *)
(****************************************************************************)
EXTENDS PortalDaemon, IpcTableProofs

Entry  == [client_id: Ids, peer: Peers, flags: SUBSET Flags, forward_logs: BOOLEAN,
           revents: BOOLEAN]
Queued == [signal: SmSignals, client: 0 .. IdSpace - 1]

(* The table: its types, and that ids are unique.                             *)
TableOK ==
    /\ clients \in Seq(Entry)
    /\ Len(clients) <= Slots
    /\ next_ipc_client_id \in Ids
    /\ IdsUnique

(* The state machine and its ring: the types, and that a process that is      *)
(* being waited for is timed.  A daemon that has ended keeps no process.      *)
MachineOK ==
    /\ sm \in Machines
    /\ ring \in Seq(Queued)
    /\ Len(ring) <= RingSize
    /\ sm_timer \in {"off", "armed", "expired"}
    /\ up \in {"up", "exited", "crashed"}
    /\ lost \in BOOLEAN
    /\ up # "up" => sm.state = "IDLE"
    /\ OperationTimed

(* The place in the loop and the connection to the broker, with what the poll *)
(* table says of it.                                                          *)
LoopOK ==
    /\ pc \in {"drain", "sync", "poll", "serve"}
    /\ index \in 0 .. Slots + 3
    /\ ready \subseteq {"ipc", "mqtt", "timer"}
    /\ batch \in 0 .. MaxBatch
    /\ connected \in BOOLEAN
    /\ mqtt_fd \in {"socket", "timer", "closed"}
    /\ link \in {"ok", "closed", "broken"}
    /\ drops \in 0 .. MaxDrops
    /\ sent \subseteq Commands
    /\ shutdown_requested \in BOOLEAN
    /\ ConnectionPolled

(* The processes: one that is connected has one place, in the queue of the    *)
(* listener or in the table.                                                  *)
PeersOK ==
    /\ peers \in [Peers -> [at: {"out", "here", "left"}, msg: IpcMessages \cup {"none"}]]
    /\ backlog \in Seq(Peers)
    /\ unentered \subseteq Peers
    /\ \A i, j \in 1 .. Len(clients) : clients[i].peer = clients[j].peer => i = j
    /\ \A i, j \in 1 .. Len(backlog) : backlog[i] = backlog[j] => i = j
    /\ \A i \in 1 .. Len(clients), j \in 1 .. Len(backlog) : clients[i].peer # backlog[j]
    /\ \A i \in 1 .. Len(clients) : peers[clients[i].peer].at # "out"
    /\ \A j \in 1 .. Len(backlog) : peers[backlog[j]].at # "out"
    /\ pc = "serve" /\ index = 0 /\ "ipc" \in ready => backlog # <<>>

(* A refusal is only queued from the service of a client until the signals    *)
(* are handled: no client is accepted meanwhile.                              *)
RefusalOK ==
    /\ \A k \in 1 .. Len(ring) : ring[k].signal = "CANNOT_HANDLE_REQUEST" =>
          pc = "drain" \/ (pc = "serve" /\ index > 2)
    /\ RefusalMeetsRequester

(* Whoever waits for something waits for errors as well.                      *)
WaitersOK ==
    /\ \A i \in 1 .. Len(clients) : clients[i].flags # {} => "ERROR" \in clients[i].flags
    /\ WaitersHaveAnswer

(* The inductive invariant.                                                   *)
DaemonInv == TableOK /\ MachineOK /\ LoopOK /\ PeersOK /\ RefusalOK /\ WaitersOK

USE TableAssumption, DaemonAssumption

-----------------------------------------------------------------------------
(* The state machine.                                                         *)

Has(x, s) == \E i \in 1 .. Len(s) : s[i] = x

(* What the daemon relies on when the machine, in state s, reacts to event e  *)
(* with outcome o.                                                            *)
Reacts(s, e, o) ==
    /\ o.state \in States
    /\ o.signals \in Seq(SmSignals)
    /\ Has("CANCEL_TIMEOUT", o.signals) => o.state = "IDLE"
    /\ s = "IDLE" /\ o.state # "IDLE" => Has("START_TIMEOUT", o.signals)
    /\ e = "TIMEOUT" => o.state = "IDLE"
    /\ Has("CANNOT_HANDLE_REQUEST", o.signals) => e \in SshRequests
    /\ s = "WAIT_FOR_LOCKED" =>
         \/ o.state = "WAIT_FOR_LOCKED"
         \/ Has("LOCK_SUCCESSFUL", o.signals) \/ Has("USER_REQUESTED_TIMED_OUT", o.signals)
    /\ is_state_wait_for_open(s) =>
         \/ is_state_wait_for_open(o.state)
         \/ Has("OPEN_SUCCESSFUL", o.signals) \/ Has("USER_REQUESTED_TIMED_OUT", o.signals)
         \/ Has("UNLOCK_TIMEOUT", o.signals)
    /\ is_open_request(e) =>
         \/ is_state_wait_for_open(o.state)
         \/ Has("CHANGE_KEYHOLDER", o.signals) \/ Has("CANNOT_HANDLE_REQUEST", o.signals)
    /\ e = "SSH_CLOSE_REQUEST" =>
         \/ o.state = "WAIT_FOR_LOCKED"
         \/ Has("NO_STATE_CHANGE", o.signals) \/ Has("CANNOT_HANDLE_REQUEST", o.signals)

(* Short sequences.                                                           *)
LEMMA Short ==
    ASSUME NEW S, NEW a \in S, NEW b \in S, NEW c \in S
    PROVE  /\ <<>> \in Seq(S) /\ <<a>> \in Seq(S) /\ <<a, b>> \in Seq(S)
           /\ <<a, b, c>> \in Seq(S)
           /\ \A x : /\ ~Has(x, <<>>)
                     /\ Has(x, <<a>>) <=> x = a
                     /\ Has(x, <<a, b>>) <=> x \in {a, b}
                     /\ Has(x, <<a, b, c>>) <=> x \in {a, b, c}
<1>1. <<>> \in Seq(S) /\ <<a>> \in Seq(S) /\ <<a, b>> \in Seq(S) /\ <<a, b, c>> \in Seq(S)
  OBVIOUS
<1>2. /\ Len(<<>>) = 0 /\ Len(<<a>>) = 1 /\ Len(<<a, b>>) = 2 /\ Len(<<a, b, c>>) = 3
      /\ <<a>>[1] = a
      /\ <<a, b>>[1] = a /\ <<a, b>>[2] = b
      /\ <<a, b, c>>[1] = a /\ <<a, b, c>>[2] = b /\ <<a, b, c>>[3] = c
  OBVIOUS
<1>3. 1 .. 0 = {} /\ 1 .. 1 = {1} /\ 1 .. 2 = {1, 2} /\ 1 .. 3 = {1, 2, 3}
  OBVIOUS
<1>4. ASSUME NEW x
      PROVE  /\ ~Has(x, <<>>)
             /\ Has(x, <<a>>) <=> x = a
             /\ Has(x, <<a, b>>) <=> x \in {a, b}
             /\ Has(x, <<a, b, c>>) <=> x \in {a, b, c}
  <2>1. ~Has(x, <<>>)
    BY <1>2, <1>3 DEF Has
  <2>2. Has(x, <<a>>) <=> x = a
    BY <1>2, <1>3 DEF Has
  <2>3. Has(x, <<a, b>>) <=> x \in {a, b}
    BY <1>2, <1>3 DEF Has
  <2>4. Has(x, <<a, b, c>>) <=> x \in {a, b, c}
    BY <1>2, <1>3 DEF Has
  <2> QED
    BY <2>1, <2>2, <2>3, <2>4
<1> QED
  BY <1>1, <1>4

(* Outcome o leads to state st and sends the signals in sigs.                 *)
Yields(o, st, sigs) ==
    /\ o.state = st
    /\ o.signals \in Seq(SmSignals)
    /\ \A x : Has(x, o.signals) <=> x \in sigs

(* What the outcomes of the rules yield: no signal,                           *)
LEMMA YieldsNone ==
    ASSUME NEW st
    PROVE  Yields(Outcome(st, <<>>), st, {})
<1>1. Outcome(st, <<>>).state = st /\ Outcome(st, <<>>).signals = <<>>
  BY DEF Outcome
<1>2. "LOCK_ALL" \in SmSignals
  BY DEF SmSignals
<1>3. <<>> \in Seq(SmSignals) /\ \A x : ~Has(x, <<>>)
  BY <1>2, Short
<1> QED
  BY <1>1, <1>3 DEF Yields

(* One signal.                                                                *)
LEMMA YieldsOne ==
    ASSUME NEW st, NEW a \in SmSignals
    PROVE  Yields(Outcome(st, <<a>>), st, {a})
<1>1. Outcome(st, <<a>>).state = st /\ Outcome(st, <<a>>).signals = <<a>>
  BY DEF Outcome
<1>2. <<a>> \in Seq(SmSignals) /\ \A x : Has(x, <<a>>) <=> x = a
  BY Short
<1> QED
  BY <1>1, <1>2 DEF Yields

(* Two signals.                                                               *)
LEMMA YieldsTwo ==
    ASSUME NEW st, NEW a \in SmSignals, NEW b \in SmSignals
    PROVE  Yields(Outcome(st, <<a, b>>), st, {a, b})
<1>1. Outcome(st, <<a, b>>).state = st /\ Outcome(st, <<a, b>>).signals = <<a, b>>
  BY DEF Outcome
<1>2. <<a, b>> \in Seq(SmSignals) /\ \A x : Has(x, <<a, b>>) <=> x \in {a, b}
  BY Short
<1> QED
  BY <1>1, <1>2 DEF Yields

(* Three signals.                                                             *)
LEMMA YieldsThree ==
    ASSUME NEW st, NEW a \in SmSignals, NEW b \in SmSignals, NEW c \in SmSignals
    PROVE  Yields(Outcome(st, <<a, b, c>>), st, {a, b, c})
<1>1. Outcome(st, <<a, b, c>>).state = st /\ Outcome(st, <<a, b, c>>).signals = <<a, b, c>>
  BY DEF Outcome
<1>2. <<a, b, c>> \in Seq(SmSignals) /\ \A x : Has(x, <<a, b, c>>) <=> x \in {a, b, c}
  BY Short
<1> QED
  BY <1>1, <1>2 DEF Yields

(* The rules exclude each other: which one applies is decided by the event.   *)
LEMMA ReactionCases ==
    ASSUME NEW m, NEW e, NEW shack
    PROVE  /\ e = "TIMEOUT" /\ m.state # "IDLE" =>
                Reaction(m, e, shack) = Outcome("IDLE", <<"USER_REQUESTED_TIMED_OUT">>)
           /\ e \in DoorEvents => Reaction(m, e, shack) = OnDoor(m, e, shack)
           /\ e = "DOORBELL_FRONT" =>
                Reaction(m, e, shack) \in {Outcome(m.state, <<"OPEN_DOOR_B">>),
                                           Outcome(m.state, <<>>)}
           /\ e \in Buttons => Reaction(m, e, shack) = OnButton(m, e, shack)
           /\ e \in SshRequests /\ m.state # "IDLE" =>
                Reaction(m, e, shack) = Outcome(m.state, <<"CANNOT_HANDLE_REQUEST">>)
           /\ is_open_request(e) /\ m.state = "IDLE" =>
                Reaction(m, e, shack) = OnOpenRequest(m, e, shack)
           /\ e = "SSH_CLOSE_REQUEST" /\ m.state = "IDLE" =>
                Reaction(m, e, shack) = OnCloseRequest(m, shack)
           /\ /\ e \notin DoorEvents \cup Buttons \cup SshRequests \cup {"DOORBELL_FRONT"}
              /\ e = "TIMEOUT" => m.state = "IDLE"
              => Reaction(m, e, shack) = Outcome(m.state, <<>>)
<1> USE DEF DoorEvents, Buttons, SshRequests, is_ssh_request, is_open_request
<1>1. e = "TIMEOUT" /\ m.state # "IDLE" =>
        Reaction(m, e, shack) = Outcome("IDLE", <<"USER_REQUESTED_TIMED_OUT">>)
  BY DEF Reaction
<1>2. e \in DoorEvents => Reaction(m, e, shack) = OnDoor(m, e, shack)
  BY DEF Reaction
<1>3. e = "DOORBELL_FRONT" =>
        Reaction(m, e, shack) \in {Outcome(m.state, <<"OPEN_DOOR_B">>), Outcome(m.state, <<>>)}
  BY DEF Reaction
<1>4. e \in Buttons => Reaction(m, e, shack) = OnButton(m, e, shack)
  BY DEF Reaction
<1>5. e \in SshRequests /\ m.state # "IDLE" =>
        Reaction(m, e, shack) = Outcome(m.state, <<"CANNOT_HANDLE_REQUEST">>)
  BY DEF Reaction
<1>6. is_open_request(e) /\ m.state = "IDLE" =>
        Reaction(m, e, shack) = OnOpenRequest(m, e, shack)
  BY DEF Reaction
<1>7. e = "SSH_CLOSE_REQUEST" /\ m.state = "IDLE" =>
        Reaction(m, e, shack) = OnCloseRequest(m, shack)
  BY DEF Reaction
<1>8. /\ e \notin DoorEvents \cup Buttons \cup SshRequests \cup {"DOORBELL_FRONT"}
      /\ e = "TIMEOUT" => m.state = "IDLE"
      => Reaction(m, e, shack) = Outcome(m.state, <<>>)
  BY DEF Reaction
<1> QED
  BY <1>1, <1>2, <1>3, <1>4, <1>5, <1>6, <1>7, <1>8

(* The same for the rules about doors.                                        *)
LEMMA DoorCases ==
    ASSUME NEW m \in Machines, NEW e, NEW shack
    PROVE  \/ is_state_wait_for_open(m.state)
                /\ OnDoor(m, e, shack)
                     = Outcome("WAIT_FOR_LOCKED", <<"START_TIMEOUT", "UNLOCK_TIMEOUT">>)
           \/ OnDoor(m, e, shack) = Outcome(m.state, <<OtherDoor(e)>>)
           \/ is_state_wait_for_open(m.state)
                /\ OnDoor(m, e, shack) = Outcome("IDLE", <<"CANCEL_TIMEOUT", "OPEN_SUCCESSFUL">>)
           \/ m.state = "WAIT_FOR_LOCKED"
                /\ OnDoor(m, e, shack)
                     = Outcome("IDLE", <<"CANCEL_TIMEOUT", "LOCK_SUCCESSFUL", "OPEN_DOOR_B">>)
           \/ OnDoor(m, e, shack) = Outcome(m.state, <<>>)
<1> DEFINE o == OnDoor(m, e, shack)
<1>1. /\ AutoClosed(m, e) => is_state_wait_for_open(m.state)
      /\ Opened(m, e, shack) => is_state_wait_for_open(m.state)
      /\ Locked(m, e, shack) => m.state = "WAIT_FOR_LOCKED"
  BY DEF AutoClosed, Opened, Locked, is_state_wait_for_open
<1>2. \/ AutoClosed(m, e)
           /\ o = Outcome("WAIT_FOR_LOCKED", <<"START_TIMEOUT", "UNLOCK_TIMEOUT">>)
      \/ o = Outcome(m.state, <<OtherDoor(e)>>)
      \/ Opened(m, e, shack) /\ o = Outcome("IDLE", <<"CANCEL_TIMEOUT", "OPEN_SUCCESSFUL">>)
      \/ Locked(m, e, shack)
           /\ o = Outcome("IDLE", <<"CANCEL_TIMEOUT", "LOCK_SUCCESSFUL", "OPEN_DOOR_B">>)
      \/ o = Outcome(m.state, <<>>)
  BY DEF OnDoor
<1> QED
  BY <1>1, <1>2
(* Every rule of sm_apply_event is a reaction the daemon can rely on.         *)
LEMMA ReactionReacts ==
    ASSUME NEW m \in Machines, NEW e, NEW shack
    PROVE  Reacts(m.state, e, Reaction(m, e, shack))
<1> DEFINE s == m.state
           r == Reaction(m, e, shack)
<1>0. s \in States
  BY DEF Machines
<1> SUFFICES Reacts(s, e, r)
  OBVIOUS
<1>1. CASE e = "TIMEOUT" /\ s # "IDLE"
  <2>1. r = Outcome("IDLE", <<"USER_REQUESTED_TIMED_OUT">>)
    BY <1>1, ReactionCases
  <2>2. Yields(r, "IDLE", {"USER_REQUESTED_TIMED_OUT"})
    BY <2>1, YieldsOne DEF SmSignals
  <2> HIDE DEF r, s
  <2> QED
    BY <1>1, <2>2 DEF Yields, Reacts, States, SshRequests, is_open_request
<1>2. ASSUME NEW x \in {"OPEN_DOOR_B", "OPEN_DOOR_C", "OPEN_DOOR_B2_UNSAFE",
                        "OPEN_DOOR_C2_UNSAFE"},
             r = Outcome(s, <<x>>) \/ r = Outcome(s, <<>>),
             e = "TIMEOUT" => s = "IDLE", e \notin SshRequests
      PROVE  Reacts(s, e, r)
  <2>1. x \in SmSignals
    BY DEF SmSignals
  <2>2. Yields(r, s, {x}) \/ Yields(r, s, {})
    BY <1>2, <2>1, YieldsNone, YieldsOne
  <2> HIDE DEF r, s
  <2> QED
    BY <1>0, <1>2, <2>2 DEF Yields, Reacts, States, SshRequests, is_open_request
<1>3. CASE e \in DoorEvents
  <2>0. e # "TIMEOUT" /\ e \notin SshRequests /\ r = OnDoor(m, e, shack)
    BY <1>3, ReactionCases DEF DoorEvents, SshRequests
  <2>1. CASE is_state_wait_for_open(s)
               /\ r = Outcome("WAIT_FOR_LOCKED", <<"START_TIMEOUT", "UNLOCK_TIMEOUT">>)
    <3>1. Yields(r, "WAIT_FOR_LOCKED", {"START_TIMEOUT", "UNLOCK_TIMEOUT"})
      BY <2>1, YieldsTwo DEF SmSignals
    <3> HIDE DEF r, s
    <3> QED
      BY <2>0, <2>1, <3>1
         DEF Yields, Reacts, States, SshRequests, is_open_request, is_state_wait_for_open
  <2>2. CASE r = Outcome(s, <<OtherDoor(e)>>) \/ r = Outcome(s, <<>>)
    BY <1>2, <2>0, <2>2 DEF OtherDoor
  <2>3. CASE is_state_wait_for_open(s)
               /\ r = Outcome("IDLE", <<"CANCEL_TIMEOUT", "OPEN_SUCCESSFUL">>)
    <3>1. Yields(r, "IDLE", {"CANCEL_TIMEOUT", "OPEN_SUCCESSFUL"})
      BY <2>3, YieldsTwo DEF SmSignals
    <3> HIDE DEF r, s
    <3> QED
      BY <2>0, <2>3, <3>1
         DEF Yields, Reacts, States, SshRequests, is_open_request, is_state_wait_for_open
  <2>4. CASE s = "WAIT_FOR_LOCKED"
               /\ r = Outcome("IDLE", <<"CANCEL_TIMEOUT", "LOCK_SUCCESSFUL", "OPEN_DOOR_B">>)
    <3>1. {"CANCEL_TIMEOUT", "LOCK_SUCCESSFUL", "OPEN_DOOR_B"} \subseteq SmSignals
      BY DEF SmSignals
    <3>2. Yields(r, "IDLE", {"CANCEL_TIMEOUT", "LOCK_SUCCESSFUL", "OPEN_DOOR_B"})
      BY <2>4, <3>1, YieldsThree
    <3> HIDE DEF r, s
    <3> QED
      BY <2>0, <2>4, <3>2
         DEF Yields, Reacts, States, SshRequests, is_open_request, is_state_wait_for_open
  <2> QED
    BY <2>0, <2>1, <2>2, <2>3, <2>4, DoorCases
<1>4. ASSUME r = StartClosing, s = "IDLE", e # "TIMEOUT", ~is_open_request(e)
      PROVE  Reacts(s, e, r)
  <2>1. Yields(r, "WAIT_FOR_LOCKED", {"START_TIMEOUT", "LOCK_ALL"})
    BY <1>4, YieldsTwo DEF SmSignals, StartClosing
  <2> HIDE DEF r, s
  <2> QED
    BY <1>4, <2>1 DEF Yields, Reacts, States, is_state_wait_for_open
<1>5. CASE e \in Buttons
  <2>1. e # "TIMEOUT" /\ e \notin SshRequests /\ ~is_open_request(e) /\ r = OnButton(m, e, shack)
    BY <1>5, ReactionCases DEF Buttons, SshRequests, is_open_request
  <2>2. \/ \E x \in {"OPEN_DOOR_C", "OPEN_DOOR_B"} : r = Outcome(s, <<x>>)
        \/ r = StartClosing /\ s = "IDLE"
        \/ r = Outcome(s, <<>>)
    BY <2>1 DEF OnButton
  <2> HIDE DEF r, s
  <2> QED
    BY <1>2, <1>4, <2>1, <2>2
<1>6. CASE e \in SshRequests /\ s # "IDLE"
  <2>1. r = Outcome(s, <<"CANNOT_HANDLE_REQUEST">>)
    BY <1>6, ReactionCases
  <2>2. Yields(r, s, {"CANNOT_HANDLE_REQUEST"})
    BY <2>1, YieldsOne DEF SmSignals
  <2> HIDE DEF r, s
  <2> QED
    BY <1>0, <1>6, <2>2 DEF Yields, Reacts, SshRequests
<1>7. CASE is_open_request(e) /\ s = "IDLE"
  <2>1. r = OnOpenRequest(m, e, shack) /\ e \notin {"TIMEOUT", "SSH_CLOSE_REQUEST"}
    BY <1>7, ReactionCases DEF is_open_request
  <2>2. \/ r = Outcome("WAIT_FOR_OPEN_VIA_B",
                       <<"START_TIMEOUT", "OPEN_DOOR_B2_SAFE", "OPEN_DOOR_B">>)
        \/ r = Outcome("WAIT_FOR_OPEN_VIA_C",
                       <<"START_TIMEOUT", "OPEN_DOOR_C2_SAFE", "OPEN_DOOR_C">>)
        \/ r = Outcome("IDLE", <<"OPEN_DOOR_B", "CHANGE_KEYHOLDER">>)
        \/ r = Outcome("IDLE", <<"OPEN_DOOR_C", "CHANGE_KEYHOLDER">>)
    BY <2>1 DEF OnOpenRequest
  <2>3. CASE r = Outcome("WAIT_FOR_OPEN_VIA_B",
                         <<"START_TIMEOUT", "OPEN_DOOR_B2_SAFE", "OPEN_DOOR_B">>)
    <3>0. "START_TIMEOUT" \in SmSignals /\ "OPEN_DOOR_B2_SAFE" \in SmSignals
            /\ "OPEN_DOOR_B" \in SmSignals
      BY DEF SmSignals
    <3>1. Yields(r, "WAIT_FOR_OPEN_VIA_B", {"START_TIMEOUT", "OPEN_DOOR_B2_SAFE", "OPEN_DOOR_B"})
      BY <2>3, <3>0, YieldsThree
    <3> HIDE DEF r, s
    <3> QED
      BY <1>7, <2>1, <3>1 DEF Yields, Reacts, States, is_state_wait_for_open
  <2>4. CASE r = Outcome("WAIT_FOR_OPEN_VIA_C",
                         <<"START_TIMEOUT", "OPEN_DOOR_C2_SAFE", "OPEN_DOOR_C">>)
    <3>0. "START_TIMEOUT" \in SmSignals /\ "OPEN_DOOR_C2_SAFE" \in SmSignals
            /\ "OPEN_DOOR_C" \in SmSignals
      BY DEF SmSignals
    <3>1. Yields(r, "WAIT_FOR_OPEN_VIA_C", {"START_TIMEOUT", "OPEN_DOOR_C2_SAFE", "OPEN_DOOR_C"})
      BY <2>4, <3>0, YieldsThree
    <3> HIDE DEF r, s
    <3> QED
      BY <1>7, <2>1, <3>1 DEF Yields, Reacts, States, is_state_wait_for_open
  <2>5. ASSUME NEW x \in {"OPEN_DOOR_B", "OPEN_DOOR_C"},
               r = Outcome("IDLE", <<x, "CHANGE_KEYHOLDER">>)
        PROVE  Reacts(s, e, r)
    <3>0. x \in SmSignals /\ "CHANGE_KEYHOLDER" \in SmSignals
      BY DEF SmSignals
    <3>1. Yields(r, "IDLE", {x, "CHANGE_KEYHOLDER"})
      BY <2>5, <3>0, YieldsTwo
    <3> HIDE DEF r, s
    <3> QED
      BY <1>7, <2>1, <3>1 DEF Yields, Reacts, States, is_state_wait_for_open
  <2> QED
    BY <2>2, <2>3, <2>4, <2>5
<1>8. CASE e = "SSH_CLOSE_REQUEST" /\ s = "IDLE"
  <2>1. r = OnCloseRequest(m, shack) /\ ~is_open_request(e)
    BY <1>8, ReactionCases DEF is_open_request
  <2>2. CASE r = StartClosing
    BY <1>4, <1>8, <2>1, <2>2
  <2>3. CASE r = Outcome("IDLE", <<"NO_STATE_CHANGE", "OPEN_DOOR_B">>)
    <3>1. Yields(r, "IDLE", {"NO_STATE_CHANGE", "OPEN_DOOR_B"})
      BY <2>3, YieldsTwo DEF SmSignals
    <3> HIDE DEF r, s
    <3> QED
      BY <1>8, <2>1, <3>1 DEF Yields, Reacts, States, is_state_wait_for_open
  <2> QED
    BY <2>1, <2>2, <2>3 DEF OnCloseRequest
<1>9. CASE /\ e \notin DoorEvents \cup Buttons \cup SshRequests
           /\ e = "TIMEOUT" => s = "IDLE"
  <2>1. r = Outcome(s, <<"OPEN_DOOR_B">>) \/ r = Outcome(s, <<>>)
    BY <1>9, ReactionCases
  <2> HIDE DEF r, s
  <2> QED
    BY <1>2, <1>9, <2>1
<1> QED
  BY <1>1, <1>3, <1>5, <1>6, <1>7, <1>8, <1>9 DEF SshRequests, is_open_request
(* Elements of a concatenation.                                               *)
LEMMA HasConcat ==
    ASSUME NEW S, NEW s \in Seq(S), NEW t \in Seq(S), NEW x
    PROVE  Has(x, s \o t) <=> Has(x, s) \/ Has(x, t)
<1>1. /\ s \o t \in Seq(S)
      /\ Len(s \o t) = Len(s) + Len(t)
      /\ Len(s) \in Nat /\ Len(t) \in Nat
      /\ \A i \in 1 .. Len(s) + Len(t) :
            (s \o t)[i] = IF i <= Len(s) THEN s[i] ELSE t[i - Len(s)]
  BY ConcatProperties, LenProperties
<1>2. ASSUME Has(x, s) PROVE Has(x, s \o t)
  BY <1>1, <1>2 DEF Has
<1>3. ASSUME Has(x, t) PROVE Has(x, s \o t)
  <2>1. PICK i \in 1 .. Len(t) : t[i] = x
    BY <1>3 DEF Has
  <2>2. Len(s) + i \in 1 .. Len(s) + Len(t) /\ (s \o t)[Len(s) + i] = x
    BY <1>1, <2>1
  <2> QED
    BY <1>1, <2>2 DEF Has
<1>4. ASSUME Has(x, s \o t) PROVE Has(x, s) \/ Has(x, t)
  <2>1. PICK i \in 1 .. Len(s) + Len(t) : (s \o t)[i] = x
    BY <1>1, <1>4 DEF Has
  <2>2. CASE i <= Len(s)
    BY <1>1, <2>1, <2>2 DEF Has
  <2>3. CASE ~(i <= Len(s))
    <3>1. i - Len(s) \in 1 .. Len(t) /\ t[i - Len(s)] = x
      BY <1>1, <2>1, <2>3
    <3> QED
      BY <3>1 DEF Has
  <2> QED
    BY <2>2, <2>3
<1> QED
  BY <1>2, <1>3, <1>4

(* The doors after an event, and the state of the shack.                      *)
LEMMA DoorsTyped ==
    ASSUME NEW m \in Machines, NEW e
    PROVE  /\ sm_change_door_state(m, e) \in Machines
           /\ sm_get_shack_state(m) \in ShackValues
<1>1. sm_change_door_state(m, e) \in Machines
  BY DEF sm_change_door_state, Machines, DoorValues
<1>2. m.b2 \in DoorValues /\ m.c2 \in DoorValues
  BY DEF Machines
<1>3. sm_get_shack_state(m) \in ShackValues
  BY <1>2 DEF sm_get_shack_state, ShackValues, DoorValues
<1> QED
  BY <1>1, <1>3

(* sm_apply_event as a whole: the announcement of a new state of the shack    *)
(* comes first and changes nothing of this.                                   *)
LEMMA EventReacts ==
    ASSUME NEW m \in Machines, NEW e
    PROVE  /\ sm_apply_event(m, e).sm \in Machines
           /\ Reacts(m.state, e, Outcome(sm_apply_event(m, e).sm.state,
                                         sm_apply_event(m, e).signals))
<1> DEFINE now   == sm_change_door_state(m, e)
           shack == sm_get_shack_state(now)
           r     == Reaction(m, e, shack)
           first == IF shack # m.last_shack_state THEN <<"STATE_CHANGE">> ELSE <<>>
           a     == sm_apply_event(m, e)
           o     == Outcome(a.sm.state, a.signals)
<1>1. now \in Machines /\ shack \in ShackValues
  BY DoorsTyped
<1>2. Reacts(m.state, e, r)
  BY ReactionReacts
<1>3. /\ a.sm = [state |-> r.state, b2 |-> now.b2, c2 |-> now.c2, last_shack_state |-> shack]
      /\ a.signals = first \o r.signals
  BY DEF sm_apply_event
<1>4. first \in Seq(SmSignals) /\ \A x : Has(x, first) => x = "STATE_CHANGE"
  <2>1. "STATE_CHANGE" \in SmSignals
    BY DEF SmSignals
  <2>2. ASSUME NEW b \in SmSignals
        PROVE  /\ <<b>> \in Seq(SmSignals) /\ <<>> \in Seq(SmSignals)
               /\ \A x : ~Has(x, <<>>) /\ (Has(x, <<b>>) <=> x = b)
    BY Short
  <2>3. first = <<"STATE_CHANGE">> \/ first = <<>>
    OBVIOUS
  <2> HIDE DEF first
  <2> QED
    BY <2>1, <2>2, <2>3
<1> HIDE DEF now, shack, r, first, a
<1>5. r.state \in States /\ r.signals \in Seq(SmSignals)
  BY <1>2 DEF Reacts
<1>6. a.sm \in Machines
  BY <1>1, <1>3, <1>5 DEF Machines
<1>7. o.state = r.state /\ o.signals = first \o r.signals
  BY <1>3 DEF Outcome
<1> HIDE DEF o
<1>8. \A x : Has(x, first \o r.signals) <=> Has(x, first) \/ Has(x, r.signals)
  BY <1>4, <1>5, HasConcat
<1>9. o.signals \in Seq(SmSignals)
  BY <1>4, <1>5, <1>7, ConcatProperties
<1>10. \A x : x # "STATE_CHANGE" => (Has(x, o.signals) <=> Has(x, r.signals))
  BY <1>4, <1>7, <1>8
<1>11. Reacts(m.state, e, o)
  BY <1>2, <1>7, <1>9, <1>10 DEF Reacts
<1> QED
  BY <1>6, <1>11 DEF a, o
-----------------------------------------------------------------------------
(* The ring.                                                                  *)

(* push_signals appends the signals, or those there is room for.              *)
LEMMA PushEffect ==
    ASSUME ring \in Seq(Queued), Len(ring) <= RingSize, lost \in BOOLEAN,
           NEW signals \in Seq(SmSignals), NEW c \in 0 .. IdSpace - 1,
           push_signals(signals, c)
    PROVE  /\ ring' \in Seq(Queued)
           /\ Len(ring') <= RingSize /\ Len(ring') >= Len(ring)
           /\ lost' \in BOOLEAN
           /\ \A k \in 1 .. Len(ring) : ring'[k] = ring[k]
           /\ \A k \in 1 .. Len(ring') : k > Len(ring) =>
                 Has(ring'[k].signal, signals) /\ ring'[k].client = c
           /\ ~lost' => ~lost /\ \A x : Has(x, signals) =>
                 \E k \in 1 .. Len(ring') : /\ k > Len(ring)
                                            /\ ring'[k].signal = x /\ ring'[k].client = c
<1> DEFINE n    == Len(ring)
           room == Min2(Len(signals), RingSize - n)
           new  == [i \in 1 .. room |-> [signal |-> signals[i], client |-> c]]
<1>1. n \in Nat /\ Len(signals) \in Nat /\ RingSize \in Nat
  BY LenProperties
<1>2. room \in Nat /\ room <= Len(signals) /\ room <= RingSize - n
  BY <1>1 DEF Min2
<1>3. ring' = ring \o new
  BY DEF push_signals
<1>4. \A i \in 1 .. Len(signals) : signals[i] \in SmSignals
  BY LenProperties
<1>5. ASSUME NEW i \in 1 .. room
      PROVE  [signal |-> signals[i], client |-> c] \in Queued /\ i \in 1 .. Len(signals)
  <2>1. i \in 1 .. Len(signals)
    BY <1>1, <1>2
  <2> QED
    BY <1>4, <2>1 DEF Queued
<1>6. new \in [1 .. room -> Queued]
  <2> HIDE DEF room
  <2> QED
    BY <1>5
<1>7. new \in Seq(Queued) /\ Len(new) = room
  <2> HIDE DEF room, new
  <2> QED
    BY <1>2, <1>6, LenProperties
<1>8. \A i \in 1 .. room : new[i].signal = signals[i] /\ new[i].client = c
  <2> HIDE DEF room
  <2> QED
    OBVIOUS
<1>9. lost' = (lost \/ room < Len(signals))
  BY DEF push_signals
<1> HIDE DEF room, new
<1>10. /\ ring' \in Seq(Queued) /\ Len(ring') = n + room
       /\ \A k \in 1 .. n + room : ring'[k] = IF k <= n THEN ring[k] ELSE new[k - n]
  BY <1>1, <1>3, <1>7, ConcatProperties
<1>11. lost' \in BOOLEAN
  BY <1>9
<1>12. Len(ring') <= RingSize /\ Len(ring') >= Len(ring)
  BY <1>1, <1>2, <1>10
<1>13. \A k \in 1 .. Len(ring) : ring'[k] = ring[k]
  BY <1>1, <1>2, <1>10
<1>14. ASSUME NEW k \in 1 .. Len(ring'), k > n
       PROVE  Has(ring'[k].signal, signals) /\ ring'[k].client = c
  <2>1. k - n \in 1 .. room /\ ring'[k] = new[k - n]
    BY <1>1, <1>2, <1>10, <1>14
  <2>2. k - n \in 1 .. Len(signals)
    BY <1>5, <2>1
  <2> QED
    BY <1>8, <2>1, <2>2 DEF Has
<1>15. ASSUME ~lost', NEW x, Has(x, signals)
       PROVE  \E k \in 1 .. Len(ring') : k > n /\ ring'[k].signal = x /\ ring'[k].client = c
  <2>1. room = Len(signals)
    <3>1. ~(room < Len(signals))
      BY <1>9, <1>15, Zenon
    <3> QED
      BY <1>1, <1>2, <3>1
  <2>2. PICK i \in 1 .. room : signals[i] = x
    BY <1>15, <2>1 DEF Has
  <2>3. n + i \in 1 .. Len(ring') /\ n + i > n /\ ring'[n + i] = new[i]
    <3>1. /\ n + i \in 1 .. n + room /\ n + i > n /\ ~(n + i <= n)
          /\ (n + i) - n = i
      BY <1>1, <1>2, <2>2
    <3> QED
      BY <1>10, <3>1
  <2> QED
    BY <1>8, <2>2, <2>3
<1> QED
  BY <1>9, <1>10, <1>11, <1>12, <1>13, <1>14, <1>15
(* The types of the machine and the ring.                                     *)
MachineTyped ==
    sm \in Machines /\ ring \in Seq(Queued) /\ Len(ring) <= RingSize /\ lost \in BOOLEAN

(* The entries that a step appends to the ring, and a signal among them.      *)
New == {k \in 1 .. Len(ring') : k > Len(ring)}
Sends(x) == \E k \in New : ring'[k].signal = x

(* What an event does to the machine and the ring.                            *)
LEMMA ApplyEffect ==
    ASSUME MachineTyped, NEW e, NEW c \in 0 .. IdSpace - 1, apply_event(e, c)
    PROVE  /\ MachineTyped'
           /\ Len(ring') >= Len(ring)
           /\ \A k \in 1 .. Len(ring) : ring'[k] = ring[k]
           /\ \A k \in New : ring'[k].client = c
           /\ Sends("CANCEL_TIMEOUT") => sm'.state = "IDLE"
           /\ e = "TIMEOUT" => sm'.state = "IDLE"
           /\ Sends("CANNOT_HANDLE_REQUEST") => e \in SshRequests
           /\ ~lost' =>
                /\ ~lost
                /\ sm.state = "IDLE" /\ sm'.state # "IDLE" => Sends("START_TIMEOUT")
                /\ sm.state = "WAIT_FOR_LOCKED" =>
                     \/ sm'.state = "WAIT_FOR_LOCKED"
                     \/ Sends("LOCK_SUCCESSFUL") \/ Sends("USER_REQUESTED_TIMED_OUT")
                /\ is_state_wait_for_open(sm.state) =>
                     \/ is_state_wait_for_open(sm'.state)
                     \/ Sends("OPEN_SUCCESSFUL") \/ Sends("USER_REQUESTED_TIMED_OUT")
                     \/ Sends("UNLOCK_TIMEOUT")
                /\ is_open_request(e) =>
                     \/ is_state_wait_for_open(sm'.state)
                     \/ Sends("CHANGE_KEYHOLDER") \/ Sends("CANNOT_HANDLE_REQUEST")
                /\ e = "SSH_CLOSE_REQUEST" =>
                     \/ sm'.state = "WAIT_FOR_LOCKED"
                     \/ Sends("NO_STATE_CHANGE") \/ Sends("CANNOT_HANDLE_REQUEST")
<1> DEFINE r == sm_apply_event(sm, e)
           o == Outcome(r.sm.state, r.signals)
<1>1. sm' = r.sm /\ push_signals(r.signals, c)
  BY DEF apply_event
<1>2. r.sm \in Machines /\ Reacts(sm.state, e, o)
  BY EventReacts DEF MachineTyped
<1>3. o.state = r.sm.state /\ o.signals = r.signals
  BY DEF Outcome
<1> HIDE DEF r, o
<1>4. r.signals \in Seq(SmSignals)
  BY <1>2, <1>3 DEF Reacts
<1>5. /\ ring' \in Seq(Queued)
      /\ Len(ring') <= RingSize /\ Len(ring') >= Len(ring)
      /\ lost' \in BOOLEAN
      /\ \A k \in 1 .. Len(ring) : ring'[k] = ring[k]
      /\ \A k \in 1 .. Len(ring') : k > Len(ring) =>
            Has(ring'[k].signal, r.signals) /\ ring'[k].client = c
      /\ ~lost' => ~lost /\ \A x : Has(x, r.signals) =>
            \E k \in 1 .. Len(ring') : /\ k > Len(ring)
                                       /\ ring'[k].signal = x /\ ring'[k].client = c
  BY <1>1, <1>4, PushEffect DEF MachineTyped
<1>6. /\ \A k \in New : ring'[k].client = c
      /\ \A x : Sends(x) => Has(x, r.signals)
      /\ ~lost' => ~lost /\ \A x : Has(x, r.signals) => Sends(x)
  BY <1>5 DEF Sends, New
<1>7. MachineTyped'
  BY <1>1, <1>2, <1>5 DEF MachineTyped
<1>8. /\ Sends("CANCEL_TIMEOUT") => sm'.state = "IDLE"
      /\ e = "TIMEOUT" => sm'.state = "IDLE"
      /\ Sends("CANNOT_HANDLE_REQUEST") => e \in SshRequests
  BY <1>1, <1>2, <1>3, <1>6 DEF Reacts
<1>9. ASSUME ~lost'
      PROVE  /\ ~lost
             /\ sm.state = "IDLE" /\ sm'.state # "IDLE" => Sends("START_TIMEOUT")
             /\ sm.state = "WAIT_FOR_LOCKED" =>
                  \/ sm'.state = "WAIT_FOR_LOCKED"
                  \/ Sends("LOCK_SUCCESSFUL") \/ Sends("USER_REQUESTED_TIMED_OUT")
             /\ is_state_wait_for_open(sm.state) =>
                  \/ is_state_wait_for_open(sm'.state)
                  \/ Sends("OPEN_SUCCESSFUL") \/ Sends("USER_REQUESTED_TIMED_OUT")
                  \/ Sends("UNLOCK_TIMEOUT")
             /\ is_open_request(e) =>
                  \/ is_state_wait_for_open(sm'.state)
                  \/ Sends("CHANGE_KEYHOLDER") \/ Sends("CANNOT_HANDLE_REQUEST")
             /\ e = "SSH_CLOSE_REQUEST" =>
                  \/ sm'.state = "WAIT_FOR_LOCKED"
                  \/ Sends("NO_STATE_CHANGE") \/ Sends("CANNOT_HANDLE_REQUEST")
  <2>1. ~lost /\ \A x : Has(x, r.signals) => Sends(x)
    BY <1>6, <1>9
  <2> QED
    BY <1>1, <1>2, <1>3, <2>1 DEF Reacts
<1> QED
  BY <1>5, <1>6, <1>7, <1>8, <1>9

(* The timer goes on being owed when an event is applied.                     *)
LEMMA EventTimed ==
    ASSUME MachineOK, up = "up", UNCHANGED up, NEW e, NEW c \in 0 .. IdSpace - 1,
           apply_event(e, c), UNCHANGED sm_timer \/ (e = "TIMEOUT" /\ sm_timer' = "off")
    PROVE  MachineOK'
<1>1. MachineTyped
  BY DEF MachineOK, MachineTyped
<1>2. /\ MachineTyped'
      /\ Len(ring) \in Nat /\ Len(ring') \in Nat /\ Len(ring') >= Len(ring)
      /\ \A k \in 1 .. Len(ring) : ring'[k] = ring[k]
      /\ Sends("CANCEL_TIMEOUT") => sm'.state = "IDLE"
      /\ e = "TIMEOUT" => sm'.state = "IDLE"
      /\ ~lost' => /\ ~lost
                   /\ sm.state = "IDLE" /\ sm'.state # "IDLE" => Sends("START_TIMEOUT")
  BY <1>1, ApplyEffect, LenProperties DEF MachineTyped
<1>3. ASSUME ~lost', sm'.state # "IDLE"
      PROVE  TimerOwed'
  <2>1. \A k \in 1 .. Len(ring') : k > Len(ring) => ring'[k].signal # "CANCEL_TIMEOUT"
    BY <1>2, <1>3 DEF Sends, New
  <2>2. CASE sm.state = "IDLE"
    <3>1. PICK k \in 1 .. Len(ring') : k > Len(ring) /\ ring'[k].signal = "START_TIMEOUT"
      BY <1>2, <1>3, <2>2 DEF Sends, New
    <3>2. \A j \in k + 1 .. Len(ring') : ring'[j].signal # "CANCEL_TIMEOUT"
      BY <1>2, <2>1, <3>1
    <3> QED
      BY <3>1, <3>2 DEF TimerOwed
  <2>3. CASE sm.state # "IDLE"
    <3>1. TimerOwed /\ sm_timer' = sm_timer
      BY <1>2, <1>3, <2>3 DEF MachineOK, OperationTimed
    <3>2. CASE \E i \in 1 .. Len(ring) :
                 /\ ring[i].signal = "START_TIMEOUT"
                 /\ \A j \in i + 1 .. Len(ring) : ring[j].signal # "CANCEL_TIMEOUT"
      <4>1. PICK i \in 1 .. Len(ring) :
                 /\ ring[i].signal = "START_TIMEOUT"
                 /\ \A j \in i + 1 .. Len(ring) : ring[j].signal # "CANCEL_TIMEOUT"
        BY <3>2
      <4>2. i \in 1 .. Len(ring') /\ ring'[i].signal = "START_TIMEOUT"
        BY <1>2, <4>1
      <4>3. \A j \in i + 1 .. Len(ring') : ring'[j].signal # "CANCEL_TIMEOUT"
        BY <1>2, <2>1, <4>1
      <4> QED
        BY <4>2, <4>3 DEF TimerOwed
    <3>3. CASE sm_timer # "off" /\ "CANCEL_TIMEOUT" \notin SignalsQueued
      <4>1. \A k \in 1 .. Len(ring') : ring'[k].signal # "CANCEL_TIMEOUT"
        BY <1>2, <2>1, <3>3 DEF SignalsQueued
      <4> QED
        BY <3>1, <3>3, <4>1 DEF TimerOwed, SignalsQueued
    <3> QED
      BY <3>1, <3>2, <3>3 DEF TimerOwed
  <2> QED
    BY <2>2, <2>3
<1> QED
  BY <1>2, <1>3 DEF MachineOK, MachineTyped, OperationTimed
(* And when the signal at the head of the ring is handled.                    *)
LEMMA PopTimed ==
    ASSUME MachineOK, ring # <<>>, ring' = Tail(ring), UNCHANGED <<sm, up, lost>>,
           sm_timer' = IF Head(ring).signal = "START_TIMEOUT" THEN "armed"
                       ELSE IF Head(ring).signal = "CANCEL_TIMEOUT" THEN "off" ELSE sm_timer
    PROVE  MachineOK'
<1> DEFINE n == Len(ring)
<1>1. /\ ring' \in Seq(Queued) /\ n \in Nat /\ n > 0 /\ Len(ring') = n - 1
      /\ Head(ring) = ring[1]
      /\ \A k \in 1 .. n - 1 : ring'[k] = ring[k + 1]
  BY HeadTailProperties, LenProperties, EmptySeq DEF MachineOK
<1>2. \A k \in 2 .. n : k - 1 \in 1 .. Len(ring') /\ ring'[k - 1] = ring[k]
  BY <1>1
<1>3. ASSUME TimerOwed PROVE TimerOwed'
  <2>1. ASSUME NEW i \in 2 .. n, ring[i].signal = "START_TIMEOUT",
               \A j \in i + 1 .. n : ring[j].signal # "CANCEL_TIMEOUT"
        PROVE  TimerOwed'
    <3>1. i - 1 \in 1 .. Len(ring') /\ ring'[i - 1].signal = "START_TIMEOUT"
      BY <1>2, <2>1
    <3>2. \A j \in (i - 1) + 1 .. Len(ring') : ring'[j].signal # "CANCEL_TIMEOUT"
      BY <1>1, <2>1
    <3> QED
      BY <3>1, <3>2 DEF TimerOwed
  <2>2. ASSUME sm_timer' # "off", \A j \in 2 .. n : ring[j].signal # "CANCEL_TIMEOUT"
        PROVE  TimerOwed'
    <3>1. \A j \in 1 .. Len(ring') : ring'[j].signal # "CANCEL_TIMEOUT"
      BY <1>1, <2>2
    <3> QED
      BY <2>2, <3>1 DEF TimerOwed, SignalsQueued
  <2>3. CASE \E i \in 1 .. Len(ring) :
               /\ ring[i].signal = "START_TIMEOUT"
               /\ \A j \in i + 1 .. Len(ring) : ring[j].signal # "CANCEL_TIMEOUT"
    <3>1. PICK i \in 1 .. n :
               /\ ring[i].signal = "START_TIMEOUT"
               /\ \A j \in i + 1 .. n : ring[j].signal # "CANCEL_TIMEOUT"
      BY <2>3
    <3>2. CASE i = 1
      BY <1>1, <2>2, <3>1, <3>2
    <3>3. CASE i # 1
      BY <1>1, <2>1, <3>1, <3>3
    <3> QED
      BY <3>2, <3>3
  <2>4. CASE sm_timer # "off" /\ "CANCEL_TIMEOUT" \notin SignalsQueued
    <3>1. \A j \in 1 .. n : ring[j].signal # "CANCEL_TIMEOUT"
      BY <2>4 DEF SignalsQueued
    <3> QED
      BY <1>1, <2>2, <2>4, <3>1
  <2> QED
    BY <1>3, <2>3, <2>4 DEF TimerOwed
<1>4. Len(ring') <= RingSize
  BY <1>1 DEF MachineOK
<1>5. sm_timer' \in {"off", "armed", "expired"}
  BY DEF MachineOK
<1> QED
  BY <1>1, <1>3, <1>4, <1>5 DEF MachineOK, OperationTimed

(* A process that ends leaves nothing behind.                                 *)
LEMMA DiesIdle ==
    ASSUME NEW how \in {"exited", "crashed"}, Dies(how)
    PROVE  MachineOK'
<1>1. sm_init \in Machines /\ sm_init.state = "IDLE"
  BY DEF sm_init, Machines, States, DoorValues, ShackValues
<1>2. /\ sm' = sm_init /\ ring' = <<>> /\ sm_timer' = "off" /\ lost' = FALSE
      /\ up' = how
  BY DEF Dies
<1>3. ring' \in Seq(Queued) /\ Len(ring') <= RingSize
  BY <1>2
<1>4. lost' \in BOOLEAN
  BY <1>2
<1>5. sm'.state = "IDLE"
  BY <1>1, <1>2
<1>6. OperationTimed'
  BY <1>5 DEF OperationTimed
<1> QED
  BY <1>1, <1>2, <1>3, <1>4, <1>5, <1>6 DEF MachineOK

(* Where the loop serves a client there is one.                               *)
LEMMA ServedClient ==
    ASSUME TableOK, LoopOK, ServingClient
    PROVE  /\ slot \in 1 .. Len(clients)
           /\ clients[slot] \in Entry
           /\ pc = "serve" /\ index > 2 /\ index = slot + 2
<1>1. index \in Nat /\ Len(clients) \in Nat
  BY LenProperties DEF TableOK, LoopOK
<1>2. slot \in 1 .. Len(clients)
  BY <1>1 DEF ServingClient, slot
<1>3. clients[slot] \in Entry
  BY <1>2, LenProperties DEF TableOK
<1> QED
  BY <1>1, <1>2, <1>3 DEF ServingClient, slot

(* The state machine, its ring and its timer.                                 *)
LEMMA MachineStep ==
    ASSUME TableOK, MachineOK, LoopOK, [Next]_vars
    PROVE  MachineOK'
<1>1. ASSUME UNCHANGED <<sm, ring, up, lost>>,
             sm_timer' = sm_timer \/ (sm_timer # "off" /\ sm_timer' = "expired")
      PROVE  MachineOK'
  BY <1>1 DEF MachineOK, OperationTimed, TimerOwed, SignalsQueued
<1>2. ASSUME Dies("crashed") \/ Dies("exited") PROVE MachineOK'
  BY <1>2, DiesIdle
<1>3. CASE up = "up" /\ HandleSignal
  <2>1. CASE Dies("crashed")
    BY <1>2, <2>1
  <2>2. CASE ~Dies("crashed")
    <3> DEFINE s == Head(ring)
    <3>1. /\ ring # <<>> /\ ring' = Tail(ring) /\ UNCHANGED <<sm, up, lost>>
          /\ TimerSignal(s) \/ CommandSignal(s) \/ NoticeSignal(s) \/ ResultSignal(s)
               \/ RefusalSignal(s)
      BY <1>3, <2>2 DEF HandleSignal
    <3>2. sm_timer' = IF s.signal = "START_TIMEOUT" THEN "armed"
                      ELSE IF s.signal = "CANCEL_TIMEOUT" THEN "off" ELSE sm_timer
      <4> HIDE DEF s
      <4>1. CASE TimerSignal(s)
        BY <4>1 DEF TimerSignal
      <4>2. CASE CommandSignal(s)
        BY <4>2 DEF CommandSignal, CommandsOf
      <4>3. CASE NoticeSignal(s)
        BY <4>3 DEF NoticeSignal
      <4>4. CASE ResultSignal(s)
        BY <4>4 DEF ResultSignal, DisconnectFlag
      <4>5. CASE RefusalSignal(s)
        BY <4>5 DEF RefusalSignal
      <4> QED
        BY <3>1, <4>1, <4>2, <4>3, <4>4, <4>5
    <3> QED
      BY <3>1, <3>2, PopTimed
  <2> QED
    BY <2>1, <2>2
<1>4. INVALID_IPC_CLIENT \in 0 .. IdSpace - 1
  BY DEF INVALID_IPC_CLIENT
<1>5. CASE up = "up" /\ MqttEvent
  BY <1>4, <1>5, EventTimed DEF MqttEvent
<1>6. CASE up = "up" /\ ServeTimer
  <2>1. CASE "timer" \in ready
    BY <1>4, <1>6, <2>1, EventTimed DEF ServeTimer
  <2>2. CASE "timer" \notin ready
    BY <1>1, <1>6, <2>2 DEF ServeTimer
  <2> QED
    BY <2>1, <2>2
<1>7. CASE up = "up" /\ ClientRequest
  <2>1. clients[slot].client_id \in 0 .. IdSpace - 1
    BY <1>7, ServedClient DEF ClientRequest, Entry, Ids
  <2>2. /\ apply_event(EventOf(message), clients[slot].client_id)
        /\ UNCHANGED <<up, sm_timer>>
    BY <1>7 DEF ClientRequest
  <2> HIDE DEF EventOf
  <2> QED
    BY <1>7, <2>1, <2>2, EventTimed
<1>8. CASE SyncDone
  BY <1>1, <1>2, <1>8 DEF SyncDone
<1>9. CASE MqttNotice \/ ApiStatusFails \/ ServeIpcCrash \/ ServeMqttEnds \/ ClientCrash
           \/ SlowRound \/ Stop \/ PollInterrupted
  BY <1>2, <1>9 DEF MqttNotice, ApiStatusFails, ServeIpcCrash, ServeMqttEnds, ClientCrash,
                    SlowRound, Stop, PollInterrupted
<1>10. CASE Drained \/ Poll \/ ServeIpc \/ ServeMqtt \/ ClientEof \/ ClientAnswered
            \/ NextClient \/ SigTerm
  BY <1>1, <1>10 DEF Drained, Poll, ServeIpc, ServeMqtt, ClientEof, ClientAnswered,
                     NextClient, SigTerm
<1>11. CASE (\E p \in Peers : PeerConnects(p) \/ PeerLeaves(p)) \/ TimerExpires \/ LinkDrops
  BY <1>1, <1>11 DEF PeerConnects, PeerLeaves, TimerExpires, LinkDrops, OutsideDaemon
<1>12. CASE Restart
  <2>1. sm.state = "IDLE" /\ UNCHANGED <<sm, ring, sm_timer, lost>> /\ up' = "up"
    BY <1>12 DEF Restart, MachineOK
  <2> QED
    BY <2>1 DEF MachineOK, OperationTimed
<1>13. CASE UNCHANGED vars
  BY <1>1, <1>13 DEF vars
<1> QED
  BY <1>3, <1>5, <1>6, <1>7, <1>8, <1>9, <1>10, <1>11, <1>12, <1>13 DEF Next, Daemon
-----------------------------------------------------------------------------
(* The loop and the connection.                                               *)

(* What is published are commands.                                            *)
LEMMA CommandsTyped ==
    /\ \A x \in DOMAIN CommandsOf : CommandsOf[x] \subseteq Commands
    /\ ForcedCommands \subseteq Commands
    /\ {<<"reset", "*">>} \subseteq Commands
<1> DEFINE Actions == {"open-safe", "open-unsafe", "lock", "reset"}
<1>1. \A a \in Actions, d \in Doors \cup {"*"} : <<a, d>> \in Commands
  BY DEF Commands
<1>2. /\ <<"open-unsafe", "B">> \in Commands /\ <<"open-unsafe", "C">> \in Commands
      /\ <<"open-safe", "B2">> \in Commands /\ <<"open-safe", "C2">> \in Commands
      /\ <<"open-unsafe", "B2">> \in Commands /\ <<"open-unsafe", "C2">> \in Commands
      /\ <<"lock", "C2">> \in Commands /\ <<"lock", "B2">> \in Commands
      /\ <<"reset", "*">> \in Commands
  BY <1>1 DEF Doors
<1>3. ForcedCommands \subseteq Commands
  BY <1>1 DEF ForcedCommands
<1>4. ASSUME NEW x \in DOMAIN CommandsOf PROVE CommandsOf[x] \subseteq Commands
  <2>1. x \in {"OPEN_DOOR_B", "OPEN_DOOR_C", "OPEN_DOOR_B2_SAFE", "OPEN_DOOR_C2_SAFE",
               "OPEN_DOOR_B2_UNSAFE", "OPEN_DOOR_C2_UNSAFE", "LOCK_ALL"}
    BY DEF CommandsOf
  <2>2. /\ CommandsOf["OPEN_DOOR_B"] = {<<"open-unsafe", "B">>}
        /\ CommandsOf["OPEN_DOOR_C"] = {<<"open-unsafe", "C">>}
        /\ CommandsOf["OPEN_DOOR_B2_SAFE"] = {<<"open-safe", "B2">>}
        /\ CommandsOf["OPEN_DOOR_C2_SAFE"] = {<<"open-safe", "C2">>}
        /\ CommandsOf["OPEN_DOOR_B2_UNSAFE"] = {<<"open-unsafe", "B2">>}
        /\ CommandsOf["OPEN_DOOR_C2_UNSAFE"] = {<<"open-unsafe", "C2">>}
        /\ CommandsOf["LOCK_ALL"] = {<<"lock", "C2">>, <<"lock", "B2">>}
    BY DEF CommandsOf
  <2> QED
    BY <1>2, <2>1, <2>2
<1> QED
  BY <1>2, <1>3, <1>4

(* send_mqtt_msg publishes what it is given, or nothing.                      *)
LEMMA SendTyped ==
    ASSUME NEW cs \in SUBSET Commands, send_mqtt_msg(cs)
    PROVE  sent' \subseteq Commands
BY DEF send_mqtt_msg

(* The types of the place in the loop, and of the connection.                 *)
LoopTyped ==
    /\ pc \in {"drain", "sync", "poll", "serve"}
    /\ index \in 0 .. Slots + 3
    /\ ready \subseteq {"ipc", "mqtt", "timer"}
    /\ batch \in 0 .. MaxBatch

LinkTyped ==
    /\ connected \in BOOLEAN
    /\ mqtt_fd \in {"socket", "timer", "closed"}
    /\ link \in {"ok", "closed", "broken"}
    /\ drops \in 0 .. MaxDrops

(* The loop.                                                                  *)
LEMMA LoopStep ==
    ASSUME TableOK, LoopOK, [Next]_vars
    PROVE  LoopTyped'
<1>0. /\ LoopTyped /\ Slots \in Nat /\ MaxBatch \in Nat
      /\ Len(clients) \in Nat /\ Len(clients) <= Slots
  BY LenProperties DEF LoopOK, LoopTyped, TableOK
<1>1. ASSUME UNCHANGED loopVars PROVE LoopTyped'
  BY <1>0, <1>1 DEF LoopTyped, loopVars
<1>2. ASSUME Dies("crashed") \/ Dies("exited") PROVE LoopTyped'
  BY <1>0, <1>2 DEF Dies, LoopTyped
<1>3. ASSUME NEW fd, Advance(fd), index <= Slots + 2 PROVE LoopTyped'
  <2>1. pc' = pc /\ index' = index + 1 /\ batch' = 0 /\ ready' \subseteq ready
    BY <1>3 DEF Advance
  <2>2. index' \in 0 .. Slots + 3
    BY <1>0, <1>3, <2>1 DEF LoopTyped
  <2> QED
    BY <1>0, <2>1, <2>2 DEF LoopTyped
<1>4. CASE HandleSignal
  BY <1>1, <1>2, <1>4 DEF HandleSignal
<1>5. CASE Drained
  BY <1>0, <1>5 DEF Drained, LoopTyped
<1>6. CASE MqttEvent
  BY <1>0, <1>6 DEF MqttEvent, LoopTyped
<1>7. CASE SyncDone
  <2>1. CASE ~Dies("crashed")
    <3>1. pc' = "poll" /\ batch' = 0 /\ UNCHANGED <<index, ready>>
      BY <1>7, <2>1 DEF SyncDone
    <3> QED
      BY <1>0, <3>1 DEF LoopTyped
  <2> QED
    BY <1>2, <2>1
<1>8. CASE Poll
  <2>1. /\ pc' = "serve" /\ index' = 0 /\ batch' = 0
        /\ ready' \subseteq {"ipc", "mqtt", "timer"}
    BY <1>8 DEF Poll
  <2> QED
    BY <1>0, <2>1 DEF LoopTyped
<1>9. CASE ServeIpc \/ ServeMqtt \/ ServeTimer
  BY <1>0, <1>3, <1>9 DEF ServeIpc, ServeMqtt, ServeTimer
<1>10. CASE ClientEof \/ ClientRequest \/ ClientAnswered
  <2>1. ServingClient /\ Advance("client")
    BY <1>10 DEF ClientEof, ClientRequest, ClientAnswered
  <2>2. slot \in 1 .. Len(clients) /\ index = slot + 2
    BY <2>1, ServedClient
  <2>3. index <= Slots + 2
    BY <1>0, <2>2
  <2> QED
    BY <1>3, <2>1, <2>3
<1>11. CASE NextClient
  <2>1. CASE slot > Len(clients)
    <3>1. pc' = "drain" /\ index' = 0 /\ UNCHANGED <<ready, batch>>
      BY <1>11, <2>1 DEF NextClient
    <3> QED
      BY <1>0, <3>1 DEF LoopTyped
  <2>2. CASE ~(slot > Len(clients))
    <3>1. index <= Slots + 2
      BY <1>0, <2>2 DEF slot, LoopTyped
    <3> QED
      BY <1>3, <1>11, <2>2, <3>1 DEF NextClient
  <2> QED
    BY <2>1, <2>2
<1>12. CASE MqttNotice \/ ApiStatusFails \/ ServeIpcCrash \/ ServeMqttEnds \/ ClientCrash
            \/ SlowRound \/ Stop \/ PollInterrupted
  BY <1>2, <1>12 DEF MqttNotice, ApiStatusFails, ServeIpcCrash, ServeMqttEnds, ClientCrash,
                     SlowRound, Stop, PollInterrupted
<1>13. CASE SigTerm \/ Restart
  BY <1>1, <1>13 DEF SigTerm, Restart
<1>14. CASE (\E p \in Peers : PeerConnects(p) \/ PeerLeaves(p)) \/ TimerExpires \/ LinkDrops
  BY <1>1, <1>14 DEF PeerConnects, PeerLeaves, TimerExpires, LinkDrops, OutsideDaemon
<1>15. CASE UNCHANGED vars
  BY <1>1, <1>15 DEF vars
<1> QED
  BY <1>4, <1>5, <1>6, <1>7, <1>8, <1>9, <1>10, <1>11, <1>12, <1>13, <1>14, <1>15
     DEF Next, Daemon

(* The connection.                                                            *)
LEMMA LinkStep ==
    ASSUME LoopOK, [Next]_vars
    PROVE  LinkTyped'
<1>0. LinkTyped /\ MaxDrops \in Nat
  BY DEF LoopOK, LinkTyped
<1>1. ASSUME UNCHANGED mqttVars PROVE LinkTyped'
  BY <1>0, <1>1 DEF LinkTyped, mqttVars
<1>2. ASSUME Dies("crashed") \/ Dies("exited") PROVE LinkTyped'
  BY <1>0, <1>2 DEF Dies, LinkTyped
<1>3. CASE HandleSignal
  BY <1>1, <1>2, <1>3 DEF HandleSignal
<1>4. CASE SyncDone
  <2>1. CASE UNCHANGED <<link, drops, connected, mqtt_fd>>
    BY <1>1, <2>1 DEF mqttVars
  <2>2. CASE /\ UNCHANGED <<link, drops>> /\ connected' = FALSE
             /\ mqtt_fd' = IF mqtt_fd = "socket" THEN "closed" ELSE mqtt_fd
    BY <1>0, <2>2 DEF LinkTyped
  <2> QED
    BY <1>2, <1>4, <2>1, <2>2 DEF SyncDone
<1>5. CASE ServeMqtt
  <2>1. CASE MqttResult
    <3>1. connected' \in BOOLEAN
      BY <1>0, <2>1 DEF MqttResult, Reconnect, LinkTyped, mqttVars
    <3>2. mqtt_fd' \in {"socket", "timer", "closed"} /\ link' \in {"ok", "closed", "broken"}
      BY <1>0, <2>1 DEF MqttResult, Reconnect, LinkTyped, mqttVars
    <3>3. drops' \in 0 .. MaxDrops
      BY <1>0, <2>1 DEF MqttResult, Reconnect, LinkTyped, mqttVars
    <3> QED
      BY <3>1, <3>2, <3>3 DEF LinkTyped
  <2> QED
    BY <1>1, <1>5, <2>1 DEF ServeMqtt
<1>6. CASE LinkDrops
  BY <1>0, <1>6 DEF LinkDrops, LinkTyped
<1>7. CASE Restart
  <2>1. StartConnection(connected', mqtt_fd', link', drops, drops')
    BY <1>7 DEF Restart
  <2>2. connected' \in BOOLEAN
    BY <2>1 DEF StartConnection
  <2>3. mqtt_fd' \in {"socket", "timer", "closed"} /\ link' \in {"ok", "closed", "broken"}
    BY <2>1 DEF StartConnection
  <2>4. drops' \in 0 .. MaxDrops
    BY <1>0, <2>1 DEF StartConnection, LinkTyped
  <2> QED
    BY <2>2, <2>3, <2>4 DEF LinkTyped
<1>8. CASE MqttNotice \/ ApiStatusFails \/ ServeIpcCrash \/ ServeMqttEnds \/ ClientCrash
           \/ SlowRound \/ Stop \/ PollInterrupted
  BY <1>2, <1>8 DEF MqttNotice, ApiStatusFails, ServeIpcCrash, ServeMqttEnds, ClientCrash,
                    SlowRound, Stop, PollInterrupted
<1>9. CASE Drained \/ MqttEvent \/ Poll \/ ServeIpc \/ ServeTimer \/ ClientEof
           \/ ClientRequest \/ ClientAnswered \/ NextClient \/ SigTerm
  BY <1>1, <1>9 DEF Drained, MqttEvent, Poll, ServeIpc, ServeTimer, ClientEof,
                    ClientRequest, ClientAnswered, NextClient, SigTerm
<1>10. CASE (\E p \in Peers : PeerConnects(p) \/ PeerLeaves(p)) \/ TimerExpires
  BY <1>1, <1>10 DEF PeerConnects, PeerLeaves, TimerExpires
<1>11. CASE UNCHANGED vars
  BY <1>1, <1>11 DEF vars
<1> QED
  BY <1>3, <1>4, <1>5, <1>6, <1>7, <1>8, <1>9, <1>10, <1>11 DEF Next, Daemon
(* What is published.                                                         *)
LEMMA SentStep ==
    ASSUME LoopOK, [Next]_vars
    PROVE  sent' \subseteq Commands
<1>0. sent \subseteq Commands
  BY DEF LoopOK
<1>1. ASSUME Dies("crashed") \/ Dies("exited") PROVE sent' \subseteq Commands
  BY <1>1 DEF Dies
<1>2. CASE HandleSignal
  <2>1. CASE ~Dies("crashed")
    <3> DEFINE s == Head(ring)
    <3>1. TimerSignal(s) \/ CommandSignal(s) \/ NoticeSignal(s) \/ ResultSignal(s)
            \/ RefusalSignal(s)
      BY <1>2, <2>1 DEF HandleSignal
    <3> HIDE DEF s
    <3>2. CASE CommandSignal(s)
      BY <3>2, CommandsTyped, SendTyped DEF CommandSignal
    <3>3. CASE ~CommandSignal(s)
      BY <3>1, <3>3 DEF TimerSignal, NoticeSignal, ResultSignal, RefusalSignal
    <3> QED
      BY <3>2, <3>3
  <2> QED
    BY <1>1, <2>1
<1>3. CASE ClientAnswered
  <2>1. sent' = {} \/ send_mqtt_msg(ForcedCommands) \/ send_mqtt_msg({<<"reset", "*">>})
    BY <1>3 DEF ClientAnswered
  <2> QED
    BY <2>1, CommandsTyped, SendTyped
<1>4. CASE SyncDone
  BY <1>1, <1>4 DEF SyncDone
<1>5. CASE MqttNotice \/ ApiStatusFails \/ ServeIpcCrash \/ ServeMqttEnds \/ ClientCrash
           \/ SlowRound \/ Stop \/ PollInterrupted
  BY <1>1, <1>5 DEF MqttNotice, ApiStatusFails, ServeIpcCrash, ServeMqttEnds, ClientCrash,
                    SlowRound, Stop, PollInterrupted
<1>6. CASE Drained \/ MqttEvent \/ Poll \/ ServeIpc \/ ServeMqtt \/ ServeTimer \/ ClientEof
           \/ ClientRequest \/ NextClient \/ SigTerm
  BY <1>6 DEF Drained, MqttEvent, Poll, ServeIpc, ServeMqtt, ServeTimer, ClientEof,
              ClientRequest, NextClient, SigTerm
<1>7. CASE (\E p \in Peers : PeerConnects(p) \/ PeerLeaves(p)) \/ TimerExpires \/ LinkDrops
  BY <1>7 DEF PeerConnects, PeerLeaves, TimerExpires, LinkDrops, OutsideDaemon
<1>8. CASE Restart
  BY <1>0, <1>8 DEF Restart
<1>9. CASE UNCHANGED vars
  BY <1>0, <1>9 DEF vars
<1> QED
  BY <1>2, <1>3, <1>4, <1>5, <1>6, <1>7, <1>8, <1>9 DEF Next, Daemon

(* The flag of the signal handlers.                                           *)
LEMMA ShutdownStep ==
    ASSUME LoopOK, [Next]_vars
    PROVE  shutdown_requested' \in BOOLEAN
<1>0. shutdown_requested \in BOOLEAN
  BY DEF LoopOK
<1>1. CASE Daemon
  <2>1. shutdown_requested' = (shutdown_requested /\ up' = "up")
    BY <1>1 DEF Daemon
  <2> QED
    BY <2>1
<1>2. CASE (\E p \in Peers : PeerConnects(p) \/ PeerLeaves(p)) \/ TimerExpires \/ LinkDrops
  BY <1>0, <1>2 DEF PeerConnects, PeerLeaves, TimerExpires, LinkDrops, OutsideDaemon
<1>3. CASE SigTerm \/ PollInterrupted \/ Restart \/ UNCHANGED vars
  BY <1>0, <1>3 DEF SigTerm, PollInterrupted, Restart, vars
<1> QED
  BY <1>1, <1>2, <1>3 DEF Next

(* The poll table and the connection.                                         *)
LEMMA PolledStep ==
    ASSUME TableOK, LoopOK, [Next]_vars
    PROVE  ConnectionPolled'
<1>0. ConnectionPolled /\ index \in Nat
  BY DEF LoopOK
<1>1. ASSUME UNCHANGED mqttVars, mqtt_fd = "closed" => UNCHANGED loopVars
      PROVE  ConnectionPolled'
  BY <1>0, <1>1 DEF ConnectionPolled, mqttVars, loopVars
<1>2. ASSUME Dies("crashed") \/ Dies("exited") PROVE ConnectionPolled'
  BY <1>2 DEF Dies, ConnectionPolled
<1>3. ASSUME StartConnection(connected', mqtt_fd', link', drops, drops')
      PROVE  ConnectionPolled'
  BY <1>3 DEF StartConnection, ConnectionPolled
<1>4. CASE HandleSignal
  BY <1>1, <1>2, <1>4 DEF HandleSignal
<1>5. CASE Drained \/ MqttEvent
  <2>1. mqtt_fd # "closed" /\ UNCHANGED mqttVars
    BY <1>0, <1>5 DEF Drained, MqttEvent, Syncing, ConnectionPolled
  <2> QED
    BY <1>1, <2>1
<1>6. CASE SyncDone
  <2>1. (mqtt_fd # "closed" /\ link' = link) \/ Dies("crashed")
    BY <1>0, <1>6 DEF SyncDone, ConnectionPolled
  <2>2. CASE connected /\ link = "closed" /\ ~Dies("crashed")
    <3>1. mqtt_fd = "socket"
      BY <1>0, <2>2 DEF ConnectionPolled
    <3>2. pc' = "poll" /\ connected' = FALSE /\ mqtt_fd' = "closed"
      BY <1>6, <2>2, <3>1 DEF SyncDone
    <3> QED
      BY <3>2 DEF ConnectionPolled
  <2>3. CASE ~(connected /\ link = "closed") /\ ~Dies("crashed")
    <3>1. UNCHANGED <<connected, mqtt_fd, link, drops>>
      BY <1>6, <2>3 DEF SyncDone
    <3> QED
      BY <1>1, <2>1, <2>3, <3>1 DEF mqttVars
  <2> QED
    BY <1>2, <2>2, <2>3
<1>7. CASE Poll
  <2>1. UNCHANGED <<connected, mqtt_fd, link>> /\ pc' = "serve" /\ index' = 0
    BY <1>7 DEF Poll, mqttVars
  <2>2. mqtt_fd = "closed" => "mqtt" \in ready'
    BY <1>7 DEF Poll, mqtt_readiness
  <2> QED
    BY <1>0, <2>1, <2>2 DEF ConnectionPolled
<1>8. CASE ServeIpc
  <2>1. /\ UNCHANGED <<connected, mqtt_fd, link>>
        /\ pc' = "serve" /\ index' = 1 /\ ready' = ready \ {"ipc"}
        /\ pc = "serve"
    BY <1>8 DEF ServeIpc, Advance, mqttVars
  <2> QED
    BY <1>0, <2>1 DEF ConnectionPolled
<1>9. CASE ServeMqtt
  <2>1. CASE "mqtt" \notin ready
    <3>1. mqtt_fd # "closed" /\ UNCHANGED mqttVars
      BY <1>0, <1>9, <2>1 DEF ServeMqtt, ConnectionPolled
    <3> QED
      BY <1>1, <3>1
  <2>2. CASE MqttResult
    BY <1>0, <2>2 DEF MqttResult, Reconnect, ConnectionPolled, mqttVars
  <2> QED
    BY <1>9, <2>1, <2>2 DEF ServeMqtt
<1>10. CASE ServeTimer \/ ClientEof \/ ClientRequest \/ ClientAnswered \/ NextClient
  <2>1. pc = "serve" /\ index > 1 /\ UNCHANGED mqttVars
    BY <1>0, <1>10 DEF ServeTimer, ClientEof, ClientRequest, ClientAnswered, NextClient,
                       ServingClient
  <2>2. mqtt_fd # "closed"
    BY <1>0, <2>1 DEF ConnectionPolled
  <2> QED
    BY <1>1, <2>1, <2>2
<1>11. CASE MqttNotice \/ ApiStatusFails \/ ServeIpcCrash \/ ServeMqttEnds \/ ClientCrash
            \/ SlowRound \/ Stop \/ PollInterrupted
  BY <1>2, <1>11 DEF MqttNotice, ApiStatusFails, ServeIpcCrash, ServeMqttEnds, ClientCrash,
                     SlowRound, Stop, PollInterrupted
<1>12. CASE (\E p \in Peers : PeerConnects(p) \/ PeerLeaves(p)) \/ TimerExpires \/ SigTerm
  BY <1>1, <1>12 DEF PeerConnects, PeerLeaves, TimerExpires, SigTerm, OutsideDaemon
<1>13. CASE LinkDrops
  <2>1. connected /\ link = "ok" /\ UNCHANGED <<connected, mqtt_fd, pc, index, ready>>
    BY <1>13 DEF LinkDrops, OutsideDaemon, loopVars
  <2>2. mqtt_fd = "socket"
    BY <1>0, <2>1 DEF ConnectionPolled
  <2> QED
    BY <2>1, <2>2 DEF ConnectionPolled
<1>14. CASE Restart \/ UNCHANGED vars
  BY <1>1, <1>3, <1>14 DEF Restart, vars
<1> QED
  BY <1>4, <1>5, <1>6, <1>7, <1>8, <1>9, <1>10, <1>11, <1>12, <1>13, <1>14 DEF Next, Daemon

(* All of LoopOK.                                                             *)
LEMMA LoopOKStep ==
    ASSUME TableOK, LoopOK, [Next]_vars
    PROVE  LoopOK'
BY LoopStep, LinkStep, SentStep, ShutdownStep, PolledStep DEF LoopOK, LoopTyped, LinkTyped
-----------------------------------------------------------------------------
(* The table.                                                                 *)

(* A step that removes the clients at the indices in out and nobody else.     *)
Removal(out) ==
    /\ out \subseteq 1 .. Len(clients)
    /\ clients' \in Seq(Entry)
    /\ Len(clients') <= Len(clients)
    /\ \E h : Picks(h, clients', clients) /\ \A k \in 1 .. Len(clients') : h[k] \notin out
    /\ HangUp(out)
    /\ unentered' = unentered \ {clients[i].peer : i \in out}

(* remove_ipc_client is one.                                                  *)
LEMMA RemoveOne ==
    ASSUME TableOK, NEW i \in 1 .. Len(clients), remove_ipc_client(i)
    PROVE  Removal({i})
<1> DEFINE n == Len(clients)
           h == [k \in 1 .. n - 1 |-> IF k = i THEN n ELSE k]
<1>1. n \in Nat /\ n > 0 /\ clients' = swap_remove(clients, i) /\ HangUp({i})
      /\ unentered' = unentered \ {clients[i].peer}
  BY LenProperties DEF TableOK, remove_ipc_client
<1>2. /\ clients' \in Seq(Entry) /\ Len(clients') = n - 1
      /\ \A k \in 1 .. n - 1 : clients'[k] = clients[IF k = i THEN n ELSE k]
  BY <1>1, SwapRemoved DEF TableOK
<1>3. \A k \in 1 .. n - 1 : h[k] \in 1 .. n /\ h[k] # i
  BY <1>1
<1>4. \A j, k \in 1 .. n - 1 : h[j] = h[k] => j = k
  BY <1>1
<1>5. h \in [1 .. n - 1 -> 1 .. n] /\ \A k \in 1 .. n - 1 : clients'[k] = clients[h[k]]
  BY <1>1, <1>2
<1>6. Picks(h, clients', clients)
  <2> HIDE DEF h
  <2> QED
    BY <1>2, <1>4, <1>5 DEF Picks
<1>7. {clients[j].peer : j \in {i}} = {clients[i].peer}
  OBVIOUS
<1> HIDE DEF h
<1> QED
  BY <1>1, <1>2, <1>3, <1>6, <1>7 DEF Removal

(* So is remove_all_ipc_clients, for the clients with the flag.               *)
LEMMA RemoveFlagged ==
    ASSUME TableOK, NEW flag, remove_all_ipc_clients(flag)
    PROVE  /\ Removal({i \in 1 .. Len(clients) : flag \in clients[i].flags})
           /\ \A k \in 1 .. Len(clients') : flag \notin clients'[k].flags
<1> DEFINE out == {i \in 1 .. Len(clients) : flag \in clients[i].flags}
<1>1. /\ clients' = remove_rounds(clients, flag) /\ HangUp(out)
      /\ unentered' = unentered \ {clients[i].peer : i \in out}
  BY DEF remove_all_ipc_clients
<1>2. /\ clients' \in Seq(Entry) /\ Len(clients') <= Len(clients)
      /\ \A j \in 1 .. Len(clients') : flag \notin clients'[j].flags
      /\ \E h : Picks(h, clients', clients)
  BY <1>1, RemoveAll DEF TableOK
<1>3. PICK h : Picks(h, clients', clients)
  BY <1>2
<1>4. \A k \in 1 .. Len(clients') : h[k] \notin out
  BY <1>2, <1>3 DEF Picks
<1> HIDE DEF out
<1>5. Removal(out)
  <2>1. out \subseteq 1 .. Len(clients)
    BY DEF out
  <2> QED
    BY <1>1, <1>2, <1>3, <1>4, <2>1 DEF Removal
<1> QED
  BY <1>2, <1>5 DEF out

(* Ids stay unique when clients are removed,                                  *)
LEMMA RemovalTable ==
    ASSUME TableOK, NEW out, Removal(out), UNCHANGED next_ipc_client_id
    PROVE  TableOK'
<1>1. PICK h : Picks(h, clients', clients)
  BY DEF Removal
<1>2. clients' \in Seq(Entry) /\ Len(clients') <= Slots
  <2>1. Len(clients) \in Nat /\ Len(clients') \in Nat
    BY LenProperties DEF TableOK, Removal
  <2> QED
    BY <2>1 DEF TableOK, Removal
<1>3. UsedIds' \subseteq UsedIds
  BY <1>1 DEF Picks, UsedIds
<1>4. \A i, j \in 1 .. Len(clients') :
          clients'[i].client_id = clients'[j].client_id => i = j
  BY <1>1 DEF Picks, TableOK, IdsUnique
<1> QED
  BY <1>2, <1>3, <1>4 DEF TableOK, IdsUnique

(* when their entries change and keep the id,                                 *)
LEMMA UpdateTable ==
    ASSUME TableOK, clients' \in Seq(Entry), Len(clients') = Len(clients),
           \A k \in 1 .. Len(clients) : clients'[k].client_id = clients[k].client_id,
           UNCHANGED next_ipc_client_id
    PROVE  TableOK'
BY DEF TableOK, IdsUnique, UsedIds

(* and when one is added.                                                     *)
LEMMA AddTable ==
    ASSUME TableOK, NEW e \in Entry, e.client_id = next_ipc_client_id, add_ipc_client(e)
    PROVE  TableOK'
<1> DEFINE n == Len(clients)
<1>1. n \in Nat /\ n < Slots /\ clients \in Seq(Entry) /\ next_ipc_client_id \in Ids
  BY LenProperties DEF TableOK, add_ipc_client
<1>2. /\ next_ipc_client_id' \in Ids
      /\ next_ipc_client_id' \notin UsedIds
      /\ next_ipc_client_id' # next_ipc_client_id
  BY <1>1, NextIdIsFree DEF add_ipc_client
<1>3. /\ clients' \in Seq(Entry) /\ Len(clients') = n + 1
      /\ \A k \in 1 .. n : clients'[k] = clients[k]
      /\ clients'[n + 1] = e
  BY <1>1, AppendProperties DEF add_ipc_client
<1>4. \A k \in 1 .. n : clients[k].client_id # next_ipc_client_id
  BY DEF TableOK, IdsUnique, UsedIds
<1>5. \A k \in 1 .. n + 1 : k \in 1 .. n \/ k = n + 1
  BY <1>1
<1>6. next_ipc_client_id' \notin UsedIds'
  BY <1>2, <1>3, <1>5 DEF UsedIds
<1>7. \A i, j \in 1 .. n : clients[i].client_id = clients[j].client_id => i = j
  BY DEF TableOK, IdsUnique
<1>8. \A i, j \in 1 .. n + 1 : clients'[i].client_id = clients'[j].client_id => i = j
  <2> HIDE DEF n
  <2> QED
    BY <1>3, <1>4, <1>5, <1>7
<1>9. n + 1 <= Slots
  BY <1>1
<1> QED
  BY <1>2, <1>3, <1>6, <1>8, <1>9 DEF TableOK, IdsUnique
(* poll only notes which clients are ready.                                   *)
LEMMA PollEffect ==
    ASSUME TableOK, PeersOK, Poll
    PROVE  /\ clients' \in Seq(Entry) /\ Len(clients') = Len(clients)
           /\ \A k \in 1 .. Len(clients) :
                 /\ clients'[k].client_id = clients[k].client_id
                 /\ clients'[k].peer = clients[k].peer
                 /\ clients'[k].flags = clients[k].flags
                 /\ clients'[k].forward_logs = clients[k].forward_logs
<1> DEFINE n == Len(clients)
           due(i) == LET p == peers[clients[i].peer] IN p.msg # "none" \/ p.at = "left"
           new(i) == [clients[i] EXCEPT !.revents = due(i)]
<1>1. n \in Nat /\ \A k \in 1 .. n : clients[k] \in Entry
  BY LenProperties DEF TableOK
<1>2. clients' = [i \in 1 .. n |-> new(i)]
  BY DEF Poll
<1>3. ASSUME NEW i \in 1 .. n
      PROVE  /\ new(i) \in Entry
             /\ new(i).client_id = clients[i].client_id
             /\ new(i).peer = clients[i].peer
             /\ new(i).flags = clients[i].flags
             /\ new(i).forward_logs = clients[i].forward_logs
  <2>1. due(i) \in BOOLEAN
    OBVIOUS
  <2> HIDE DEF due
  <2>2. clients[i] \in Entry
    BY <1>1
  <2> QED
    BY <2>1, <2>2 DEF Entry
<1>4. clients' \in [1 .. n -> Entry]
  <2> HIDE DEF new
  <2> QED
    BY <1>2, <1>3
<1>5. clients' \in Seq(Entry) /\ Len(clients') = n
  <2> HIDE DEF new, n
  <2> QED
    BY <1>1, <1>4, LenProperties
<1>6. \A k \in 1 .. n : clients'[k] = new(k)
  <2> HIDE DEF new
  <2> QED
    BY <1>2
<1> HIDE DEF new
<1> QED
  BY <1>3, <1>5, <1>6

(* A request makes the client wait for its outcome.                           *)
LEMMA ClientRequestEffect ==
    ASSUME TableOK, LoopOK, ClientRequest
    PROVE  /\ slot \in 1 .. Len(clients)
           /\ clients' \in Seq(Entry) /\ Len(clients') = Len(clients)
           /\ \A k \in 1 .. Len(clients) :
                 /\ clients'[k].client_id = clients[k].client_id
                 /\ clients'[k].peer = clients[k].peer
                 /\ k # slot => clients'[k] = clients[k]
           /\ clients'[slot].flags = clients[slot].flags \cup FlagsOf(message)
           /\ clients'[slot].forward_logs = TRUE
<1> DEFINE n == Len(clients)
           e == clients[slot]
           w == waiting(e, message)
<1>1. /\ slot \in 1 .. n /\ e \in Entry
      /\ n \in Nat /\ clients \in Seq(Entry)
      /\ clients' = [clients EXCEPT ![slot] = w]
  BY ServedClient, LenProperties DEF ClientRequest, TableOK
<1>2. FlagsOf(message) \subseteq Flags
  BY DEF FlagsOf, Flags
<1>3. /\ w \in Entry /\ w.client_id = e.client_id /\ w.peer = e.peer
      /\ w.flags = e.flags \cup FlagsOf(message) /\ w.forward_logs = TRUE
  <2> HIDE DEF e
  <2> QED
    BY <1>1, <1>2 DEF waiting, Entry
<1> HIDE DEF w
<1>4. /\ clients' \in Seq(Entry) /\ Len(clients') = n
      /\ \A k \in 1 .. n : clients'[k] = IF k = slot THEN w ELSE clients[k]
  BY <1>1, <1>3, LenProperties
<1> QED
  BY <1>1, <1>3, <1>4

(* A new client gets the next id.                                             *)
NewEntry ==
    [client_id |-> next_ipc_client_id, peer |-> Head(backlog), flags |-> {},
     forward_logs |-> FALSE, revents |-> FALSE]

(* The two ways in which ServeIpc changes something.                          *)
LEMMA ServeIpcEffect ==
    ASSUME TableOK, PeersOK, ServeIpc
    PROVE  \/ UNCHANGED <<clients, next_ipc_client_id, peers, backlog>>
           \/ /\ backlog # <<>> /\ backlog' = Tail(backlog)
              /\ NewEntry \in Entry /\ add_ipc_client(NewEntry)
              /\ UNCHANGED peers
           \/ /\ backlog # <<>> /\ backlog' = Tail(backlog)
              /\ peers' = [peers EXCEPT ![Head(backlog)] = [at |-> "out", msg |-> "none"]]
              /\ UNCHANGED <<clients, next_ipc_client_id>>
<1>1. CASE "ipc" \notin ready
  BY <1>1 DEF ServeIpc
<1>2. CASE "ipc" \in ready
  <2>1. backlog # <<>> /\ backlog' = Tail(backlog)
    BY <1>2 DEF ServeIpc, PeersOK
  <2>2. Head(backlog) \in Peers
    BY <2>1, HeadTailProperties DEF PeersOK
  <2>3. NewEntry \in Entry
    BY <2>2 DEF NewEntry, Entry, TableOK
  <2>4. \/ add_ipc_client(NewEntry) /\ UNCHANGED peers
        \/ /\ peers' = [peers EXCEPT ![Head(backlog)] = [at |-> "out", msg |-> "none"]]
           /\ UNCHANGED <<clients, next_ipc_client_id>>
    BY <1>2 DEF ServeIpc, NewEntry
  <2> QED
    BY <2>1, <2>3, <2>4
<1> QED
  BY <1>1, <1>2

(* What becomes of the clients when signal s is handled.                      *)
SignalEffect(s) ==
    \/ /\ s.signal \notin DOMAIN DisconnectFlag
       /\ s.signal = "CANNOT_HANDLE_REQUEST" => find_ipc_client_by_id(s.client) = {}
       /\ UNCHANGED <<clients, peers>>
       /\ IF s.signal = "UNLOCK_TIMEOUT"
          THEN unentered' = unentered \cup {clients[i].peer : i \in {j \in 1 .. Len(clients) :
                                                              "OPEN" \in clients[j].flags}}
          ELSE UNCHANGED unentered
    \/ /\ s.signal \in DOMAIN DisconnectFlag
       /\ remove_all_ipc_clients(DisconnectFlag[s.signal])
    \/ /\ s.signal = "CANNOT_HANDLE_REQUEST"
       /\ \E i \in find_ipc_client_by_id(s.client) : remove_ipc_client(i)

(* The signals whose outcome some clients wait for.                           *)
LEMMA OutcomeSignals ==
    /\ DOMAIN DisconnectFlag = {"LOCK_SUCCESSFUL", "OPEN_SUCCESSFUL", "CHANGE_KEYHOLDER",
                                "NO_STATE_CHANGE", "USER_REQUESTED_TIMED_OUT"}
    /\ DisconnectFlag["LOCK_SUCCESSFUL"] = "LOCKED"
    /\ DisconnectFlag["OPEN_SUCCESSFUL"] = "OPEN"
    /\ DisconnectFlag["CHANGE_KEYHOLDER"] = "OPEN"
    /\ DisconnectFlag["NO_STATE_CHANGE"] = "NO_CHANGE"
    /\ DisconnectFlag["USER_REQUESTED_TIMED_OUT"] = "ERROR"
BY DEF DisconnectFlag

(* A handled signal leaves the ring.                                          *)
LEMMA Handled ==
    ASSUME HandleSignal, ~Dies("crashed")
    PROVE  /\ ring # <<>> /\ ring' = Tail(ring)
           /\ UNCHANGED <<next_ipc_client_id, sm, up, backlog, lost, pc, index, ready>>
           /\ SignalEffect(Head(ring))
<1> DEFINE s == Head(ring)
<1>1. /\ ring # <<>> /\ ring' = Tail(ring)
      /\ UNCHANGED <<next_ipc_client_id, sm, up, backlog, lost>> /\ UNCHANGED loopVars
      /\ TimerSignal(s) \/ CommandSignal(s) \/ NoticeSignal(s) \/ ResultSignal(s)
           \/ RefusalSignal(s)
  BY DEF HandleSignal
<1>2. DOMAIN CommandsOf = {"OPEN_DOOR_B", "OPEN_DOOR_C", "OPEN_DOOR_B2_SAFE",
                           "OPEN_DOOR_C2_SAFE", "OPEN_DOOR_B2_UNSAFE",
                           "OPEN_DOOR_C2_UNSAFE", "LOCK_ALL"}
  BY DEF CommandsOf
<1> HIDE DEF s
<1>3. SignalEffect(s)
  <2>1. CASE TimerSignal(s)
    BY <2>1, OutcomeSignals DEF TimerSignal, keep_clients, SignalEffect
  <2>2. CASE CommandSignal(s)
    BY <1>2, <2>2, OutcomeSignals DEF CommandSignal, keep_clients, SignalEffect
  <2>3. CASE NoticeSignal(s)
    BY <2>3, OutcomeSignals DEF NoticeSignal, SignalEffect
  <2>4. CASE ResultSignal(s)
    BY <2>4 DEF ResultSignal, SignalEffect
  <2>5. CASE RefusalSignal(s)
    BY <2>5, OutcomeSignals DEF RefusalSignal, keep_clients, SignalEffect
  <2> QED
    BY <1>1, <2>1, <2>2, <2>3, <2>4, <2>5
<1> QED
  BY <1>1, <1>3 DEF s, loopVars

(* Whatever signal it is, clients are at most removed.                        *)
LEMMA HandledRemoves ==
    ASSUME TableOK, NEW s, SignalEffect(s)
    PROVE  (UNCHANGED <<clients, peers>> /\ unentered' \subseteq unentered \cup {clients[i].peer : i \in 1 .. Len(clients)})
           \/ \E out : Removal(out)
<1>1. CASE UNCHANGED <<clients, peers>> /\ (unentered' = unentered
             \/ unentered' = unentered \cup {clients[i].peer : i \in {j \in 1 .. Len(clients) :
                                                              "OPEN" \in clients[j].flags}})
  BY <1>1
<1>2. ASSUME NEW flag, remove_all_ipc_clients(flag) PROVE \E out : Removal(out)
  BY <1>2, RemoveFlagged
<1>3. ASSUME NEW i \in find_ipc_client_by_id(s.client), remove_ipc_client(i)
      PROVE  \E out : Removal(out)
  <2>1. i \in 1 .. Len(clients)
    BY DEF find_ipc_client_by_id
  <2> QED
    BY <1>3, <2>1, RemoveOne
<1> QED
  BY <1>1, <1>2, <1>3 DEF SignalEffect

(* The table keeps its types and its ids unique.                              *)
LEMMA TableStep ==
    ASSUME TableOK, LoopOK, PeersOK, [Next]_vars
    PROVE  TableOK'
<1>1. ASSUME UNCHANGED <<clients, next_ipc_client_id>> PROVE TableOK'
  BY <1>1 DEF TableOK, IdsUnique, UsedIds
<1>2. ASSUME Dies("crashed") \/ Dies("exited") PROVE TableOK'
  <2>1. clients' = <<>> /\ next_ipc_client_id' = 0
    BY <1>2 DEF Dies
  <2>2. clients' \in Seq(Entry) /\ Len(clients') = 0 /\ 0 \in Ids
    BY <2>1 DEF Ids
  <2> QED
    BY <2>1, <2>2 DEF TableOK, IdsUnique, UsedIds
<1>3. CASE HandleSignal
  <2>1. CASE ~Dies("crashed")
    BY <1>1, <1>3, <2>1, Handled, HandledRemoves, RemovalTable
  <2> QED
    BY <1>2, <2>1
<1>4. CASE Poll
  BY <1>4, PollEffect, UpdateTable DEF Poll
<1>5. CASE ServeIpc
  <2>1. NewEntry.client_id = next_ipc_client_id
    BY DEF NewEntry
  <2> QED
    BY <1>1, <1>5, <2>1, ServeIpcEffect, AddTable
<1>6. CASE ClientRequest
  BY <1>6, ClientRequestEffect, UpdateTable DEF ClientRequest
<1>7. CASE ClientEof \/ ClientAnswered
  <2>1. ServingClient /\ remove_ipc_client(slot) /\ UNCHANGED next_ipc_client_id
    BY <1>7 DEF ClientEof, ClientAnswered
  <2> QED
    BY <2>1, ServedClient, RemoveOne, RemovalTable
<1>8. CASE SyncDone
  BY <1>1, <1>2, <1>8 DEF SyncDone
<1>9. CASE MqttNotice \/ ApiStatusFails \/ ServeIpcCrash \/ ServeMqttEnds \/ ClientCrash
           \/ SlowRound \/ Stop \/ PollInterrupted
  BY <1>2, <1>9 DEF MqttNotice, ApiStatusFails, ServeIpcCrash, ServeMqttEnds, ClientCrash,
                    SlowRound, Stop, PollInterrupted
<1>10. CASE Drained \/ MqttEvent \/ ServeMqtt \/ ServeTimer \/ NextClient \/ SigTerm \/ Restart
  BY <1>1, <1>10 DEF Drained, MqttEvent, ServeMqtt, ServeTimer, NextClient, SigTerm, Restart
<1>11. CASE (\E p \in Peers : PeerConnects(p) \/ PeerLeaves(p)) \/ TimerExpires \/ LinkDrops
  BY <1>1, <1>11 DEF PeerConnects, PeerLeaves, TimerExpires, LinkDrops, OutsideDaemon
<1>12. CASE UNCHANGED vars
  BY <1>1, <1>12 DEF vars
<1> QED
  BY <1>3, <1>4, <1>5, <1>6, <1>7, <1>8, <1>9, <1>10, <1>11, <1>12 DEF Next, Daemon
-----------------------------------------------------------------------------
(* The processes.                                                             *)

PeerStates == [at: {"out", "here", "left"}, msg: IpcMessages \cup {"none"}]

(* Everybody who is connected has one place.                                  *)
Placed ==
    /\ peers \in [Peers -> PeerStates]
    /\ backlog \in Seq(Peers)
    /\ \A i, j \in 1 .. Len(clients) : clients[i].peer = clients[j].peer => i = j
    /\ \A i, j \in 1 .. Len(backlog) : backlog[i] = backlog[j] => i = j
    /\ \A i \in 1 .. Len(clients), j \in 1 .. Len(backlog) : clients[i].peer # backlog[j]
    /\ \A i \in 1 .. Len(clients) : peers[clients[i].peer].at # "out"
    /\ \A j \in 1 .. Len(backlog) : peers[backlog[j]].at # "out"

(* The clients are processes.                                                 *)
LEMMA ClientsPeers ==
    ASSUME clients \in Seq(Entry)
    PROVE  \A k \in 1 .. Len(clients) : clients[k] \in Entry /\ clients[k].peer \in Peers
<1>1. \A k \in 1 .. Len(clients) : clients[k] \in Entry
  BY LenProperties
<1>2. \A e \in Entry : e.peer \in Peers
  BY DEF Entry
<1> QED
  BY <1>1, <1>2

(* It stays so when nobody moves,                                             *)
LEMMA PlacedKept ==
    ASSUME Placed, Len(clients') = Len(clients), UNCHANGED backlog,
           \A k \in 1 .. Len(clients) : clients'[k].peer = clients[k].peer,
           peers' \in [Peers -> PeerStates],
           \A p \in Peers : peers[p].at # "out" => peers'[p].at # "out",
           clients \in Seq(Entry)
    PROVE  Placed'
<1>1. \A k \in 1 .. Len(clients) : clients[k].peer \in Peers
  BY ClientsPeers
<1>2. \A k \in 1 .. Len(backlog) : backlog[k] \in Peers
  BY LenProperties DEF Placed
<1> QED
  BY <1>1, <1>2 DEF Placed

(* when clients are removed,                                                  *)
LEMMA PlacedRemoval ==
    ASSUME TableOK, Placed, NEW out, Removal(out), UNCHANGED backlog
    PROVE  Placed'
<1>1. PICK h : Picks(h, clients', clients) /\ \A k \in 1 .. Len(clients') : h[k] \notin out
  BY DEF Removal
<1>2. /\ \A k \in 1 .. Len(clients) : clients[k].peer \in Peers
      /\ \A k \in 1 .. Len(backlog) : backlog[k] \in Peers
  BY ClientsPeers, LenProperties DEF Placed, TableOK
<1>3. [at |-> "out", msg |-> "none"] \in PeerStates
  BY DEF PeerStates
<1>4. /\ peers' \in [Peers -> PeerStates]
      /\ \A p \in Peers : (\A i \in out : clients[i].peer # p) => peers'[p] = peers[p]
  BY <1>3 DEF Removal, HangUp, Placed
<1>5. \A k \in 1 .. Len(clients') : /\ h[k] \in 1 .. Len(clients)
                                    /\ clients'[k].peer = clients[h[k]].peer
  BY <1>1 DEF Picks
<1>6. \A k \in 1 .. Len(clients') : peers'[clients'[k].peer].at # "out"
  <2> SUFFICES ASSUME NEW k \in 1 .. Len(clients') PROVE peers'[clients'[k].peer].at # "out"
    OBVIOUS
  <2>1. \A i \in out : clients[i].peer # clients[h[k]].peer
    <3>1. h[k] \in 1 .. Len(clients) /\ h[k] \notin out
      BY <1>1, <1>5
    <3>2. out \subseteq 1 .. Len(clients)
      BY DEF Removal
    <3>3. \A i, j \in 1 .. Len(clients) : clients[i].peer = clients[j].peer => i = j
      BY DEF Placed
    <3> QED
      BY <3>1, <3>2, <3>3
  <2>2. clients'[k].peer = clients[h[k]].peer /\ clients[h[k]].peer \in Peers
    BY <1>2, <1>5
  <2>3. peers'[clients[h[k]].peer] = peers[clients[h[k]].peer]
    BY <1>4, <2>1, <2>2
  <2> QED
    BY <1>5, <2>2, <2>3 DEF Placed
<1>7. \A j \in 1 .. Len(backlog) : peers'[backlog[j]].at # "out"
  <2> SUFFICES ASSUME NEW j \in 1 .. Len(backlog) PROVE peers'[backlog[j]].at # "out"
    OBVIOUS
  <2>1. \A i \in out : clients[i].peer # backlog[j]
    BY DEF Placed, Removal
  <2>2. peers'[backlog[j]] = peers[backlog[j]]
    BY <1>2, <1>4, <2>1
  <2> QED
    BY <2>2 DEF Placed
<1>8. ASSUME NEW i \in 1 .. Len(clients'), NEW j \in 1 .. Len(clients'),
             clients'[i].peer = clients'[j].peer
      PROVE  i = j
  <2>1. /\ h[i] \in 1 .. Len(clients) /\ h[j] \in 1 .. Len(clients)
        /\ clients[h[i]].peer = clients[h[j]].peer
    BY <1>5, <1>8
  <2>2. h[i] = h[j]
    BY <2>1 DEF Placed
  <2> QED
    BY <1>1, <2>2 DEF Picks
<1>9. ASSUME NEW k \in 1 .. Len(clients'), NEW j \in 1 .. Len(backlog)
      PROVE  clients'[k].peer # backlog[j]
  BY <1>5 DEF Placed
<1> QED
  BY <1>4, <1>6, <1>7, <1>8, <1>9 DEF Placed

(* and when the first in the queue is accepted or turned away.                *)
LEMMA PlacedServeIpc ==
    ASSUME TableOK, PeersOK, Placed, ServeIpc
    PROVE  Placed'
<1> DEFINE n == Len(backlog)
<1>1. CASE UNCHANGED <<clients, peers, backlog>>
  BY <1>1 DEF Placed
<1>2. ASSUME backlog # <<>>, backlog' = Tail(backlog)
      PROVE  /\ backlog' \in Seq(Peers) /\ n \in Nat /\ n > 0 /\ Len(backlog') = n - 1
             /\ Head(backlog) = backlog[1] /\ backlog[1] \in Peers
             /\ \A k \in 1 .. n - 1 : backlog'[k] = backlog[k + 1]
             /\ \A i, j \in 1 .. n - 1 : backlog'[i] = backlog'[j] => i = j
             /\ \A k \in 1 .. n - 1 : /\ backlog'[k] # backlog[1]
                                      /\ backlog'[k] \in Peers
                                      /\ peers[backlog'[k]].at # "out"
             /\ \A i \in 1 .. Len(clients), k \in 1 .. n - 1 : clients[i].peer # backlog'[k]
  <2>1. /\ backlog' \in Seq(Peers) /\ n \in Nat /\ n > 0 /\ Len(backlog') = n - 1
        /\ Head(backlog) = backlog[1]
        /\ \A k \in 1 .. n : backlog[k] \in Peers
        /\ \A k \in 1 .. n - 1 : backlog'[k] = backlog[k + 1]
    BY <1>2, HeadTailProperties, LenProperties, EmptySeq DEF Placed
  <2>2. 1 \in 1 .. n /\ \A k \in 1 .. n - 1 : k + 1 \in 1 .. n /\ k + 1 # 1
    BY <2>1
  <2>3. \A i, j \in 1 .. n - 1 : i + 1 = j + 1 => i = j
    BY <2>1
  <2>4. \A i, j \in 1 .. n - 1 : backlog'[i] = backlog'[j] => i = j
    <3> SUFFICES ASSUME NEW i \in 1 .. n - 1, NEW j \in 1 .. n - 1, backlog'[i] = backlog'[j]
                 PROVE  i = j
      OBVIOUS
    <3>1. i + 1 = j + 1
      BY <2>1, <2>2 DEF Placed
    <3> QED
      BY <2>3, <3>1
  <2>5. ASSUME NEW k \in 1 .. n - 1
        PROVE  /\ backlog'[k] # backlog[1] /\ backlog'[k] \in Peers
               /\ peers[backlog'[k]].at # "out"
               /\ \A i \in 1 .. Len(clients) : clients[i].peer # backlog'[k]
    BY <2>1, <2>2 DEF Placed
  <2> HIDE DEF n
  <2> QED
    BY <2>1, <2>2, <2>4, <2>5
<1>3. CASE /\ backlog # <<>> /\ backlog' = Tail(backlog)
           /\ add_ipc_client(NewEntry) /\ NewEntry \in Entry
           /\ UNCHANGED peers
  <2> DEFINE m == Len(clients)
  <2>1. m \in Nat /\ clients \in Seq(Entry) /\ NewEntry.peer = backlog[1]
    BY <1>2, <1>3, LenProperties DEF TableOK, NewEntry
  <2>2. /\ Len(clients') = m + 1 /\ \A k \in 1 .. m : clients'[k] = clients[k]
        /\ clients'[m + 1] = NewEntry
        /\ \A k \in 1 .. m + 1 : k \in 1 .. m \/ k = m + 1
    BY <1>3, <2>1, AppendProperties DEF add_ipc_client
  <2>3. \A k \in 1 .. m : clients[k].peer # backlog[1]
    BY <1>2, <1>3 DEF Placed
  <2>4. peers[backlog[1]].at # "out"
    BY <1>2, <1>3 DEF Placed
  <2> HIDE DEF m
  <2>5. \A i, j \in 1 .. m + 1 : clients'[i].peer = clients'[j].peer => i = j
    BY <2>1, <2>2, <2>3 DEF Placed, m
  <2>6. \A i \in 1 .. m + 1, j \in 1 .. n - 1 : clients'[i].peer # backlog'[j]
    BY <1>2, <1>3, <2>1, <2>2 DEF m
  <2>7. \A i \in 1 .. m + 1 : peers[clients'[i].peer].at # "out"
    BY <2>1, <2>2, <2>4 DEF Placed, m
  <2> QED
    BY <1>2, <1>3, <2>2, <2>5, <2>6, <2>7 DEF Placed
<1>4. CASE /\ backlog # <<>> /\ backlog' = Tail(backlog)
           /\ peers' = [peers EXCEPT ![Head(backlog)] = [at |-> "out", msg |-> "none"]]
           /\ UNCHANGED clients
  <2>1. [at |-> "out", msg |-> "none"] \in PeerStates
    BY DEF PeerStates
  <2>2. /\ peers' \in [Peers -> PeerStates]
        /\ \A p \in Peers : p # backlog[1] => peers'[p] = peers[p]
    BY <1>2, <1>4, <2>1 DEF Placed
  <2>3. \A i \in 1 .. Len(clients) : clients[i].peer \in Peers /\ clients[i].peer # backlog[1]
    <3>1. 1 \in 1 .. n
      BY <1>2, <1>4
    <3> QED
      BY <3>1, ClientsPeers DEF Placed, TableOK
  <2>4. \A i \in 1 .. Len(clients) : peers'[clients[i].peer].at # "out"
    BY <2>2, <2>3 DEF Placed
  <2>5. \A i, j \in 1 .. Len(clients) : clients[i].peer = clients[j].peer => i = j
    BY DEF Placed
  <2>6. \A k \in 1 .. n - 1 : peers'[backlog'[k]].at # "out"
    BY <1>2, <1>4, <2>2
  <2> HIDE DEF n
  <2> QED
    BY <1>2, <1>4, <2>2, <2>4, <2>5, <2>6 DEF Placed
<1> QED
  BY <1>1, <1>3, <1>4, ServeIpcEffect
(* Somebody connects.                                                         *)
LEMMA PlacedConnect ==
    ASSUME TableOK, Placed, NEW p \in Peers, PeerConnects(p)
    PROVE  Placed'
<1> DEFINE n == Len(backlog)
<1>1. /\ peers[p].at = "out" /\ clients' = clients /\ backlog' = Append(backlog, p)
  BY DEF PeerConnects, OutsideDaemon
<1>2. PICK m \in Messages : peers' = [peers EXCEPT ![p] = [at |-> "here", msg |-> m]]
  BY DEF PeerConnects
<1>3. m \in IpcMessages
  OBVIOUS
<1>4. [at |-> "here", msg |-> m] \in PeerStates
  BY <1>3 DEF PeerStates
<1>5. /\ peers' \in [Peers -> PeerStates] /\ peers'[p].at = "here"
      /\ \A q \in Peers : q # p => peers'[q] = peers[q]
  BY <1>2, <1>4 DEF Placed
<1>6. /\ n \in Nat /\ backlog' \in Seq(Peers) /\ Len(backlog') = n + 1
      /\ \A k \in 1 .. n : backlog'[k] = backlog[k] /\ backlog[k] \in Peers
      /\ backlog'[n + 1] = p
      /\ \A k \in 1 .. n + 1 : k \in 1 .. n \/ k = n + 1
  BY <1>1, AppendProperties, LenProperties DEF Placed
<1>7. \A k \in 1 .. n : backlog[k] # p
  BY <1>1 DEF Placed
<1>8. \A k \in 1 .. Len(clients) : clients[k].peer # p /\ clients[k].peer \in Peers
  BY <1>1, ClientsPeers DEF Placed, TableOK
<1>9. \A q \in Peers : peers[q].at # "out" => peers'[q].at # "out"
  BY <1>1, <1>5
<1> HIDE DEF n
<1>10. \A i, j \in 1 .. n + 1 : backlog'[i] = backlog'[j] => i = j
  BY <1>6, <1>7 DEF Placed, n
<1>11. \A i \in 1 .. Len(clients), j \in 1 .. n + 1 : clients[i].peer # backlog'[j]
  BY <1>6, <1>8 DEF Placed, n
<1>12. \A i \in 1 .. Len(clients) : peers'[clients[i].peer].at # "out"
  BY <1>8, <1>9 DEF Placed
<1>13. \A j \in 1 .. n + 1 : peers'[backlog'[j]].at # "out"
  BY <1>5, <1>6, <1>9 DEF Placed, n
<1>14. \A i, j \in 1 .. Len(clients) : clients[i].peer = clients[j].peer => i = j
  BY DEF Placed
<1> QED
  BY <1>1, <1>5, <1>6, <1>10, <1>11, <1>12, <1>13, <1>14 DEF Placed

(* Somebody leaves, or has a request read.                                    *)
LEMMA PlacedUpdate ==
    ASSUME TableOK, Placed, UNCHANGED backlog,
           Len(clients') = Len(clients),
           \A k \in 1 .. Len(clients) : clients'[k].peer = clients[k].peer,
           NEW p \in Peers,
           \/ peers' = [peers EXCEPT ![p].at = "left"]
           \/ peers' = [peers EXCEPT ![p].msg = "none"]
    PROVE  Placed'
<1>1. \A r \in PeerStates : /\ [r EXCEPT !.at = "left"] \in PeerStates
                            /\ [r EXCEPT !.msg = "none"] \in PeerStates
                            /\ [r EXCEPT !.at = "left"].at = "left"
                            /\ [r EXCEPT !.msg = "none"].at = r.at
  BY DEF PeerStates
<1>2. \/ peers' = [peers EXCEPT ![p] = [peers[p] EXCEPT !.at = "left"]]
      \/ peers' = [peers EXCEPT ![p] = [peers[p] EXCEPT !.msg = "none"]]
  OBVIOUS
<1>3. peers \in [Peers -> PeerStates] /\ peers[p] \in PeerStates
  BY DEF Placed
<1>4. peers' \in [Peers -> PeerStates]
  BY <1>1, <1>2, <1>3
<1>5. \A q \in Peers : peers[q].at # "out" => peers'[q].at # "out"
  <2>1. peers[p].at # "out" => peers'[p].at # "out"
    BY <1>1, <1>2, <1>3
  <2>2. \A q \in Peers : q # p => peers'[q] = peers[q]
    BY <1>2, <1>3
  <2> QED
    BY <2>1, <2>2
<1> QED
  BY <1>4, <1>5, PlacedKept DEF TableOK

(* Every step keeps them in place.                                            *)
LEMMA PlacedStep ==
    ASSUME TableOK, LoopOK, PeersOK, [Next]_vars
    PROVE  Placed'
<1>0. Placed
  BY DEF PeersOK, Placed, PeerStates
<1>1. ASSUME UNCHANGED <<clients, peers, backlog>> PROVE Placed'
  BY <1>0, <1>1 DEF Placed
<1>2. ASSUME Dies("crashed") \/ Dies("exited") PROVE Placed'
  <2>1. /\ clients' = <<>> /\ backlog' = <<>>
        /\ peers' = [p \in Peers |-> [at |-> "out", msg |-> "none"]]
    BY <1>2 DEF Dies
  <2>2. peers' \in [Peers -> PeerStates]
    BY <2>1 DEF PeerStates
  <2>3. Len(clients') = 0 /\ Len(backlog') = 0 /\ backlog' \in Seq(Peers)
    BY <2>1
  <2> QED
    BY <2>2, <2>3 DEF Placed
<1>3. CASE HandleSignal
  <2>1. CASE ~Dies("crashed")
    BY <1>0, <1>1, <1>3, <2>1, Handled, HandledRemoves, PlacedRemoval
  <2> QED
    BY <1>2, <2>1
<1>4. CASE Poll
  <2>1. UNCHANGED <<peers, backlog>>
    BY <1>4 DEF Poll, peerVars
  <2> QED
    BY <1>0, <1>4, <2>1, PollEffect, PlacedKept DEF TableOK, Placed
<1>5. CASE ServeIpc
  BY <1>0, <1>5, PlacedServeIpc
<1>6. CASE ClientRequest
  <2>1. peer \in Peers /\ UNCHANGED backlog /\ peers' = [peers EXCEPT ![peer].msg = "none"]
    BY <1>6, ServedClient DEF ClientRequest, Entry, peer
  <2> QED
    BY <1>0, <1>6, <2>1, ClientRequestEffect, PlacedUpdate
<1>7. CASE ClientEof \/ ClientAnswered
  <2>1. ServingClient /\ remove_ipc_client(slot) /\ UNCHANGED backlog
    BY <1>7 DEF ClientEof, ClientAnswered
  <2> QED
    BY <1>0, <2>1, ServedClient, RemoveOne, PlacedRemoval
<1>8. CASE SyncDone
  BY <1>1, <1>2, <1>8 DEF SyncDone, peerVars
<1>9. CASE MqttNotice \/ ApiStatusFails \/ ServeIpcCrash \/ ServeMqttEnds \/ ClientCrash
           \/ SlowRound \/ Stop \/ PollInterrupted
  BY <1>2, <1>9 DEF MqttNotice, ApiStatusFails, ServeIpcCrash, ServeMqttEnds, ClientCrash,
                    SlowRound, Stop, PollInterrupted
<1>10. CASE Drained \/ MqttEvent \/ ServeMqtt \/ ServeTimer \/ NextClient \/ SigTerm \/ Restart
  BY <1>1, <1>10 DEF Drained, MqttEvent, ServeMqtt, ServeTimer, NextClient, SigTerm, Restart,
                     peerVars
<1>11. CASE TimerExpires \/ LinkDrops
  BY <1>1, <1>11 DEF TimerExpires, LinkDrops, OutsideDaemon, peerVars
<1>12. ASSUME NEW p \in Peers, PeerConnects(p) PROVE Placed'
  BY <1>0, <1>12, PlacedConnect
<1>13. ASSUME NEW p \in Peers, PeerLeaves(p) PROVE Placed'
  <2>1. UNCHANGED <<clients, backlog>> /\ peers' = [peers EXCEPT ![p].at = "left"]
    BY <1>13 DEF PeerLeaves, OutsideDaemon
  <2> QED
    BY <1>0, <2>1, PlacedUpdate
<1>14. CASE UNCHANGED vars
  BY <1>1, <1>14 DEF vars, peerVars
<1> QED
  BY <1>3, <1>4, <1>5, <1>6, <1>7, <1>8, <1>9, <1>10, <1>11, <1>12, <1>13, <1>14
     DEF Next, Daemon

(* When the listener is served, somebody is in its queue.                     *)
LEMMA ListenerStep ==
    ASSUME TableOK, LoopOK, PeersOK, [Next]_vars
    PROVE  (pc = "serve" /\ index = 0 /\ "ipc" \in ready => backlog # <<>>)'
<1>0. index \in Nat /\ backlog \in Seq(Peers)
  BY DEF LoopOK, PeersOK
<1>1. ASSUME UNCHANGED <<pc, index, ready, backlog>>
      PROVE  (pc = "serve" /\ index = 0 /\ "ipc" \in ready => backlog # <<>>)'
  BY <1>1 DEF PeersOK
<1>2. ASSUME NEW fd, Advance(fd)
      PROVE  (pc = "serve" /\ index = 0 /\ "ipc" \in ready => backlog # <<>>)'
  BY <1>0, <1>2 DEF Advance
<1>3. ASSUME Dies("crashed") \/ Dies("exited")
      PROVE  (pc = "serve" /\ index = 0 /\ "ipc" \in ready => backlog # <<>>)'
  BY <1>3 DEF Dies
<1>4. CASE HandleSignal
  BY <1>1, <1>3, <1>4, Handled
<1>5. CASE Poll
  <2>1. "ipc" \in ready' => backlog # <<>>
    BY <1>5 DEF Poll
  <2> QED
    BY <1>5, <2>1 DEF Poll, peerVars
<1>6. CASE ServeIpc \/ ServeMqtt \/ ServeTimer \/ ClientEof \/ ClientRequest \/ ClientAnswered
  BY <1>2, <1>6 DEF ServeIpc, ServeMqtt, ServeTimer, ClientEof, ClientRequest, ClientAnswered
<1>7. CASE NextClient
  BY <1>2, <1>7 DEF NextClient
<1>8. CASE SyncDone
  BY <1>3, <1>8 DEF SyncDone
<1>9. CASE MqttNotice \/ ApiStatusFails \/ ServeIpcCrash \/ ServeMqttEnds \/ ClientCrash
           \/ SlowRound \/ Stop \/ PollInterrupted
  BY <1>3, <1>9 DEF MqttNotice, ApiStatusFails, ServeIpcCrash, ServeMqttEnds, ClientCrash,
                    SlowRound, Stop, PollInterrupted
<1>10. CASE Drained
  BY <1>10 DEF Drained
<1>11. CASE MqttEvent \/ SigTerm \/ Restart
  BY <1>1, <1>11 DEF MqttEvent, SigTerm, Restart, peerVars, loopVars
<1>12. CASE TimerExpires \/ LinkDrops
  BY <1>1, <1>12 DEF TimerExpires, LinkDrops, OutsideDaemon, peerVars, loopVars
<1>13. ASSUME NEW p \in Peers, PeerConnects(p)
       PROVE  (pc = "serve" /\ index = 0 /\ "ipc" \in ready => backlog # <<>>)'
  <2>1. backlog' = Append(backlog, p)
    BY <1>13 DEF PeerConnects
  <2> QED
    BY <1>0, <2>1, AppendProperties
<1>14. ASSUME NEW p \in Peers, PeerLeaves(p)
       PROVE  (pc = "serve" /\ index = 0 /\ "ipc" \in ready => backlog # <<>>)'
  BY <1>1, <1>14 DEF PeerLeaves, OutsideDaemon, loopVars
<1>15. CASE UNCHANGED vars
  BY <1>1, <1>15 DEF vars, peerVars, loopVars
<1> QED
  BY <1>4, <1>5, <1>6, <1>7, <1>8, <1>9, <1>10, <1>11, <1>12, <1>13, <1>14, <1>15
     DEF Next, Daemon

(* Whoever was let down is a process.                                         *)
LEMMA UnenteredStep ==
    ASSUME TableOK, LoopOK, PeersOK, [Next]_vars
    PROVE  unentered' \subseteq Peers
<1>0. unentered \subseteq Peers /\ \A k \in 1 .. Len(clients) : clients[k].peer \in Peers
  BY ClientsPeers DEF PeersOK, TableOK
<1>1. CASE HandleSignal
  <2>1. ASSUME NEW out, Removal(out) PROVE unentered' \subseteq Peers
    BY <1>0, <2>1 DEF Removal
  <2>2. CASE ~Dies("crashed")
    <3>1. \/ unentered' \subseteq unentered \cup {clients[i].peer : i \in 1 .. Len(clients)}
          \/ \E out : Removal(out)
      BY <1>1, <2>2, Handled, HandledRemoves
    <3> QED
      BY <1>0, <2>1, <3>1
  <2> QED
    BY <2>2 DEF Dies
<1>2. CASE ClientEof \/ ClientAnswered
  BY <1>0, <1>2 DEF ClientEof, ClientAnswered, remove_ipc_client
<1>3. CASE SyncDone
  BY <1>0, <1>3 DEF SyncDone, Dies
<1>4. CASE MqttNotice \/ ApiStatusFails \/ ServeIpcCrash \/ ServeMqttEnds \/ ClientCrash
           \/ SlowRound \/ Stop \/ PollInterrupted
  BY <1>4 DEF MqttNotice, ApiStatusFails, ServeIpcCrash, ServeMqttEnds, ClientCrash,
              SlowRound, Stop, PollInterrupted, Dies
<1>5. CASE Drained \/ MqttEvent \/ Poll \/ ServeIpc \/ ServeMqtt \/ ServeTimer \/ ClientRequest
           \/ NextClient \/ SigTerm \/ Restart
  BY <1>0, <1>5 DEF Drained, MqttEvent, Poll, ServeIpc, ServeMqtt, ServeTimer, ClientRequest,
                    NextClient, SigTerm, Restart
<1>6. CASE (\E p \in Peers : PeerConnects(p) \/ PeerLeaves(p)) \/ TimerExpires \/ LinkDrops
  BY <1>0, <1>6 DEF PeerConnects, PeerLeaves, TimerExpires, LinkDrops, OutsideDaemon
<1>7. CASE UNCHANGED vars
  BY <1>0, <1>7 DEF vars
<1> QED
  BY <1>1, <1>2, <1>3, <1>4, <1>5, <1>6, <1>7 DEF Next, Daemon

(* All of PeersOK.                                                            *)
LEMMA PeersStep ==
    ASSUME TableOK, LoopOK, PeersOK, [Next]_vars
    PROVE  PeersOK'
BY PlacedStep, ListenerStep, UnenteredStep DEF PeersOK, Placed, PeerStates
-----------------------------------------------------------------------------
(* Refusals.                                                                  *)

(* No refusal is queued.                                                      *)
NoRefusal == \A k \in 1 .. Len(ring) : ring[k].signal # "CANNOT_HANDLE_REQUEST"

(* So it is from the end of the signals to the first client served.           *)
LEMMA NoneElsewhere ==
    ASSUME RefusalOK, LoopOK, pc # "drain", pc = "serve" => index \in {0, 1, 2}
    PROVE  NoRefusal
BY DEF RefusalOK, NoRefusal

(* Without refusals there is nothing to show.                                 *)
LEMMA NoRefusalOK ==
    ASSUME NoRefusal'
    PROVE  RefusalOK'
BY DEF NoRefusal, RefusalOK, RefusalMeetsRequester

(* Removing signals or clients does no harm while the loop is in place.       *)
LEMMA RefusalKept ==
    ASSUME RefusalOK, pc' = "drain" \/ (pc' = "serve" /\ index' > 2),
           \A k \in 1 .. Len(ring') : \E j \in 1 .. Len(ring) : ring'[k] = ring[j],
           \A k \in 1 .. Len(clients') : \E j \in 1 .. Len(clients) : clients'[k] = clients[j]
    PROVE  RefusalOK'
<1>1. ASSUME NEW k \in 1 .. Len(ring'), ring'[k].signal = "CANNOT_HANDLE_REQUEST",
             NEW i \in 1 .. Len(clients'), clients'[i].client_id = ring'[k].client
      PROVE  clients'[i].forward_logs /\ clients'[i].flags # {}
  <2>1. PICK j \in 1 .. Len(ring) : ring'[k] = ring[j]
    OBVIOUS
  <2>2. PICK m \in 1 .. Len(clients) : clients'[i] = clients[m]
    OBVIOUS
  <2>3. ring[j].signal = "CANNOT_HANDLE_REQUEST" /\ m \in find_ipc_client_by_id(ring[j].client)
    BY <1>1, <2>1, <2>2 DEF find_ipc_client_by_id
  <2>4. clients[m].forward_logs /\ clients[m].flags # {}
    BY <2>3 DEF RefusalOK, RefusalMeetsRequester
  <2> QED
    BY <2>2, <2>4
<1> QED
  BY <1>1 DEF RefusalOK, RefusalMeetsRequester, find_ipc_client_by_id

(* Nor does an event that is no request from a client.                        *)
LEMMA NoRefusalEvent ==
    ASSUME MachineOK, NoRefusal, NEW e, e \notin SshRequests, apply_event(e, INVALID_IPC_CLIENT)
    PROVE  NoRefusal'
<1>1. MachineTyped /\ INVALID_IPC_CLIENT \in 0 .. IdSpace - 1
  BY DEF MachineOK, MachineTyped, INVALID_IPC_CLIENT
<1>2. /\ MachineTyped'
      /\ \A k \in 1 .. Len(ring) : ring'[k] = ring[k]
      /\ ~Sends("CANNOT_HANDLE_REQUEST")
  BY <1>1, ApplyEffect
<1>3. Len(ring) \in Nat /\ Len(ring') \in Nat
  BY <1>1, <1>2, LenProperties DEF MachineTyped
<1>4. \A k \in 1 .. Len(ring') : k \in 1 .. Len(ring) \/ k > Len(ring)
  BY <1>3
<1> QED
  BY <1>2, <1>4 DEF Sends, New, NoRefusal

(* A removal leaves entries that were there.                                  *)
LEMMA RemovalKeeps ==
    ASSUME NEW out, Removal(out)
    PROVE  \A k \in 1 .. Len(clients') : \E j \in 1 .. Len(clients) : clients'[k] = clients[j]
BY DEF Removal, Picks

(* A refusal that a request meets is for the client that sent it.             *)
LEMMA RefusalRequest ==
    ASSUME TableOK, MachineOK, LoopOK, RefusalOK, ClientRequest
    PROVE  RefusalOK'
<1> DEFINE c == clients[slot].client_id
<1>1. slot \in 1 .. Len(clients) /\ clients[slot] \in Entry /\ pc = "serve" /\ index > 2
      /\ index \in Nat
  BY ServedClient DEF ClientRequest, LoopOK
<1>2. pc' = "serve" /\ index' > 2 /\ apply_event(EventOf(message), c)
  BY <1>1 DEF ClientRequest, Advance
<1>3. c \in 0 .. IdSpace - 1
  BY <1>1 DEF Entry, Ids
<1>4. /\ \A k \in 1 .. Len(clients) : clients'[k].client_id = clients[k].client_id
      /\ \A k \in 1 .. Len(clients) : k # slot => clients'[k] = clients[k]
      /\ Len(clients') = Len(clients)
      /\ clients'[slot].flags # {} /\ clients'[slot].forward_logs
  <2>1. clients'[slot].flags = clients[slot].flags \cup FlagsOf(message)
    BY ClientRequestEffect
  <2>2. FlagsOf(message) # {}
    BY DEF FlagsOf
  <2> QED
    BY <2>1, <2>2, ClientRequestEffect
<1>5. /\ MachineTyped'
      /\ \A k \in 1 .. Len(ring) : ring'[k] = ring[k]
      /\ \A k \in New : ring'[k].client = c
  <2> HIDE DEF EventOf, c
  <2> QED
    BY <1>2, <1>3, ApplyEffect DEF MachineOK, MachineTyped
<1>6. Len(ring) \in Nat /\ Len(ring') \in Nat
  BY <1>5, LenProperties DEF MachineOK, MachineTyped
<1>7. ASSUME NEW k \in 1 .. Len(ring'), ring'[k].signal = "CANNOT_HANDLE_REQUEST",
             NEW i \in 1 .. Len(clients), clients'[i].client_id = ring'[k].client
      PROVE  clients'[i].forward_logs /\ clients'[i].flags # {}
  <2>1. CASE i = slot
    BY <1>4, <2>1
  <2>2. CASE i # slot
    <3>1. clients'[i] = clients[i] /\ clients[i].client_id # c
      BY <1>1, <1>4, <2>2 DEF TableOK, IdsUnique
    <3>2. k \in 1 .. Len(ring)
      BY <1>5, <1>6, <1>7, <3>1 DEF New
    <3>3. ring'[k] = ring[k]
      BY <1>5, <3>2
    <3> QED
      BY <1>7, <3>1, <3>2, <3>3 DEF RefusalOK, RefusalMeetsRequester, find_ipc_client_by_id
  <2> QED
    BY <2>1, <2>2
<1> QED
  BY <1>2, <1>4, <1>7 DEF RefusalOK, RefusalMeetsRequester, find_ipc_client_by_id

(* All steps.                                                                 *)
LEMMA RefusalStep ==
    ASSUME TableOK, MachineOK, LoopOK, PeersOK, RefusalOK, [Next]_vars
    PROVE  RefusalOK'
<1>1. ASSUME UNCHANGED <<ring, clients, pc, index>> PROVE RefusalOK'
  BY <1>1 DEF RefusalOK, RefusalMeetsRequester, find_ipc_client_by_id
<1>2. ASSUME Dies("crashed") \/ Dies("exited") PROVE RefusalOK'
  <2>1. ring' = <<>>
    BY <1>2 DEF Dies
  <2> QED
    BY <2>1, NoRefusalOK DEF NoRefusal
<1>3. ASSUME NoRefusal, UNCHANGED ring PROVE RefusalOK'
  BY <1>3, NoRefusalOK DEF NoRefusal
<1>4. CASE HandleSignal
  <2>1. CASE ~Dies("crashed")
    <3>1. /\ ring # <<>> /\ ring' = Tail(ring) /\ pc' = "drain"
          /\ UNCHANGED clients \/ \E out : Removal(out)
      BY <1>4, <2>1, Handled, HandledRemoves DEF HandleSignal
    <3>2. /\ Len(ring) \in Nat /\ Len(ring') = Len(ring) - 1
          /\ \A k \in 1 .. Len(ring) - 1 : ring'[k] = ring[k + 1]
      BY <3>1, HeadTailProperties, LenProperties, EmptySeq DEF MachineOK
    <3>3. \A k \in 1 .. Len(ring') : \E j \in 1 .. Len(ring) : ring'[k] = ring[j]
      <4>1. \A k \in 1 .. Len(ring') : k + 1 \in 1 .. Len(ring) /\ ring'[k] = ring[k + 1]
        BY <3>2
      <4> QED
        BY <4>1
    <3> QED
      BY <3>1, <3>3, RemovalKeeps, RefusalKept
  <2> QED
    BY <1>2, <2>1
<1>5. CASE Drained
  BY <1>5, NoRefusalOK DEF Drained, NoRefusal
<1>6. CASE MqttEvent
  <2>1. pc # "drain" /\ (pc = "serve" => index \in {0, 1, 2})
    BY <1>6 DEF MqttEvent, Syncing
  <2>2. \A e \in MqttEvents : e \notin SshRequests
    BY DEF DoorEvents, Buttons, SshRequests
  <2> QED
    BY <1>6, <2>1, <2>2, NoneElsewhere, NoRefusalEvent, NoRefusalOK DEF MqttEvent
<1>7. CASE ServeTimer
  <2>1. pc # "drain" /\ (pc = "serve" => index \in {0, 1, 2}) /\ "TIMEOUT" \notin SshRequests
    BY <1>7 DEF ServeTimer, SshRequests
  <2>2. CASE "timer" \in ready
    <3>1. apply_event("TIMEOUT", INVALID_IPC_CLIENT)
      BY <1>7, <2>2 DEF ServeTimer
    <3> QED
      BY <2>1, <3>1, NoneElsewhere, NoRefusalEvent, NoRefusalOK
  <2>3. CASE "timer" \notin ready
    BY <1>3, <1>7, <2>1, <2>3, NoneElsewhere DEF ServeTimer
  <2> QED
    BY <2>2, <2>3
<1>8. CASE Poll \/ ServeIpc \/ ServeMqtt
  <2>1. pc # "drain" /\ (pc = "serve" => index \in {0, 1, 2}) /\ UNCHANGED ring
    BY <1>8 DEF Poll, ServeIpc, ServeMqtt
  <2> QED
    BY <1>3, <2>1, NoneElsewhere
<1>9. CASE SyncDone
  <2>1. CASE ~Dies("crashed")
    <3>1. pc # "drain" /\ (pc = "serve" => index \in {0, 1, 2}) /\ UNCHANGED ring
      BY <1>9, <2>1 DEF SyncDone
    <3> QED
      BY <1>3, <3>1, NoneElsewhere
  <2> QED
    BY <1>2, <2>1
<1>10. CASE ClientEof \/ ClientAnswered
  <2>1. ServingClient /\ remove_ipc_client(slot) /\ UNCHANGED ring /\ Advance("client")
    BY <1>10 DEF ClientEof, ClientAnswered
  <2>2. Removal({slot}) /\ pc = "serve" /\ index > 2
    BY <2>1, ServedClient, RemoveOne
  <2>3. pc' = "serve" /\ index' > 2
    BY <2>1, <2>2 DEF Advance, LoopOK
  <2> QED
    BY <2>1, <2>2, <2>3, RemovalKeeps, RefusalKept
<1>11. CASE ClientRequest
  BY <1>11, RefusalRequest
<1>12. CASE NextClient
  <2>1. UNCHANGED <<ring, clients>> /\ (pc' = "drain" \/ (pc' = "serve" /\ index' > 2))
    BY <1>12 DEF NextClient, Advance, LoopOK
  <2> QED
    BY <2>1, RefusalKept
<1>13. CASE MqttNotice \/ ApiStatusFails \/ ServeIpcCrash \/ ServeMqttEnds \/ ClientCrash
            \/ SlowRound \/ Stop \/ PollInterrupted
  BY <1>2, <1>13 DEF MqttNotice, ApiStatusFails, ServeIpcCrash, ServeMqttEnds, ClientCrash,
                     SlowRound, Stop, PollInterrupted
<1>14. CASE SigTerm \/ Restart
  BY <1>1, <1>14 DEF SigTerm, Restart, loopVars
<1>15. CASE (\E p \in Peers : PeerConnects(p) \/ PeerLeaves(p)) \/ TimerExpires \/ LinkDrops
  BY <1>1, <1>15 DEF PeerConnects, PeerLeaves, TimerExpires, LinkDrops, OutsideDaemon, loopVars
<1>16. CASE UNCHANGED vars
  BY <1>1, <1>16 DEF vars, loopVars
<1> QED
  BY <1>4, <1>5, <1>6, <1>7, <1>8, <1>9, <1>10, <1>11, <1>12, <1>13, <1>14, <1>15, <1>16
     DEF Next, Daemon
-----------------------------------------------------------------------------
(* Waiting clients.                                                           *)

(* The queued signal q disconnects the client with entry e, or is the notice  *)
(* that makes it one of those that are let down.                              *)
Brings(q, e) ==
    \/ q.signal = "LOCK_SUCCESSFUL" /\ "LOCKED" \in e.flags
    \/ /\ q.signal \in {"OPEN_SUCCESSFUL", "CHANGE_KEYHOLDER", "UNLOCK_TIMEOUT"}
       /\ "OPEN" \in e.flags
    \/ q.signal = "NO_STATE_CHANGE" /\ "NO_CHANGE" \in e.flags
    \/ q.signal = "USER_REQUESTED_TIMED_OUT" /\ "ERROR" \in e.flags
    \/ q.signal = "CANNOT_HANDLE_REQUEST" /\ q.client = e.client_id

(* The client with entry e has an answer in sight, when those in U were let   *)
(* down, the machine is in state s and the signals in R are queued.           *)
Answered(e, U, s, R) ==
    \/ e.peer \in U
    \/ s = "WAIT_FOR_LOCKED" /\ "LOCKED" \in e.flags
    \/ is_state_wait_for_open(s) /\ "OPEN" \in e.flags
    \/ \E k \in 1 .. Len(R) : Brings(R[k], e)

(* WaitersOK in these words, before                                           *)
LEMMA WaitersBefore ==
    WaitersOK <=>
      /\ \A i \in 1 .. Len(clients) : clients[i].flags # {} => "ERROR" \in clients[i].flags
      /\ ~lost => \A i \in 1 .. Len(clients) : clients[i].flags # {} =>
                     Answered(clients[i], unentered, sm.state, ring)
BY DEF WaitersOK, WaitersHaveAnswer, Answered, Brings

(* and after a step.                                                          *)
LEMMA WaitersAfter ==
    ASSUME \A i \in 1 .. Len(clients') :
              clients'[i].flags # {} => "ERROR" \in clients'[i].flags,
           ~lost' => \A i \in 1 .. Len(clients') : clients'[i].flags # {} =>
                        Answered(clients'[i], unentered', sm'.state, ring')
    PROVE  WaitersOK'
BY DEF WaitersOK, WaitersHaveAnswer, Answered, Brings

(* An answer stays in sight when the signals that bring it stay queued.       *)
LEMMA AnswerKept ==
    ASSUME NEW e, NEW f, NEW U, NEW V, NEW s, NEW R, NEW Q, Answered(e, U, s, R),
           f.client_id = e.client_id, f.peer = e.peer, f.flags = e.flags,
           e.peer \in U => e.peer \in V,
           \A k \in 1 .. Len(R) : Brings(R[k], e) => \E j \in 1 .. Len(Q) : Q[j] = R[k]
    PROVE  Answered(f, V, s, Q)
<1>1. CASE \E k \in 1 .. Len(R) : Brings(R[k], e)
  <2>1. PICK k \in 1 .. Len(R) : Brings(R[k], e)
    BY <1>1
  <2>2. PICK j \in 1 .. Len(Q) : Q[j] = R[k]
    BY <2>1
  <2>3. Brings(Q[j], f)
    BY <2>1, <2>2 DEF Brings
  <2> QED
    BY <2>3 DEF Answered
<1>2. CASE ~\E k \in 1 .. Len(R) : Brings(R[k], e)
  BY <1>2 DEF Answered
<1> QED
  BY <1>1, <1>2

(* When clients are removed, those who stay were not let down less.           *)
LEMMA RemovalStays ==
    ASSUME TableOK, PeersOK, NEW out, Removal(out), NEW k \in 1 .. Len(clients')
    PROVE  \E j \in (1 .. Len(clients)) \ out :
              /\ clients'[k] = clients[j]
              /\ clients[j].peer \in unentered => clients[j].peer \in unentered'
<1>1. PICK h : Picks(h, clients', clients) /\ \A m \in 1 .. Len(clients') : h[m] \notin out
  BY DEF Removal
<1>2. h[k] \in (1 .. Len(clients)) \ out /\ clients'[k] = clients[h[k]]
  BY <1>1 DEF Picks
<1>3. \A i \in out : clients[i].peer # clients[h[k]].peer
  BY <1>2 DEF PeersOK, Removal
<1> QED
  BY <1>2, <1>3 DEF Removal

(* A removal with nothing else.                                               *)
LEMMA WaitersRemoval ==
    ASSUME TableOK, PeersOK, WaitersOK, NEW out, Removal(out), UNCHANGED <<sm, ring, lost>>
    PROVE  WaitersOK'
<1>1. \A k \in 1 .. Len(clients') : clients'[k].flags # {} => "ERROR" \in clients'[k].flags
  BY RemovalStays, WaitersBefore
<1>2. ASSUME ~lost', NEW k \in 1 .. Len(clients'), clients'[k].flags # {}
      PROVE  Answered(clients'[k], unentered', sm'.state, ring')
  <2>1. PICK j \in 1 .. Len(clients) :
              /\ clients'[k] = clients[j]
              /\ clients[j].peer \in unentered => clients[j].peer \in unentered'
    BY RemovalStays
  <2>2. Answered(clients[j], unentered, sm.state, ring)
    BY <1>2, <2>1, WaitersBefore
  <2> QED
    BY <2>1, <2>2, AnswerKept
<1> QED
  BY <1>1, <1>2, WaitersAfter

(* So does one that the head of the queue does not bring.                     *)
LEMMA AnswerAfterHead ==
    ASSUME NEW E, NEW R \in Seq(E), R # <<>>, NEW e, NEW U, NEW V, NEW s,
           Answered(e, U, s, R), e.peer \in U => e.peer \in V, ~Brings(Head(R), e)
    PROVE  Answered(e, V, s, Tail(R))
<1>1. /\ Len(R) \in Nat /\ Len(R) > 0 /\ Len(Tail(R)) = Len(R) - 1 /\ Head(R) = R[1]
      /\ \A k \in 1 .. Len(R) - 1 : Tail(R)[k] = R[k + 1]
  BY HeadTailProperties, LenProperties, EmptySeq
<1>2. CASE \E k \in 1 .. Len(R) : Brings(R[k], e)
  <2>1. PICK k \in 1 .. Len(R) : Brings(R[k], e)
    BY <1>2
  <2>2. k # 1
    BY <1>1, <2>1
  <2>3. k - 1 \in 1 .. Len(Tail(R)) /\ Tail(R)[k - 1] = R[k]
    BY <1>1, <2>2
  <2> QED
    BY <2>1, <2>3 DEF Answered
<1>3. CASE ~\E k \in 1 .. Len(R) : Brings(R[k], e)
  BY <1>3 DEF Answered
<1> QED
  BY <1>2, <1>3

(* No client, when the head of the ring is gone, has lost an answer by that.  *)
LEMMA WaitersPop ==
    ASSUME MachineOK, WaitersOK, ring # <<>>, ring' = Tail(ring), UNCHANGED <<sm, lost>>,
           \A k \in 1 .. Len(clients') : \E j \in 1 .. Len(clients) :
              /\ clients'[k] = clients[j]
              /\ clients[j].peer \in unentered => clients[j].peer \in unentered'
              /\ Brings(Head(ring), clients[j]) => clients[j].peer \in unentered'
    PROVE  WaitersOK'
<1>1. ring \in Seq(Queued)
  BY DEF MachineOK
<1>2. \A k \in 1 .. Len(clients') : clients'[k].flags # {} => "ERROR" \in clients'[k].flags
  BY WaitersBefore
<1>3. ASSUME ~lost', NEW k \in 1 .. Len(clients'), clients'[k].flags # {}
      PROVE  Answered(clients'[k], unentered', sm'.state, ring')
  <2>1. PICK j \in 1 .. Len(clients) :
              /\ clients'[k] = clients[j]
              /\ clients[j].peer \in unentered => clients[j].peer \in unentered'
              /\ Brings(Head(ring), clients[j]) => clients[j].peer \in unentered'
    OBVIOUS
  <2>2. Answered(clients[j], unentered, sm.state, ring)
    BY <1>3, <2>1, WaitersBefore
  <2>3. CASE Brings(Head(ring), clients[j])
    BY <2>1, <2>3 DEF Answered
  <2>4. CASE ~Brings(Head(ring), clients[j])
    <3>1. Answered(clients[j], unentered', sm.state, Tail(ring))
      BY <1>1, <2>1, <2>2, <2>4, AnswerAfterHead
    <3> QED
      BY <2>1, <3>1
  <2> QED
    BY <2>3, <2>4
<1> QED
  BY <1>2, <1>3, WaitersAfter

(* Handling a signal answers exactly those it is the answer for.              *)
LEMMA WaitersHandled ==
    ASSUME TableOK, MachineOK, PeersOK, WaitersOK, HandleSignal, ~Dies("crashed")
    PROVE  WaitersOK'
<1> DEFINE s == Head(ring)
<1>1. /\ ring # <<>> /\ ring' = Tail(ring) /\ UNCHANGED <<sm, lost>> /\ SignalEffect(s)
  BY Handled
<1> HIDE DEF s
<1>2. CASE /\ s.signal \notin DOMAIN DisconnectFlag
           /\ s.signal = "CANNOT_HANDLE_REQUEST" => find_ipc_client_by_id(s.client) = {}
           /\ UNCHANGED <<clients, peers>>
           /\ IF s.signal = "UNLOCK_TIMEOUT"
              THEN unentered' = unentered \cup {clients[i].peer :
                      i \in {j \in 1 .. Len(clients) : "OPEN" \in clients[j].flags}}
              ELSE UNCHANGED unentered
  <2>1. \A j \in 1 .. Len(clients) : Brings(s, clients[j]) => clients[j].peer \in unentered'
    BY <1>2, OutcomeSignals DEF Brings, find_ipc_client_by_id
  <2>2. \A j \in 1 .. Len(clients) : clients[j].peer \in unentered => clients[j].peer \in unentered'
    BY <1>2
  <2> QED
    BY <1>1, <1>2, <2>1, <2>2, WaitersPop DEF s
<1>3. CASE /\ s.signal \in DOMAIN DisconnectFlag
           /\ remove_all_ipc_clients(DisconnectFlag[s.signal])
  <2> DEFINE flag == DisconnectFlag[s.signal]
             out  == {i \in 1 .. Len(clients) : flag \in clients[i].flags}
  <2>1. Removal(out)
    BY <1>3, RemoveFlagged
  <2>2. \A j \in (1 .. Len(clients)) \ out : ~Brings(s, clients[j])
    BY <1>3, OutcomeSignals DEF Brings
  <2> HIDE DEF out
  <2>3. ASSUME NEW k \in 1 .. Len(clients')
        PROVE  \E j \in 1 .. Len(clients) :
                 /\ clients'[k] = clients[j]
                 /\ clients[j].peer \in unentered => clients[j].peer \in unentered'
                 /\ ~Brings(s, clients[j])
    BY <2>1, <2>2, RemovalStays
  <2> QED
    BY <1>1, <2>3, WaitersPop DEF s
<1>4. CASE /\ s.signal = "CANNOT_HANDLE_REQUEST"
           /\ \E i \in find_ipc_client_by_id(s.client) : remove_ipc_client(i)
  <2>1. PICK i \in find_ipc_client_by_id(s.client) : remove_ipc_client(i)
    BY <1>4
  <2>2. i \in 1 .. Len(clients) /\ clients[i].client_id = s.client /\ Removal({i})
    BY <2>1, RemoveOne DEF find_ipc_client_by_id
  <2>3. \A j \in (1 .. Len(clients)) \ {i} : ~Brings(s, clients[j])
    BY <1>4, <2>2 DEF Brings, TableOK, IdsUnique
  <2>4. ASSUME NEW k \in 1 .. Len(clients')
        PROVE  \E j \in 1 .. Len(clients) :
                 /\ clients'[k] = clients[j]
                 /\ clients[j].peer \in unentered => clients[j].peer \in unentered'
                 /\ ~Brings(s, clients[j])
    BY <2>2, <2>3, RemovalStays
  <2> QED
    BY <1>1, <2>4, WaitersPop DEF s
<1> QED
  BY <1>1, <1>2, <1>3, <1>4 DEF SignalEffect

(* An event leaves an answer in sight, or queues one.                         *)
LEMMA EventAnswers ==
    ASSUME MachineTyped, NEW e, NEW c \in 0 .. IdSpace - 1, apply_event(e, c), ~lost',
           NEW w, NEW U, "ERROR" \in w.flags, Answered(w, U, sm.state, ring)
    PROVE  Answered(w, U, sm'.state, ring')
<1>1. /\ Len(ring') >= Len(ring)
      /\ \A k \in 1 .. Len(ring) : ring'[k] = ring[k]
      /\ sm.state = "WAIT_FOR_LOCKED" =>
                     \/ sm'.state = "WAIT_FOR_LOCKED"
                     \/ Sends("LOCK_SUCCESSFUL") \/ Sends("USER_REQUESTED_TIMED_OUT")
      /\ is_state_wait_for_open(sm.state) =>
                     \/ is_state_wait_for_open(sm'.state)
                     \/ Sends("OPEN_SUCCESSFUL") \/ Sends("USER_REQUESTED_TIMED_OUT")
                     \/ Sends("UNLOCK_TIMEOUT")
      /\ MachineTyped'
  BY ApplyEffect
<1>2. Len(ring) \in Nat /\ Len(ring') \in Nat
  BY <1>1, LenProperties DEF MachineTyped
<1>3. \A k \in 1 .. Len(ring) : k \in 1 .. Len(ring')
  BY <1>1, <1>2
<1>4. CASE w.peer \in U
  BY <1>4 DEF Answered
<1>5. CASE sm.state = "WAIT_FOR_LOCKED" /\ "LOCKED" \in w.flags
  BY <1>1, <1>5 DEF Answered, Brings, Sends, New
<1>6. CASE is_state_wait_for_open(sm.state) /\ "OPEN" \in w.flags
  BY <1>1, <1>6 DEF Answered, Brings, Sends, New
<1>7. CASE \E k \in 1 .. Len(ring) : Brings(ring[k], w)
  BY <1>1, <1>3, <1>7 DEF Answered
<1> QED
  BY <1>4, <1>5, <1>6, <1>7 DEF Answered

(* An event that is no request.                                               *)
LEMMA WaitersEvent ==
    ASSUME MachineOK, WaitersOK, NEW e, apply_event(e, INVALID_IPC_CLIENT),
           UNCHANGED <<clients, unentered>>
    PROVE  WaitersOK'
<1>1. MachineTyped /\ INVALID_IPC_CLIENT \in 0 .. IdSpace - 1
  BY DEF MachineOK, MachineTyped, INVALID_IPC_CLIENT
<1>2. ~lost' => ~lost
  BY <1>1, ApplyEffect
<1>3. ASSUME ~lost', NEW i \in 1 .. Len(clients), clients[i].flags # {}
      PROVE  Answered(clients[i], unentered, sm'.state, ring')
  <2>1. "ERROR" \in clients[i].flags /\ Answered(clients[i], unentered, sm.state, ring)
    BY <1>2, <1>3, WaitersBefore
  <2> QED
    BY <1>1, <1>3, <2>1, EventAnswers
<1> QED
  BY <1>3, WaitersBefore, WaitersAfter

(* A request: the operation it starts, or the signal it causes, is for it.    *)
LEMMA WaitersRequest ==
    ASSUME TableOK, MachineOK, LoopOK, WaitersOK, ClientRequest
    PROVE  WaitersOK'
<1> DEFINE c == clients[slot].client_id
           e == EventOf(message)
           w == clients'[slot]
<1>1. MachineTyped /\ slot \in 1 .. Len(clients) /\ c \in 0 .. IdSpace - 1
  BY ServedClient DEF MachineOK, MachineTyped, ClientRequest, Entry, Ids
<1>2. apply_event(e, c) /\ message \in OpenMessages \cup {"CLOSE"} /\ UNCHANGED unentered
  BY DEF ClientRequest
<1>3. /\ Len(clients') = Len(clients)
      /\ \A k \in 1 .. Len(clients) : k # slot => clients'[k] = clients[k]
      /\ w.client_id = c
      /\ w.flags = clients[slot].flags \cup FlagsOf(message)
  BY <1>1, ClientRequestEffect
<1>4. \/ is_open_request(e) /\ {"OPEN", "NO_CHANGE", "ERROR"} \subseteq w.flags
      \/ e = "SSH_CLOSE_REQUEST" /\ {"LOCKED", "NO_CHANGE", "ERROR"} \subseteq w.flags
  <2>1. CASE message = "CLOSE"
    BY <1>3, <2>1 DEF EventOf, FlagsOf
  <2>2. CASE message \in OpenMessages
    <3>1. is_open_request(e) /\ message # "CLOSE"
      BY <2>2 DEF OpenMessages, EventOf, is_open_request
    <3>2. FlagsOf(message) = {"OPEN", "NO_CHANGE", "ERROR"}
      BY <3>1 DEF FlagsOf
    <3> QED
      BY <1>3, <3>1, <3>2
  <2> QED
    BY <1>2, <2>1, <2>2
<1> HIDE DEF c, e, w
<1>5. /\ \A k \in New : ring'[k].client = c
      /\ ~lost' =>
           /\ ~lost
           /\ is_open_request(e) =>
                     \/ is_state_wait_for_open(sm'.state)
                     \/ Sends("CHANGE_KEYHOLDER") \/ Sends("CANNOT_HANDLE_REQUEST")
           /\ e = "SSH_CLOSE_REQUEST" =>
                     \/ sm'.state = "WAIT_FOR_LOCKED"
                     \/ Sends("NO_STATE_CHANGE") \/ Sends("CANNOT_HANDLE_REQUEST")
  BY <1>1, <1>2, ApplyEffect
<1>6. ASSUME ~lost' PROVE Answered(w, unentered', sm'.state, ring')
  <2>1. CASE is_open_request(e) /\ "OPEN" \in w.flags
    BY <1>3, <1>5, <1>6, <2>1 DEF Answered, Brings, Sends, New
  <2>2. CASE e = "SSH_CLOSE_REQUEST" /\ "LOCKED" \in w.flags /\ "NO_CHANGE" \in w.flags
    BY <1>3, <1>5, <1>6, <2>2 DEF Answered, Brings, Sends, New
  <2> QED
    BY <1>4, <2>1, <2>2
<1>7. ASSUME ~lost', NEW i \in 1 .. Len(clients), i # slot, clients[i].flags # {}
      PROVE  Answered(clients[i], unentered, sm'.state, ring')
  <2>1. "ERROR" \in clients[i].flags /\ Answered(clients[i], unentered, sm.state, ring)
    BY <1>5, <1>7, WaitersBefore
  <2> QED
    BY <1>1, <1>2, <1>7, <2>1, EventAnswers
<1>8. \A i \in 1 .. Len(clients') : clients'[i].flags # {} => "ERROR" \in clients'[i].flags
  BY <1>3, <1>4, WaitersBefore DEF w
<1>9. ~lost' => \A i \in 1 .. Len(clients') : clients'[i].flags # {} =>
                   Answered(clients'[i], unentered', sm'.state, ring')
  BY <1>2, <1>3, <1>6, <1>7 DEF w
<1> QED
  BY <1>8, <1>9, WaitersAfter
(* All steps.                                                                 *)
LEMMA WaitersStep ==
    ASSUME TableOK, MachineOK, LoopOK, PeersOK, WaitersOK, [Next]_vars
    PROVE  WaitersOK'
<1>1. ASSUME UNCHANGED <<clients, sm, ring, lost, unentered>> PROVE WaitersOK'
  BY <1>1 DEF WaitersOK, WaitersHaveAnswer
<1>2. ASSUME Dies("crashed") \/ Dies("exited") PROVE WaitersOK'
  <2>1. clients' = <<>>
    BY <1>2 DEF Dies
  <2> QED
    BY <2>1 DEF WaitersOK, WaitersHaveAnswer
<1>3. CASE HandleSignal
  BY <1>2, <1>3, WaitersHandled
<1>4. CASE MqttEvent
  BY <1>4, WaitersEvent DEF MqttEvent
<1>5. CASE ServeTimer
  BY <1>1, <1>5, WaitersEvent DEF ServeTimer
<1>6. CASE ClientRequest
  BY <1>6, WaitersRequest
<1>7. CASE Poll
  <2>1. /\ Len(clients') = Len(clients)
        /\ \A k \in 1 .. Len(clients) :
                 /\ clients'[k].client_id = clients[k].client_id
                 /\ clients'[k].peer = clients[k].peer
                 /\ clients'[k].flags = clients[k].flags
        /\ UNCHANGED <<sm, ring, lost, unentered>>
    BY <1>7, PollEffect DEF Poll
  <2>2. ASSUME ~lost', NEW k \in 1 .. Len(clients), clients'[k].flags # {}
        PROVE  Answered(clients'[k], unentered', sm'.state, ring')
    <3>1. Answered(clients[k], unentered, sm.state, ring)
      BY <2>1, <2>2, WaitersBefore
    <3> QED
      BY <2>1, <3>1, AnswerKept
  <2> QED
    BY <2>1, <2>2, WaitersBefore, WaitersAfter
<1>8. CASE ServeIpc
  <2>1. UNCHANGED <<sm, ring, lost, unentered>>
    BY <1>8 DEF ServeIpc
  <2>2. CASE UNCHANGED clients
    BY <1>1, <2>1, <2>2
  <2>3. CASE add_ipc_client(NewEntry) /\ NewEntry \in Entry
    <3> DEFINE m == Len(clients)
    <3>1. m \in Nat /\ clients \in Seq(Entry) /\ NewEntry.flags = {}
      BY LenProperties DEF TableOK, NewEntry
    <3>2. /\ Len(clients') = m + 1 /\ \A k \in 1 .. m : clients'[k] = clients[k]
          /\ clients'[m + 1] = NewEntry
          /\ \A k \in 1 .. m + 1 : k \in 1 .. m \/ k = m + 1
      BY <2>3, <3>1, AppendProperties DEF add_ipc_client
    <3> HIDE DEF m
    <3>3. \A k \in 1 .. Len(clients') : clients'[k].flags # {} =>
             k \in 1 .. Len(clients) /\ clients'[k] = clients[k]
      BY <3>1, <3>2 DEF m
    <3> QED
      BY <2>1, <3>3, WaitersBefore, WaitersAfter
  <2> QED
    BY <1>8, <2>2, <2>3, ServeIpcEffect
<1>9. CASE ClientEof \/ ClientAnswered
  <2>1. ServingClient /\ remove_ipc_client(slot) /\ UNCHANGED <<sm, ring, lost>>
    BY <1>9 DEF ClientEof, ClientAnswered
  <2>2. Removal({slot})
    BY <2>1, ServedClient, RemoveOne
  <2> QED
    BY <2>1, <2>2, WaitersRemoval
<1>10. CASE SyncDone
  BY <1>1, <1>2, <1>10 DEF SyncDone
<1>11. CASE MqttNotice \/ ApiStatusFails \/ ServeIpcCrash \/ ServeMqttEnds \/ ClientCrash
            \/ SlowRound \/ Stop \/ PollInterrupted
  BY <1>2, <1>11 DEF MqttNotice, ApiStatusFails, ServeIpcCrash, ServeMqttEnds, ClientCrash,
                     SlowRound, Stop, PollInterrupted
<1>12. CASE Drained \/ ServeMqtt \/ NextClient \/ SigTerm \/ Restart
  BY <1>1, <1>12 DEF Drained, ServeMqtt, NextClient, SigTerm, Restart
<1>13. CASE (\E p \in Peers : PeerConnects(p) \/ PeerLeaves(p)) \/ TimerExpires \/ LinkDrops
  BY <1>1, <1>13 DEF PeerConnects, PeerLeaves, TimerExpires, LinkDrops, OutsideDaemon
<1>14. CASE UNCHANGED vars
  BY <1>1, <1>14 DEF vars
<1> QED
  BY <1>3, <1>4, <1>5, <1>6, <1>7, <1>8, <1>9, <1>10, <1>11, <1>12, <1>13, <1>14
     DEF Next, Daemon
-----------------------------------------------------------------------------
(* The theorems.                                                              *)

(* The daemon starts in order.                                                *)
LEMMA InitOK == Init => DaemonInv
<1> SUFFICES ASSUME Init PROVE DaemonInv
  OBVIOUS
<1>1. clients = <<>> /\ next_ipc_client_id = 0 /\ ring = <<>> /\ backlog = <<>>
  BY DEF Init, TableInit
<1>2. TableOK
  <2>1. clients \in Seq(Entry) /\ Len(clients) = 0 /\ 0 \in Ids
    BY <1>1 DEF Ids
  <2> QED
    BY <1>1, <2>1 DEF TableOK, IdsUnique, UsedIds
<1>3. MachineOK
  <2>1. sm \in Machines /\ sm.state = "IDLE"
    BY DEF Init, sm_init, Machines, States, DoorValues, ShackValues
  <2>2. ring \in Seq(Queued) /\ Len(ring) <= RingSize
    BY <1>1
  <2>3. sm_timer = "off" /\ up = "up"
    BY DEF Init
  <2>4. lost \in BOOLEAN
    BY DEF Init
  <2>5. OperationTimed
    BY <2>1 DEF OperationTimed
  <2> QED
    BY <2>1, <2>2, <2>3, <2>4, <2>5 DEF MachineOK
<1>4. LoopOK
  <2>1. pc = "drain" /\ index = 0 /\ ready = {} /\ batch = 0 /\ sent = {}
    BY DEF Init
  <2>2. StartConnection(connected, mqtt_fd, link, 0, drops)
    BY DEF Init
  <2>3. connected \in BOOLEAN
    BY <2>2 DEF StartConnection
  <2>4. mqtt_fd \in {"socket", "timer", "closed"} /\ link \in {"ok", "closed", "broken"}
    BY <2>2 DEF StartConnection
  <2>5. drops \in 0 .. MaxDrops
    BY <2>2 DEF StartConnection
  <2>6. shutdown_requested \in BOOLEAN
    BY DEF Init
  <2>7. ConnectionPolled
    BY <2>2 DEF StartConnection, ConnectionPolled
  <2> QED
    BY <2>1, <2>3, <2>4, <2>5, <2>6, <2>7 DEF LoopOK
<1>5. PeersOK
  <2>1. peers = [p \in Peers |-> [at |-> "out", msg |-> "none"]] /\ unentered = {}
        /\ pc = "drain"
    BY DEF Init
  <2>2. Len(clients) = 0 /\ Len(backlog) = 0 /\ backlog \in Seq(Peers)
    BY <1>1
  <2> QED
    BY <2>1, <2>2 DEF PeersOK
<1>6. RefusalOK /\ WaitersOK
  <2>1. Len(clients) = 0 /\ Len(ring) = 0
    BY <1>1
  <2> QED
    BY <2>1 DEF RefusalOK, RefusalMeetsRequester, WaitersOK, WaitersHaveAnswer
<1> QED
  BY <1>2, <1>3, <1>4, <1>5, <1>6 DEF DaemonInv

(* DaemonInv is inductive: every step of the daemon, of the processes, of the *)
(* broker and of the clock keeps it.                                          *)
THEOREM DaemonInvariant == Spec => []DaemonInv
<1>1. DaemonInv /\ [Next]_vars => DaemonInv'
  BY TableStep, MachineStep, LoopOKStep, PeersStep, RefusalStep, WaitersStep DEF DaemonInv
<1> QED
  BY <1>1, InitOK, PTL DEF Spec

(* Type correctness of the daemon: among others the table and the ring keep   *)
(* within their limits, and the loop never leaves the table.                  *)
THEOREM DaemonTypes == Spec => []TypeOK
<1>1. DaemonInv => TypeOK
  <2> SUFFICES ASSUME DaemonInv PROVE TypeOK
    OBVIOUS
  <2>1. /\ clients \in Seq([client_id: Ids, peer: Peers, flags: SUBSET Flags,
                            forward_logs: BOOLEAN, revents: BOOLEAN])
        /\ ring \in Seq([signal: SmSignals, client: 0 .. IdSpace - 1])
    BY DEF DaemonInv, TableOK, MachineOK, Entry, Queued
  <2>2. connected \in BOOLEAN /\ shutdown_requested \in BOOLEAN /\ lost \in BOOLEAN
    BY DEF DaemonInv, LoopOK, MachineOK
  <2> QED
    BY <2>1, <2>2 DEF DaemonInv, TableOK, MachineOK, LoopOK, PeersOK, TypeOK
<1> QED
  BY <1>1, DaemonInvariant, PTL

(* A process that the daemon waits for has its timeout running or owed,       *)
(* whatever falls into one round of the loop; unless the ring was full.       *)
THEOREM OperationIsTimed == Spec => []OperationTimed
<1>1. DaemonInv => OperationTimed
  BY DEF DaemonInv, MachineOK
<1> QED
  BY <1>1, DaemonInvariant, PTL

(* A queued refusal names the client that asked for it, or nobody: no client  *)
(* that came later can have its id.                                           *)
THEOREM RefusalsMeetRequester == Spec => []RefusalMeetsRequester
<1>1. DaemonInv => RefusalMeetsRequester
  BY DEF DaemonInv, RefusalOK
<1> QED
  BY <1>1, DaemonInvariant, PTL

(* Whoever waits for the outcome of a request has one coming, or was let down *)
(* when a door that opened for nobody was locked again.                       *)
THEOREM WaitersAreAnswered == Spec => []WaitersHaveAnswer
<1>1. DaemonInv => WaitersHaveAnswer
  BY DEF DaemonInv, WaitersOK
<1> QED
  BY <1>1, DaemonInvariant, PTL

(* The poll table agrees with the connection to the broker: one that works is *)
(* polled, without one a timer runs or the daemon exits in the same round,    *)
(* and only a half made one is neither.                                       *)
THEOREM ConnectionsArePolled == Spec => []ConnectionPolled
<1>1. DaemonInv => ConnectionPolled
  BY DEF DaemonInv, LoopOK
<1> QED
  BY <1>1, DaemonInvariant, PTL
-----------------------------------------------------------------------------
(* How long an operation can be.                                              *)

(* The machine, busy in state s, stays there, or waits for the doors to be    *)
(* locked after nobody came in, or is done; and the timeout starts again only *)
(* when it does not stay.                                                     *)
GoesOn(s, o) ==
    /\ \/ o.state = s
       \/ o.state = "IDLE"
       \/ is_state_wait_for_open(s) /\ o.state = "WAIT_FOR_LOCKED"
    /\ o.signals \in Seq(SmSignals)
    /\ Has("START_TIMEOUT", o.signals) => o.state # s

(* An operation has at most two stages, and one timeout for each: neither     *)
(* repeated messages of the doors nor further requests put it off.            *)
OperationMovesOn ==
    [][sm.state # "IDLE" =>
          /\ \/ sm'.state = sm.state
             \/ sm'.state = "IDLE"
             \/ is_state_wait_for_open(sm.state) /\ sm'.state = "WAIT_FOR_LOCKED"
          /\ Sends("START_TIMEOUT") => sm'.state # sm.state]_vars

LEMMA BusyReaction ==
    ASSUME NEW m \in Machines, m.state # "IDLE", NEW e, NEW shack
    PROVE  GoesOn(m.state, Reaction(m, e, shack))
<1> DEFINE s == m.state
           r == Reaction(m, e, shack)
<1> SUFFICES GoesOn(s, r)
  OBVIOUS
<1>1. ASSUME NEW x \in SmSignals \ {"START_TIMEOUT"},
             r = Outcome(s, <<x>>) \/ r = Outcome("IDLE", <<x>>) \/ r = Outcome(s, <<>>)
      PROVE  GoesOn(s, r)
  <2>1. Yields(r, s, {x}) \/ Yields(r, "IDLE", {x}) \/ Yields(r, s, {})
    BY <1>1, YieldsNone, YieldsOne
  <2> HIDE DEF r, s
  <2> QED
    BY <1>1, <2>1 DEF Yields, GoesOn
<1>2. CASE e = "TIMEOUT"
  BY <1>1, <1>2, ReactionCases DEF SmSignals
<1>3. CASE e \in DoorEvents
  <2>0. r = OnDoor(m, e, shack)
    BY <1>3, ReactionCases
  <2>1. CASE is_state_wait_for_open(s)
               /\ r = Outcome("WAIT_FOR_LOCKED", <<"START_TIMEOUT", "UNLOCK_TIMEOUT">>)
    <3>1. Yields(r, "WAIT_FOR_LOCKED", {"START_TIMEOUT", "UNLOCK_TIMEOUT"})
      BY <2>1, YieldsTwo DEF SmSignals
    <3> HIDE DEF r, s
    <3> QED
      BY <2>1, <3>1 DEF Yields, GoesOn, is_state_wait_for_open
  <2>2. CASE r = Outcome(s, <<OtherDoor(e)>>) \/ r = Outcome(s, <<>>)
    <3>1. OtherDoor(e) \in SmSignals \ {"START_TIMEOUT"}
      BY DEF OtherDoor, SmSignals
    <3> QED
      BY <1>1, <2>2, <3>1
  <2>3. CASE r = Outcome("IDLE", <<"CANCEL_TIMEOUT", "OPEN_SUCCESSFUL">>)
    <3>1. Yields(r, "IDLE", {"CANCEL_TIMEOUT", "OPEN_SUCCESSFUL"})
      BY <2>3, YieldsTwo DEF SmSignals
    <3> HIDE DEF r, s
    <3> QED
      BY <3>1 DEF Yields, GoesOn
  <2>4. CASE r = Outcome("IDLE", <<"CANCEL_TIMEOUT", "LOCK_SUCCESSFUL", "OPEN_DOOR_B">>)
    <3>1. {"CANCEL_TIMEOUT", "LOCK_SUCCESSFUL", "OPEN_DOOR_B"} \subseteq SmSignals
      BY DEF SmSignals
    <3>2. Yields(r, "IDLE", {"CANCEL_TIMEOUT", "LOCK_SUCCESSFUL", "OPEN_DOOR_B"})
      BY <2>4, <3>1, YieldsThree
    <3> HIDE DEF r, s
    <3> QED
      BY <3>2 DEF Yields, GoesOn
  <2> QED
    BY <2>0, <2>1, <2>2, <2>3, <2>4, DoorCases
<1>4. CASE e \in Buttons
  <2>1. \/ \E x \in {"OPEN_DOOR_C", "OPEN_DOOR_B"} : r = Outcome(s, <<x>>)
        \/ r = Outcome(s, <<>>)
    BY <1>4, ReactionCases DEF OnButton
  <2>2. {"OPEN_DOOR_C", "OPEN_DOOR_B"} \subseteq SmSignals \ {"START_TIMEOUT"}
    BY DEF SmSignals
  <2> HIDE DEF r, s
  <2> QED
    BY <1>1, <2>1, <2>2
<1>5. CASE e \in SshRequests
  BY <1>1, <1>5, ReactionCases DEF SmSignals
<1>6. CASE e \notin DoorEvents \cup Buttons \cup SshRequests \cup {"TIMEOUT"}
  <2>1. r = Outcome(s, <<"OPEN_DOOR_B">>) \/ r = Outcome(s, <<>>)
    BY <1>6, ReactionCases
  <2> QED
    BY <1>1, <2>1 DEF SmSignals
<1> QED
  BY <1>2, <1>3, <1>4, <1>5, <1>6

(* The same with the ring: what is queued is what was signalled, or the       *)
(* first part of it.                                                          *)
LEMMA BusyEvent ==
    ASSUME MachineTyped, sm.state # "IDLE", NEW e, NEW c \in 0 .. IdSpace - 1,
           apply_event(e, c)
    PROVE  /\ \/ sm'.state = sm.state
              \/ sm'.state = "IDLE"
              \/ is_state_wait_for_open(sm.state) /\ sm'.state = "WAIT_FOR_LOCKED"
           /\ Sends("START_TIMEOUT") => sm'.state # sm.state
<1> DEFINE a     == sm_apply_event(sm, e)
           now   == sm_change_door_state(sm, e)
           shack == sm_get_shack_state(now)
           r     == Reaction(sm, e, shack)
           first == IF shack # sm.last_shack_state THEN <<"STATE_CHANGE">> ELSE <<>>
<1>1. sm' = a.sm /\ push_signals(a.signals, c)
  BY DEF apply_event
<1>2. a.sm.state = r.state /\ a.signals = first \o r.signals
  BY DEF sm_apply_event
<1>3. GoesOn(sm.state, r)
  BY BusyReaction DEF MachineTyped
<1>4. first \in Seq(SmSignals) /\ ~Has("START_TIMEOUT", first)
  <2>1. Yields(Outcome("IDLE", <<"STATE_CHANGE">>), "IDLE", {"STATE_CHANGE"})
    BY YieldsOne DEF SmSignals
  <2>2. Yields(Outcome("IDLE", <<>>), "IDLE", {})
    BY YieldsNone
  <2>3. first = <<"STATE_CHANGE">> \/ first = <<>>
    OBVIOUS
  <2>4. /\ Outcome("IDLE", <<"STATE_CHANGE">>).signals = <<"STATE_CHANGE">>
        /\ Outcome("IDLE", <<>>).signals = <<>>
    BY DEF Outcome
  <2> HIDE DEF first
  <2>5. PICK o : /\ first = o.signals
                 /\ Yields(o, "IDLE", {"STATE_CHANGE"}) \/ Yields(o, "IDLE", {})
    BY <2>1, <2>2, <2>3, <2>4
  <2> QED
    BY <2>5 DEF Yields
<1> HIDE DEF a, now, shack, r, first
<1>5. /\ a.signals \in Seq(SmSignals)
      /\ Has("START_TIMEOUT", a.signals) => Has("START_TIMEOUT", r.signals)
  BY <1>2, <1>3, <1>4, HasConcat, ConcatProperties DEF GoesOn
<1>6. \A k \in 1 .. Len(ring') : k > Len(ring) => Has(ring'[k].signal, a.signals)
  BY <1>1, <1>5, PushEffect DEF MachineTyped
<1>7. Sends("START_TIMEOUT") => Has("START_TIMEOUT", r.signals)
  BY <1>5, <1>6 DEF Sends, New
<1> QED
  BY <1>1, <1>2, <1>3, <1>7 DEF GoesOn
(* An operation of the daemon goes through at most two stages, and its        *)
(* timeout is started at most once for each: with OperationIsTimed, what      *)
(* OperationEnds needs besides the scheduling (state-machine.c,               *)
(* sm_apply_event).                                                           *)
THEOREM OperationsMoveOn == Spec => OperationMovesOn
<1> DEFINE Moves ==
      /\ \/ sm'.state = sm.state
         \/ sm'.state = "IDLE"
         \/ is_state_wait_for_open(sm.state) /\ sm'.state = "WAIT_FOR_LOCKED"
      /\ Sends("START_TIMEOUT") => sm'.state # sm.state
<1>1. DaemonInv /\ [Next]_vars => [sm.state # "IDLE" => Moves]_vars
  <2> SUFFICES ASSUME DaemonInv, Next, sm.state # "IDLE" PROVE Moves
    OBVIOUS
  <2>1. MachineTyped /\ TableOK /\ LoopOK
    BY DEF DaemonInv, MachineOK, MachineTyped
  <2>2. ASSUME UNCHANGED <<sm, ring>> PROVE Moves
    BY <2>2 DEF Sends, New
  <2>3. ASSUME Dies("crashed") \/ Dies("exited") PROVE Moves
    BY <2>3 DEF Dies, sm_init, Sends, New
  <2>4. ASSUME NEW e, NEW c \in 0 .. IdSpace - 1, apply_event(e, c) PROVE Moves
    BY <2>1, <2>4, BusyEvent
  <2> HIDE DEF Moves
  <2>5. INVALID_IPC_CLIENT \in 0 .. IdSpace - 1
    BY DEF INVALID_IPC_CLIENT
  <2>6. CASE HandleSignal
    <3>1. CASE Dies("crashed")
      BY <2>3, <3>1
    <3>2. CASE ring # <<>> /\ ring' = Tail(ring) /\ UNCHANGED sm
      <4>1. Len(ring') = Len(ring) - 1 /\ Len(ring) \in Nat
        BY <2>1, <3>2 DEF MachineTyped
      <4>2. ~Sends("START_TIMEOUT")
        BY <4>1 DEF Sends, New
      <4> QED
        BY <3>2, <4>2 DEF Moves
    <3> QED
      BY <2>6, <3>1, <3>2 DEF HandleSignal
  <2>7. CASE MqttEvent
    BY <2>4, <2>5, <2>7 DEF MqttEvent
  <2>8. CASE ServeTimer
    BY <2>2, <2>4, <2>5, <2>8 DEF ServeTimer
  <2>9. CASE ClientRequest
    <3>1. clients[slot].client_id \in 0 .. IdSpace - 1
      BY <2>1, <2>9, ServedClient DEF ClientRequest, Entry, Ids
    <3>2. apply_event(EventOf(message), clients[slot].client_id)
      BY <2>9 DEF ClientRequest
    <3> HIDE DEF EventOf
    <3> QED
      BY <2>4, <3>1, <3>2
  <2>10. CASE SyncDone
    BY <2>2, <2>3, <2>10 DEF SyncDone
  <2>11. CASE MqttNotice \/ ApiStatusFails \/ ServeIpcCrash \/ ServeMqttEnds \/ ClientCrash
              \/ SlowRound \/ Stop \/ PollInterrupted
    BY <2>3, <2>11 DEF MqttNotice, ApiStatusFails, ServeIpcCrash, ServeMqttEnds, ClientCrash,
                       SlowRound, Stop, PollInterrupted
  <2>12. CASE Drained \/ Poll \/ ServeIpc \/ ServeMqtt \/ ClientEof \/ ClientAnswered
              \/ NextClient \/ SigTerm \/ Restart
    BY <2>2, <2>12 DEF Drained, Poll, ServeIpc, ServeMqtt, ClientEof, ClientAnswered,
                       NextClient, SigTerm, Restart
  <2>13. CASE (\E p \in Peers : PeerConnects(p) \/ PeerLeaves(p)) \/ TimerExpires \/ LinkDrops
    BY <2>2, <2>13 DEF PeerConnects, PeerLeaves, TimerExpires, LinkDrops, OutsideDaemon
  <2> QED
    BY <2>6, <2>7, <2>8, <2>9, <2>10, <2>11, <2>12, <2>13 DEF Next, Daemon
<1> QED
  BY <1>1, DaemonInvariant, PTL DEF Spec, OperationMovesOn
=============================================================================
