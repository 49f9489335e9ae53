---------------------------- MODULE PortalDaemon ----------------------------
(****************************************************************************)
(* The portal daemon (software/src/portal-daemon.c, mqtt-client.c): one       *)
(* thread that, in a loop, acts on the signals its state machine has queued,  *)
(* synchronises the MQTT client, sleeps in poll, and serves the descriptors   *)
(* that poll found ready in the order of the table: the IPC listener, MQTT,   *)
(* the timer of the state machine, the IPC clients.                           *)
(*                                                                            *)
(* Around it are the portal-trigger processes that connect, send one request  *)
(* and wait until the daemon hangs up, the broker that delivers messages or   *)
(* drops the connection, and the clock.                                       *)
(****************************************************************************)
EXTENDS PortalStateMachine, IpcTable

CONSTANTS
    RingSize,     \* MAX_SIGNAL_RINGBUFFER_ITEMS (64)
    MaxBatch,     \* bound on the messages that one mqtt_sync delivers
    MqttEvents,   \* events of the state machine that MQTT messages cause
    Messages,     \* requests that portal-trigger processes send
    MaxDrops,     \* bound on lost connections to the broker
    MayStop       \* whether SIGTERM and SIGINT occur

OpenMessages   == {"OPEN_FRONT", "OPEN_BACK"}
StatusMessages == {"QUERY_STATUS", "SIMPLE_STATUS"}
IpcMessages    == OpenMessages \cup StatusMessages
                    \cup {"CLOSE", "FORCE_OPEN", "SYSTEM_RESET", "SHUTDOWN"}

ASSUME DaemonAssumption ==
    /\ MayStop \in BOOLEAN
    /\ RingSize \in Nat /\ MaxBatch \in Nat /\ MaxDrops \in Nat
    /\ MqttEvents \subseteq DoorEvents \cup Buttons \cup {"DOORBELL_FRONT"}
    /\ Messages \subseteq IpcMessages

VARIABLES
    sm,          \* global_state_machine
    ring,        \* signal_ring_buffer: queued signals with the id of a client
    sm_timer,    \* sm_timerfd: "off", "armed" or "expired"
    pc,          \* "drain", "sync", "poll", or "serve" the descriptor index
    index,       \* pfd_index
    ready,       \* the static descriptors that poll found ready
    batch,       \* messages delivered by the mqtt_sync that is running
    connected,   \* mqtt_client->connected
    mqtt_fd,     \* what pollfds[POLLFD_MQTT].fd is: "socket", "timer", "closed"
    link,        \* the connection itself: "ok", "closed" by the broker, "broken"
    drops,       \* connections lost so far
    up,          \* "up", "exited" through exit, or "crashed"
    peers,       \* the portal-trigger processes: where they are, and the
                 \* request that waits in their socket
    backlog,     \* processes waiting for accept
    sent,        \* commands the latest step has published, as <<action, door>>
    lost,        \* history: a signal was dropped because the ring was full
    shutdown_requested,
    unentered    \* history: clients that were waiting when a door opened for
                 \* nobody was locked again

loopVars == <<pc, index, ready, batch>>
mqttVars == <<connected, mqtt_fd, link, drops>>
peerVars == <<peers, backlog>>
vars == <<clients, next_ipc_client_id, sm, ring, sm_timer, loopVars, mqttVars, up,
          peerVars, sent, lost, shutdown_requested, unentered>>

Doors == {"B", "C", "B2", "C2"}
Commands == {"open-safe", "open-unsafe", "lock", "reset"} \X (Doors \cup {"*"})
Flags == {"LOCKED", "OPEN", "NO_CHANGE", "ERROR"}

TypeOK ==
    /\ clients \in Seq([client_id: Ids, peer: Peers, flags: SUBSET Flags,
                        forward_logs: BOOLEAN, revents: BOOLEAN])
    /\ Len(clients) <= Slots
    /\ next_ipc_client_id \in Ids
    /\ sm \in Machines
    /\ ring \in Seq([signal: SmSignals, client: 0 .. IdSpace - 1])
    /\ Len(ring) <= RingSize
    /\ sm_timer \in {"off", "armed", "expired"}
    /\ pc \in {"drain", "sync", "poll", "serve"}
    /\ index \in 0 .. Slots + 3
    /\ ready \subseteq {"ipc", "mqtt", "timer"}
    /\ batch \in 0 .. MaxBatch
    /\ connected \in BOOLEAN
    /\ mqtt_fd \in {"socket", "timer", "closed"}
    /\ link \in {"ok", "closed", "broken"}
    /\ drops \in 0 .. MaxDrops
    /\ up \in {"up", "exited", "crashed"}
    /\ peers \in [Peers -> [at: {"out", "here", "left"}, msg: IpcMessages \cup {"none"}]]
    /\ backlog \in Seq(Peers)
    /\ sent \subseteq Commands
    /\ lost \in BOOLEAN
    /\ shutdown_requested \in BOOLEAN
    /\ unentered \subseteq Peers

(* try_connect_mqtt when the daemon starts: it connects, fails, or connects   *)
(* and then fails to publish or subscribe (counted as a lost connection).     *)
StartConnection(conn, fd, lnk, lostBefore, lostNow) ==
    \/ conn = TRUE /\ fd = "socket" /\ lnk = "ok" /\ lostNow = lostBefore
    \/ conn = FALSE /\ fd = "timer" /\ lnk = "ok" /\ lostNow = lostBefore
    \/ /\ lostBefore < MaxDrops
       /\ conn = TRUE /\ fd = "timer" /\ lnk = "broken" /\ lostNow = lostBefore + 1

(* main up to the loop.                                                       *)
Init ==
    /\ TableInit
    /\ sm = sm_init
    /\ ring = <<>>
    /\ sm_timer = "off"
    /\ pc = "drain"
    /\ index = 0
    /\ ready = {}
    /\ batch = 0
    /\ StartConnection(connected, mqtt_fd, link, 0, drops)
    /\ up = "up"
    /\ peers = [p \in Peers |-> [at |-> "out", msg |-> "none"]]
    /\ backlog = <<>>
    /\ sent = {}
    /\ lost = FALSE
    /\ shutdown_requested = FALSE
    /\ unentered = {}

-----------------------------------------------------------------------------
(* Signals, logs and the end of the process.                                  *)

Min2(a, b) == IF a < b THEN a ELSE b

(* Mutation: the size of the ring is not looked at.                           *)
MutPushAnyway(signals, client) ==
    /\ ring' = ring \o [i \in 1 .. Len(signals) |-> [signal |-> signals[i], client |-> client]]
    /\ UNCHANGED lost

(* state_machine_signal_handler and push_signal: a full ring drops signals.   *)
push_signals(signals, client) ==
    LET room == Min2(Len(signals), RingSize - Len(ring))
    IN  /\ ring' = ring \o [i \in 1 .. room |-> [signal |-> signals[i], client |-> client]]
        /\ lost' = (lost \/ room < Len(signals))

apply_event(e, client) ==
    LET r == sm_apply_event(sm, e)
    IN  sm' = r.sm /\ push_signals(r.signals, client)

(* A message logged at this point is forwarded to a process that has gone     *)
(* (print_log_to_ipc_clients).  The write fails, and ipc_send_msg logs the    *)
(* failure, which is forwarded to the same client, and so on until the stack  *)
(* is used up.  (Linux sends no SIGPIPE for a SOCK_SEQPACKET socket.)         *)
log_hits_dead_client ==
    \E i \in 1 .. Len(clients) :
        clients[i].forward_logs /\ peers[clients[i].peer].at = "left"

(* The process ends and its memory is gone; everybody who is connected or     *)
(* waiting sees that.                                                         *)
Dies(how) ==
    /\ up' = how
    /\ peers' = [p \in Peers |-> [at |-> "out", msg |-> "none"]]
    /\ backlog' = <<>>
    /\ clients' = <<>>
    /\ next_ipc_client_id' = 0
    /\ sm' = sm_init
    /\ ring' = <<>>
    /\ sm_timer' = "off"
    /\ pc' = "drain" /\ index' = 0 /\ ready' = {} /\ batch' = 0
    /\ connected' = FALSE /\ mqtt_fd' = "timer" /\ link' = "ok"
    /\ sent' = {}
    /\ lost' = FALSE
    /\ unentered' = {}
    /\ UNCHANGED drops

(* The clients at the indices in gone are removed: their sockets are closed.  *)
HangUp(gone) ==
    peers' = [p \in Peers |->
                IF \E i \in gone : clients[i].peer = p
                THEN [at |-> "out", msg |-> "none"] ELSE peers[p]]

remove_ipc_client(i) ==
    /\ clients' = swap_remove(clients, i)
    /\ HangUp({i})
    /\ unentered' = unentered \ {clients[i].peer}

remove_all_ipc_clients(flag) ==
    LET gone == {i \in 1 .. Len(clients) : flag \in clients[i].flags}
    IN  /\ clients' = remove_rounds(clients, flag)
        /\ HangUp(gone)
        /\ unentered' = unentered \ {clients[i].peer : i \in gone}

-----------------------------------------------------------------------------
(* The top of the loop: act on the queued signals.                            *)

(* What a signal publishes.                                                   *)
CommandsOf ==
    [OPEN_DOOR_B         |-> {<<"open-unsafe", "B">>},
     OPEN_DOOR_C         |-> {<<"open-unsafe", "C">>},
     OPEN_DOOR_B2_SAFE   |-> {<<"open-safe", "B2">>},
     OPEN_DOOR_C2_SAFE   |-> {<<"open-safe", "C2">>},
     OPEN_DOOR_B2_UNSAFE |-> {<<"open-unsafe", "B2">>},
     OPEN_DOOR_C2_UNSAFE |-> {<<"open-unsafe", "C2">>},
     LOCK_ALL            |-> {<<"lock", "C2">>, <<"lock", "B2">>}]

(* send_mqtt_msg: nothing is published without a connection, nor on one that  *)
(* has failed.  One that the broker has closed takes messages until the next  *)
(* sync.                                                                      *)
send_mqtt_msg(commands) ==
    sent' = IF connected /\ link # "broken" THEN commands ELSE {}

(* The flag whose owners a signal disconnects.                                *)
DisconnectFlag ==
    [LOCK_SUCCESSFUL |-> "LOCKED", OPEN_SUCCESSFUL |-> "OPEN", CHANGE_KEYHOLDER |-> "OPEN",
     NO_STATE_CHANGE |-> "NO_CHANGE", USER_REQUESTED_TIMED_OUT |-> "ERROR"]

keep_clients == UNCHANGED <<clients, peers, unentered>>

TimerSignal(s) ==
    /\ s.signal \in {"START_TIMEOUT", "CANCEL_TIMEOUT"}
    /\ sm_timer' = IF s.signal = "START_TIMEOUT" THEN "armed" ELSE "off"
    /\ sent' = {}
    /\ keep_clients

CommandSignal(s) ==
    /\ s.signal \in DOMAIN CommandsOf
    /\ send_mqtt_msg(CommandsOf[s.signal])
    /\ UNCHANGED sm_timer
    /\ keep_clients

(* STATE_CHANGE and UNLOCK_TIMEOUT are only logged.                           *)
NoticeSignal(s) ==
    /\ s.signal \in {"STATE_CHANGE", "UNLOCK_TIMEOUT"}
    /\ unentered' = IF s.signal = "STATE_CHANGE" THEN unentered
                    ELSE unentered \cup {clients[i].peer : i \in {j \in 1 .. Len(clients) :
                                                            "OPEN" \in clients[j].flags}}
    /\ sent' = {}
    /\ UNCHANGED <<clients, peers, sm_timer>>

ResultSignal(s) ==
    /\ s.signal \in DOMAIN DisconnectFlag
    /\ remove_all_ipc_clients(DisconnectFlag[s.signal])
    /\ sent' = {}
    /\ UNCHANGED sm_timer

RefusalSignal(s) ==
    /\ s.signal = "CANNOT_HANDLE_REQUEST"
    /\ IF find_ipc_client_by_id(s.client) = {}
       THEN keep_clients
       ELSE \E i \in find_ipc_client_by_id(s.client) : remove_ipc_client(i)
    /\ sent' = {}
    /\ UNCHANGED sm_timer

(* All but the signals for the timer write a message to the log first.        *)
logs_message(s) == s.signal \notin {"START_TIMEOUT", "CANCEL_TIMEOUT"}

HandleSignal ==
    /\ pc = "drain"
    /\ ring # <<>>
    /\ LET s == Head(ring)
       IN  IF logs_message(s) /\ log_hits_dead_client
           THEN Dies("crashed")
           ELSE /\ \/ TimerSignal(s)
                   \/ CommandSignal(s)
                   \/ NoticeSignal(s)
                   \/ ResultSignal(s)
                   \/ RefusalSignal(s)
                /\ ring' = Tail(ring)
                /\ UNCHANGED <<next_ipc_client_id, sm, up, backlog, lost>>
                /\ UNCHANGED <<loopVars, mqttVars>>

Drained ==
    /\ pc = "drain"
    /\ ring = <<>>
    /\ pc' = "sync"
    /\ batch' = 0
    /\ sent' = {}
    /\ UNCHANGED <<clients, next_ipc_client_id, sm, ring, sm_timer, index, ready, up,
                   lost, unentered>>
    /\ UNCHANGED <<mqttVars, peerVars>>

-----------------------------------------------------------------------------
(* mqtt_client_sync, before poll and when MQTT is ready.  It delivers the     *)
(* messages that have arrived and then tells how it went.                     *)

Syncing ==
    /\ connected
    /\ pc = "sync" \/ (pc = "serve" /\ index = 1 /\ "mqtt" \in ready)

(* mqtt_handle_message, for a message that is an event.                       *)
MqttEvent ==
    /\ Syncing
    /\ link = "ok"
    /\ batch < MaxBatch
    /\ batch' = batch + 1
    /\ \E e \in MqttEvents : apply_event(e, INVALID_IPC_CLIENT)
    /\ sent' = {}
    /\ UNCHANGED <<clients, next_ipc_client_id, sm_timer, pc, index, ready, up, unentered>>
    /\ UNCHANGED <<mqttVars, peerVars>>

(* Any other message, a device status or an unhandled topic, is only logged.  *)
MqttNotice ==
    /\ Syncing
    /\ link = "ok"
    /\ log_hits_dead_client
    /\ Dies("crashed")

(* The sync before poll.  Its result is ignored: the socket of a closed       *)
(* connection is closed, and its descriptor stays in the table.               *)
SyncDone ==
    /\ pc = "sync"
    /\ IF connected /\ link = "broken" /\ log_hits_dead_client
       THEN Dies("crashed")
       ELSE /\ pc' = "poll"
            /\ batch' = 0
            /\ IF connected /\ link = "closed"
               THEN /\ connected' = FALSE
                    /\ mqtt_fd' = IF mqtt_fd = "socket" THEN "closed" ELSE mqtt_fd
               ELSE UNCHANGED <<connected, mqtt_fd>>
            /\ sent' = {}
            /\ UNCHANGED <<clients, next_ipc_client_id, sm, ring, sm_timer, index, ready,
                           link, drops, up, lost, unentered>>
            /\ UNCHANGED peerVars

(* update_api_status, after it: the serial device can not be used, which is   *)
(* only logged.                                                               *)
ApiStatusFails ==
    /\ pc = "sync"
    /\ log_hits_dead_client
    /\ Dies("crashed")

-----------------------------------------------------------------------------
(* poll.                                                                      *)

(* A closed descriptor and a connection with an error are ready at once; a    *)
(* reconnect timer and a good connection when it pleases them.                *)
mqtt_readiness ==
    IF mqtt_fd = "closed" \/ (mqtt_fd = "socket" /\ link # "ok") THEN {TRUE} ELSE BOOLEAN

Poll ==
    /\ pc = "poll"
    /\ \E m \in mqtt_readiness :
          ready' = (IF backlog # <<>> THEN {"ipc"} ELSE {})
                   \cup (IF m THEN {"mqtt"} ELSE {})
                   \cup (IF sm_timer = "expired" THEN {"timer"} ELSE {})
    /\ clients' = [i \in 1 .. Len(clients) |->
                     [clients[i] EXCEPT !.revents =
                        LET p == peers[clients[i].peer] IN p.msg # "none" \/ p.at = "left"]]
    /\ ready' # {} \/ \E i \in 1 .. Len(clients) : clients'[i].revents
    /\ pc' = "serve"
    /\ index' = 0
    /\ batch' = 0
    /\ sent' = {}
    /\ UNCHANGED <<next_ipc_client_id, sm, ring, sm_timer, up, lost, unentered>>
    /\ UNCHANGED <<mqttVars, peerVars>>

-----------------------------------------------------------------------------
(* Serving the descriptors.                                                   *)

(* The descriptor fd, or a client, is done.                                   *)
Advance(fd) == /\ index' = index + 1
               /\ ready' = ready \ {fd}
               /\ batch' = 0
               /\ UNCHANGED pc

(* POLLFD_IPC: accept the next process, or turn it away.                      *)
ServeIpc ==
    /\ pc = "serve" /\ index = 0
    /\ IF "ipc" \notin ready
       THEN UNCHANGED <<clients, next_ipc_client_id, peers, backlog>>
       ELSE /\ backlog' = Tail(backlog)
            /\ IF Len(clients) < Slots
               THEN /\ add_ipc_client([client_id |-> next_ipc_client_id,
                                       peer |-> Head(backlog), flags |-> {},
                                       forward_logs |-> FALSE, revents |-> FALSE])
                    /\ UNCHANGED peers
               ELSE /\ ~log_hits_dead_client
                    /\ peers' = [peers EXCEPT ![Head(backlog)] = [at |-> "out", msg |-> "none"]]
                    /\ UNCHANGED <<clients, next_ipc_client_id>>
    /\ Advance("ipc")
    /\ sent' = {}
    /\ UNCHANGED <<sm, ring, sm_timer, up, lost, unentered>>
    /\ UNCHANGED mqttVars

(* The same, when the warning that the table is full can not be forwarded.    *)
ServeIpcCrash ==
    /\ pc = "serve" /\ index = 0 /\ "ipc" \in ready
    /\ Len(clients) = Slots
    /\ log_hits_dead_client
    /\ Dies("crashed")

(* A tick of the timer tries to connect: that fails, succeeds, or connects    *)
(* and then fails to publish or subscribe.                                    *)
Reconnect ==
    /\ ~connected
    /\ mqtt_fd = "timer"
    /\ \/ UNCHANGED mqttVars
       \/ connected' = TRUE /\ mqtt_fd' = "socket" /\ link' = "ok" /\ UNCHANGED drops
       \/ /\ drops < MaxDrops
          /\ drops' = drops + 1
          /\ connected' = TRUE
          /\ link' = "broken"
          /\ UNCHANGED mqtt_fd

(* Mutation: the table keeps the socket of a connection that was lost.        *)
MutKeepSocket ==
    \/ /\ connected
       /\ connected' = (link # "closed")
       /\ UNCHANGED <<mqtt_fd, link, drops>>
    \/ Reconnect

(* What becomes of the connection in POLLFD_MQTT.                             *)
MqttResult ==
    \/ /\ connected
       /\ IF link = "closed"
          THEN connected' = FALSE /\ mqtt_fd' = "timer"
          ELSE UNCHANGED <<connected, mqtt_fd>>
       /\ UNCHANGED <<link, drops>>
    \/ Reconnect

ServeMqtt ==
    /\ pc = "serve" /\ index = 1
    /\ IF "mqtt" \in ready
       THEN /\ (connected /\ link = "ok") \/ ~log_hits_dead_client
            /\ MqttResult
       ELSE UNCHANGED mqttVars
    /\ Advance("mqtt")
    /\ sent' = {}
    /\ UNCHANGED <<clients, next_ipc_client_id, sm, ring, sm_timer, up, lost, unentered>>
    /\ UNCHANGED peerVars

(* The descriptor is neither: fetch_timer_fd fails and the daemon exits.  Or  *)
(* one of the messages about the connection can not be forwarded.             *)
ServeMqttEnds ==
    /\ pc = "serve" /\ index = 1 /\ "mqtt" \in ready
    /\ ~(connected /\ link = "ok")
    /\ IF log_hits_dead_client THEN Dies("crashed")
                               ELSE /\ ~connected /\ mqtt_fd = "closed"
                                    /\ Dies("exited")

(* POLLFD_SM_TIMER.                                                           *)
ServeTimer ==
    /\ pc = "serve" /\ index = 2
    /\ IF "timer" \in ready
       THEN sm_timer' = "off" /\ apply_event("TIMEOUT", INVALID_IPC_CLIENT)
       ELSE UNCHANGED <<sm_timer, sm, ring, lost>>
    /\ Advance("timer")
    /\ sent' = {}
    /\ UNCHANGED <<clients, next_ipc_client_id, up, unentered>>
    /\ UNCHANGED <<mqttVars, peerVars>>

-----------------------------------------------------------------------------
(* Serving an IPC client.                                                     *)

slot == index - 2
ServingClient ==
    /\ pc = "serve" /\ index > 2
    /\ slot <= Len(clients)
    /\ clients[slot].revents
peer == clients[slot].peer
message == peers[peer].msg
gone == peers[peer].at = "left"

(* The process has left and its request, if any, was read.                    *)
ClientEof ==
    /\ ServingClient
    /\ message = "none"
    /\ remove_ipc_client(slot)
    /\ Advance("client")
    /\ sent' = {}
    /\ UNCHANGED <<next_ipc_client_id, sm, ring, sm_timer, up, backlog, lost>>
    /\ UNCHANGED mqttVars

EventOf(m) == CASE m = "OPEN_FRONT" -> "SSH_OPEN_FRONT_REQUEST"
                [] m = "OPEN_BACK"  -> "SSH_OPEN_BACK_REQUEST"
                [] m = "CLOSE"      -> "SSH_CLOSE_REQUEST"

(* Mutation: a client does not wait for errors.                               *)
MutNoErrorFlag(m) == {IF m = "CLOSE" THEN "LOCKED" ELSE "OPEN", "NO_CHANGE"}

FlagsOf(m) == {IF m = "CLOSE" THEN "LOCKED" ELSE "OPEN", "NO_CHANGE", "ERROR"}

(* The entry of a client that follows the log and waits for an outcome.       *)
waiting(entry, m) ==
    [client_id |-> entry.client_id, peer |-> entry.peer,
     flags |-> entry.flags \cup FlagsOf(m), forward_logs |-> TRUE, revents |-> FALSE]

(* A request to open or close: the client is told, follows the log from now   *)
(* on, and waits for the outcome.                                             *)
ClientRequest ==
    /\ ServingClient
    /\ message \in OpenMessages \cup {"CLOSE"}
    /\ ~gone
    /\ clients' = [clients EXCEPT ![slot] = waiting(clients[slot], message)]
    /\ peers' = [peers EXCEPT ![peer].msg = "none"]
    /\ apply_event(EventOf(message), clients[slot].client_id)
    /\ Advance("client")
    /\ sent' = {}
    /\ UNCHANGED <<next_ipc_client_id, sm_timer, up, backlog, unentered>>
    /\ UNCHANGED mqttVars

(* The requests that are answered at once.  An open request without valid     *)
(* member data is one of them.  Status goes to nobody but the client; the     *)
(* others publish something.                                                  *)
ForcedCommands == {<<"open-unsafe", d>> : d \in Doors}

ClientAnswered ==
    /\ ServingClient
    /\ \/ message \in OpenMessages \cup {"SHUTDOWN"} /\ ~gone /\ sent' = {}
       \/ message \in StatusMessages /\ ~(gone /\ log_hits_dead_client) /\ sent' = {}
       \/ message = "FORCE_OPEN" /\ connected /\ send_mqtt_msg(ForcedCommands)
       \/ message = "SYSTEM_RESET" /\ connected /\ ~gone /\ send_mqtt_msg({<<"reset", "*">>})
    /\ remove_ipc_client(slot)
    /\ Advance("client")
    /\ UNCHANGED <<next_ipc_client_id, sm, ring, sm_timer, up, backlog, lost>>
    /\ UNCHANGED mqttVars

(* Answering a process that has left ends the daemon when that process, or    *)
(* another one that has left, follows the log; so does logging to one.        *)
(* The two requests that publish without a look at the connection run into an *)
(* assertion of mqtt_client_publish; on a broken connection they log the      *)
(* failure, once it has been noticed.                                         *)
NotConnectedAssertion ==
    ServingClient /\ message \in {"FORCE_OPEN", "SYSTEM_RESET"} /\ ~connected

ClientCrash ==
    /\ ServingClient
    /\ \/ NotConnectedAssertion
       \/ message \in OpenMessages \cup {"CLOSE", "SHUTDOWN", "SYSTEM_RESET"} /\ gone
       \/ message \in StatusMessages /\ gone /\ log_hits_dead_client
       \/ message \in {"FORCE_OPEN", "SYSTEM_RESET"} /\ link = "broken" /\ log_hits_dead_client
    /\ Dies("crashed")

(* Mutation: the loop never ends.                                             *)
MutLoopForever == FALSE

(* The test of the main loop.                                                 *)
loop_ends == shutdown_requested

(* Nothing to do for this entry, or no entry left and the next round begins.  *)
NextClient ==
    /\ pc = "serve" /\ index > 2
    /\ IF slot > Len(clients)
       THEN ~loop_ends /\ pc' = "drain" /\ index' = 0 /\ UNCHANGED <<ready, batch>>
       ELSE ~clients[slot].revents /\ Advance("client")
    /\ sent' = {}
    /\ UNCHANGED <<clients, next_ipc_client_id, sm, ring, sm_timer, up, lost, unentered>>
    /\ UNCHANGED <<mqttVars, peerVars>>

(* A round that took long ends with a warning.                                *)
SlowRound ==
    /\ pc = "serve" /\ index > 2
    /\ slot > Len(clients)
    /\ log_hits_dead_client
    /\ Dies("crashed")

(* main returns: the last round is over, and its signals stay in the ring.    *)
Stop ==
    /\ loop_ends
    /\ pc = "serve" /\ index > 2
    /\ slot > Len(clients)
    /\ Dies("exited")

(* The flag is gone with the process.                                         *)
Daemon ==
    /\ up = "up"
    /\ \/ HandleSignal \/ Drained
       \/ MqttEvent \/ MqttNotice \/ SyncDone \/ ApiStatusFails
       \/ Poll
       \/ ServeIpc \/ ServeIpcCrash
       \/ ServeMqtt \/ ServeMqttEnds
       \/ ServeTimer
       \/ ClientEof \/ ClientRequest \/ ClientAnswered \/ ClientCrash \/ NextClient
       \/ SlowRound \/ Stop
    /\ shutdown_requested' = (shutdown_requested /\ up' = "up")

-----------------------------------------------------------------------------
(* Around the daemon.                                                         *)

OutsideDaemon ==
    /\ sent' = {}
    /\ UNCHANGED <<clients, next_ipc_client_id, sm, ring, up, lost, unentered>>
    /\ UNCHANGED <<loopVars, shutdown_requested>>

(* portal-trigger: connect and send one request, then wait for end of file.   *)
PeerConnects(p) ==
    /\ up = "up"
    /\ peers[p].at = "out"
    /\ \E m \in Messages : peers' = [peers EXCEPT ![p] = [at |-> "here", msg |-> m]]
    /\ backlog' = Append(backlog, p)
    /\ OutsideDaemon
    /\ UNCHANGED <<sm_timer, mqttVars>>

(* It is killed, say because the ssh connection is gone.                      *)
PeerLeaves(p) ==
    /\ peers[p].at = "here"
    /\ peers' = [peers EXCEPT ![p].at = "left"]
    /\ OutsideDaemon
    /\ UNCHANGED <<sm_timer, backlog, mqttVars>>

TimerExpires ==
    /\ sm_timer = "armed"
    /\ sm_timer' = "expired"
    /\ OutsideDaemon
    /\ UNCHANGED <<mqttVars, peerVars>>

(* The broker closes the connection in an orderly way, or it fails.           *)
LinkDrops ==
    /\ connected
    /\ link = "ok"
    /\ drops < MaxDrops
    /\ drops' = drops + 1
    /\ link' \in {"closed", "broken"}
    /\ OutsideDaemon
    /\ UNCHANGED <<connected, mqtt_fd, sm_timer, peerVars>>

(* sigint_handler and sigterm_handler.  A poll that has begun is interrupted  *)
(* and the loop ends at once.  The flag of an earlier signal, even one just   *)
(* before poll, is read at the end of the next round; as it is read nowhere   *)
(* else, it does not matter when in that round it is set.                     *)
SigTerm ==
    /\ MayStop /\ up = "up" /\ pc = "poll" /\ ~shutdown_requested
    /\ shutdown_requested' = TRUE
    /\ sent' = {}
    /\ UNCHANGED <<clients, next_ipc_client_id, sm, ring, sm_timer, up, lost, unentered>>
    /\ UNCHANGED <<loopVars, mqttVars, peerVars>>

PollInterrupted ==
    /\ MayStop /\ up = "up" /\ pc = "poll"
    /\ Dies("exited")
    /\ shutdown_requested' = FALSE

(* systemd starts the daemon again.  After exit the handlers have removed the *)
(* socket from /tmp; a crash leaves it there, and bind fails ever after.      *)
Restart ==
    /\ up = "exited"
    /\ up' = "up"
    /\ StartConnection(connected', mqtt_fd', link', drops, drops')
    /\ UNCHANGED <<clients, next_ipc_client_id, sm, ring, sm_timer, sent, lost, unentered>>
    /\ UNCHANGED <<loopVars, peerVars, shutdown_requested>>

Next ==
    \/ Daemon
    \/ \E p \in Peers : PeerConnects(p) \/ PeerLeaves(p)
    \/ TimerExpires
    \/ LinkDrops
    \/ SigTerm \/ PollInterrupted
    \/ Restart

Spec == Init /\ [][Next]_vars

(* The daemon runs whenever it can, and a timer expires.  In poll it can run  *)
(* as long as messages keep coming: the doors repeat their status.            *)
FairSpec == Spec /\ WF_vars(Daemon) /\ WF_vars(TimerExpires)

-----------------------------------------------------------------------------
(* Properties.                                                                *)

SignalsQueued == {ring[i].signal : i \in 1 .. Len(ring)}

(* The timer that sm_timer will be once the signals queued so far have been   *)
(* handled is not "off": the last of them that is about the timer starts it.  *)
TimerOwed ==
    \/ \E i \in 1 .. Len(ring) :
          /\ ring[i].signal = "START_TIMEOUT"
          /\ \A j \in i + 1 .. Len(ring) : ring[j].signal # "CANCEL_TIMEOUT"
    \/ sm_timer # "off" /\ "CANCEL_TIMEOUT" \notin SignalsQueued

(* A process that the daemon is waiting for has its timeout running, expired  *)
(* or queued, however door events, requests and the old timeout fall into one *)
(* round of the loop; unless the ring was full.                               *)
OperationTimed ==
    up = "up" /\ ~lost /\ sm.state # "IDLE" => TimerOwed

(* A refusal that is queued still names the client that asked for it, or      *)
(* nobody: removals meanwhile move entries of the table, but ids stay.        *)
RefusalMeetsRequester ==
    \A k \in 1 .. Len(ring) : ring[k].signal = "CANNOT_HANDLE_REQUEST" =>
        \A i \in find_ipc_client_by_id(ring[k].client) :
            clients[i].forward_logs /\ clients[i].flags # {}

(* Whoever waits for the outcome of a request will get one: the operation     *)
(* that is running ends with it, or a queued signal brings it, whatever door  *)
(* events, timeouts and requests of others were served in the same round.     *)
(* Clients of an operation that ended with nobody entering are the exception. *)
WaitersHaveAnswer ==
    ~lost => \A i \in 1 .. Len(clients) : clients[i].flags # {} =>
        \/ clients[i].peer \in unentered
        \/ sm.state = "WAIT_FOR_LOCKED" /\ "LOCKED" \in clients[i].flags
        \/ is_state_wait_for_open(sm.state) /\ "OPEN" \in clients[i].flags
        \/ \E k \in 1 .. Len(ring) :
              \/ ring[k].signal = "LOCK_SUCCESSFUL" /\ "LOCKED" \in clients[i].flags
              \/ /\ ring[k].signal \in {"OPEN_SUCCESSFUL", "CHANGE_KEYHOLDER", "UNLOCK_TIMEOUT"}
                 /\ "OPEN" \in clients[i].flags
              \/ ring[k].signal = "NO_STATE_CHANGE" /\ "NO_CHANGE" \in clients[i].flags
              \/ ring[k].signal = "USER_REQUESTED_TIMED_OUT" /\ "ERROR" \in clients[i].flags
              \/ /\ ring[k].signal = "CANNOT_HANDLE_REQUEST"
                 /\ ring[k].client = clients[i].client_id

(* The poll table agrees with the connection: a socket is polled only while   *)
(* it is connected, and a connection that works always is, so its messages    *)
(* wake the daemon.  Whenever there is none, a timer asks for the next        *)
(* attempt, or the closed descriptor ends the daemon before the round is      *)
(* over.  Only a connection that was half made is neither polled nor tried    *)
(* again (try_connect_mqtt), and no other one ends up like that.              *)
ConnectionPolled ==
    /\ mqtt_fd = "socket" => connected
    /\ connected => mqtt_fd = "socket" \/ (mqtt_fd = "timer" /\ link = "broken")
    /\ mqtt_fd = "closed" => pc = "poll" \/ (pc = "serve" /\ index <= 1 /\ "mqtt" \in ready)

(* Every operation comes to an end: by the doors, by the timeout, or because  *)
(* the daemon is gone.                                                        *)
OperationEnds == sm.state # "IDLE" ~> (sm.state = "IDLE" \/ up # "up" \/ lost)

(* Whoever connects is disconnected in the end: portal-trigger terminates,    *)
(* however requests of several users meet.  Clients that were waiting when a  *)
(* door opened for nobody was locked again are the exception.                 *)
ClientsReleased ==
    \A p \in Peers : peers[p].at = "here" ~> (peers[p].at # "here" \/ p \in unentered \/ lost)

(* A daemon that is told to stop does so, wherever in its loop the signal     *)
(* meets it: also between the test of the flag and poll, where it goes to     *)
(* sleep once more.                                                           *)
ShutdownEnds == shutdown_requested ~> up # "up"

(* portal-daemon.c: POLLFD_MQTT is "either the timerfd for reconnecting MQTT  *)
(* or the socket for MQTT communications".                                    *)
MqttFdDefined == up = "up" => mqtt_fd # "closed"

(* state-machine.h: SIGNAL_START_TIMEOUT asks for EVENT_TIMEOUT after         *)
(* STATE_MACHINE_TIMEOUT_MS.  It is not applied before the timer was started. *)
TimeoutNotEarly ==
    up = "up" /\ pc = "serve" /\ index = 2 /\ "timer" \in ready /\ sm.state # "IDLE"
        => "START_TIMEOUT" \notin SignalsQueued
=============================================================================
