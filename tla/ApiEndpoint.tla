---------------------------- MODULE ApiEndpoint ----------------------------
(****************************************************************************)
(* The controller that tells the world whether the shack is open              *)
(* (firmware/api-endpoint): a loop that reads the bytes that the daemon       *)
(* writes to the serial line (update_api_status), pushes a state that is new, *)
(* and repeats "open" once in a period; and its connection to the wireless    *)
(* network.                                                                   *)
(****************************************************************************)
EXTENDS Naturals, Sequences

CONSTANTS
    TickSpace,     \* 2^32: the size of TickType_t and of next_update_msg
    UPDATE_PERIOD, \* 6000 ticks
    MaxDelay,      \* bound on the ticks from one round of the loop to the next
    MaxLine,       \* bound on the bytes that wait in the serial line
    SHACK_MAXIMUM_RECONNECT_RETRY

ASSUME EndpointAssumption ==
    /\ TickSpace \in Nat /\ UPDATE_PERIOD \in Nat /\ MaxLine \in Nat /\ MaxDelay \in Nat
    /\ UPDATE_PERIOD + MaxDelay < TickSpace
    /\ SHACK_MAXIMUM_RECONNECT_RETRY \in Nat

VARIABLES
    running,          \* app_main is in its loop; otherwise in wifi_init_sta
    wifi,             \* "up", "down" while it is retried, or "given up"
    s_retry_num,
    ticks,            \* xTaskGetTickCount
    next_update_msg,
    is_open,
    line,             \* bytes on the serial line
    silence,          \* history: ticks since "open" was pushed or became known,
                      \* until a tick count wraps
    wrapped           \* history: a tick count has wrapped since the start

endpointVars == <<running, wifi, s_retry_num, ticks, next_update_msg, is_open, line,
                  silence, wrapped>>

Bytes == {"OPEN", "CLOSED", "other"}

(* The state of a controller that has just started.                           *)
Booting ==
    /\ running' = FALSE /\ wifi' = "down" /\ s_retry_num' = 0
    /\ ticks' = 0 /\ next_update_msg' = 0 /\ is_open' = FALSE /\ line' = <<>>
    /\ silence' = 0 /\ wrapped' = FALSE

EndpointInit ==
    /\ running = FALSE /\ wifi = "down" /\ s_retry_num = 0
    /\ ticks = 0 /\ next_update_msg = 0 /\ is_open = FALSE /\ line = <<>>
    /\ silence = 0 /\ wrapped = FALSE

-----------------------------------------------------------------------------
(* The network.                                                               *)

(* An address ends the wait in wifi_init_sta, or a lost connection.           *)
GotIp ==
    /\ wifi = "down"
    /\ wifi' = "up" /\ s_retry_num' = 0
    /\ running' = TRUE
    /\ UNCHANGED <<ticks, next_update_msg, is_open, line, silence, wrapped>>

(* Each disconnection asks for one more attempt, up to the limit.  Nobody     *)
(* looks at WIFI_FAIL_BIT once the loop is running.                           *)
StaDisconnected ==
    /\ wifi # "given up"
    /\ IF s_retry_num < SHACK_MAXIMUM_RECONNECT_RETRY
       THEN /\ wifi' = "down" /\ s_retry_num' = s_retry_num + 1
            /\ UNCHANGED <<running, ticks, next_update_msg, is_open, line, silence, wrapped>>
       ELSE IF running
       THEN /\ wifi' = "given up"
            /\ UNCHANGED <<running, s_retry_num, ticks, next_update_msg, is_open, line,
                           silence, wrapped>>
       ELSE Booting

-----------------------------------------------------------------------------
(* The serial line.  Bytes that do not fit are lost.                          *)

update_api_status ==
    /\ Len(line) < MaxLine
    /\ \E b \in Bytes : line' = Append(line, b)
    /\ UNCHANGED <<running, wifi, s_retry_num, ticks, next_update_msg, is_open, silence, wrapped>>

-----------------------------------------------------------------------------
(* One round of the loop.                                                     *)

(* What is_open has been after each byte, beginning with the state before.    *)
States(bytes) ==
    [i \in 1 .. Len(bytes) + 1 |->
        LET told == {j \in 1 .. i - 1 : bytes[j] # "other"}
        IN  IF told = {} THEN is_open
            ELSE bytes[CHOOSE j \in told : \A k \in told : k <= j] = "OPEN"]

force_send_notification == \E i \in 1 .. Len(line) : States(line)[i] # States(line)[i + 1]

(* Mutation: a forced update forwards the schedule too.                       *)
MutForward(now, force) == next_update_msg + UPDATE_PERIOD

next_update(now, force) ==
    IF force THEN now + UPDATE_PERIOD ELSE next_update_msg + UPDATE_PERIOD

(* http_native_request without a connection aborts, and the controller starts *)
(* again; so may any request.                                                 *)
Round ==
    /\ running
    /\ \E delay \in 1 .. MaxDelay :
        LET now  == (ticks + delay) % TickSpace
            open == States(line)[Len(line) + 1]
            due  == force_send_notification \/ now >= next_update_msg
            next == IF due THEN next_update(now, force_send_notification) ELSE next_update_msg
        IN  \/ due /\ open /\ Booting
            \/ /\ due /\ open => wifi = "up"
               /\ ticks' = now
               /\ next_update_msg' = next % TickSpace
               /\ is_open' = open
               /\ line' = <<>>
               /\ wrapped' = (wrapped \/ next >= TickSpace \/ ticks + delay >= TickSpace)
               /\ silence' = IF open /\ ~due /\ ~wrapped' THEN silence + delay ELSE 0
               /\ UNCHANGED <<running, wifi, s_retry_num>>

EndpointNext == GotIp \/ StaDisconnected \/ update_api_status \/ Round

EndpointSpec == EndpointInit /\ [][EndpointNext]_endpointVars

(* While the shack is open, somebody hears of it or the controller starts     *)
(* again at least once in a period, however the shack opens and closes in     *)
(* between and whatever the network does; until a tick count wraps, after     *)
(* which requests may come in every round, or not for a long time.            *)
PushedInTime == ~wrapped /\ is_open => silence <= UPDATE_PERIOD + MaxDelay
=============================================================================
