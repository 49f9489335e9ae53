--------------------------- MODULE BuschInterface ---------------------------
(****************************************************************************)
(* The controller at the door opener of the building                          *)
(* (firmware/busch-interface): a main loop that looks at two flags, the task  *)
(* of the MQTT client that sets one of them, and the interrupt of the         *)
(* doorbell that sets the other.                                              *)
(****************************************************************************)

VARIABLES
    busch_pc,                \* app_main: at the "bell", at the "door", in a "pulse"
    atomic_doorbell_signal,
    atomic_door_signal,
    button,                  \* PIN_BUTTON, which opens the door of the building
    is_mqtt_connected,
    rung,                    \* history: the bell rang after it was last looked at
    asked                    \* history: a command came after the last pulse began

buschVars == <<busch_pc, atomic_doorbell_signal, atomic_door_signal, button,
               is_mqtt_connected, rung, asked>>

BuschInit ==
    /\ busch_pc = "bell"
    /\ atomic_doorbell_signal = 0 /\ atomic_door_signal = 0
    /\ button = FALSE
    /\ is_mqtt_connected = FALSE
    /\ rung = FALSE /\ asked = FALSE

(* A ring is published when there is a connection, and forgotten otherwise.   *)
io_was_doorbell_triggered ==
    /\ busch_pc = "bell"
    /\ busch_pc' = "door"
    /\ atomic_doorbell_signal' = 0
    /\ rung' = (rung /\ atomic_doorbell_signal = 0)
    /\ UNCHANGED <<atomic_door_signal, button, is_mqtt_connected, asked>>

was_door_signalled ==
    /\ busch_pc = "door"
    /\ atomic_door_signal' = 0
    /\ IF atomic_door_signal = 1
       THEN busch_pc' = "pulse" /\ button' = TRUE /\ asked' = FALSE
       ELSE busch_pc' = "bell" /\ UNCHANGED <<button, asked>>
    /\ UNCHANGED <<atomic_doorbell_signal, is_mqtt_connected, rung>>

(* Mutation: the flag is cleared when the pulse is over.                      *)
MutClearLate ==
    /\ busch_pc = "pulse"
    /\ busch_pc' = "bell"
    /\ button' = FALSE
    /\ atomic_door_signal' = 0
    /\ UNCHANGED <<atomic_doorbell_signal, is_mqtt_connected, rung, asked>>

io_trigger_door_unlock ==
    /\ busch_pc = "pulse"
    /\ busch_pc' = "bell"
    /\ button' = FALSE
    /\ UNCHANGED <<atomic_doorbell_signal, atomic_door_signal, is_mqtt_connected, rung, asked>>

(* Compare and swap: the flag becomes 1, or stays 1.                          *)
handle_gpio_interrupt ==
    /\ atomic_doorbell_signal' = 1
    /\ rung' = TRUE
    /\ UNCHANGED <<busch_pc, atomic_door_signal, button, is_mqtt_connected, asked>>

signal_door_open ==
    /\ is_mqtt_connected
    /\ atomic_door_signal' = 1
    /\ asked' = TRUE
    /\ UNCHANGED <<busch_pc, atomic_doorbell_signal, button, is_mqtt_connected, rung>>

(* Commands arrive once the topics are subscribed; a failure there aborts.    *)
on_mqtt_connect ==
    /\ is_mqtt_connected' = ~is_mqtt_connected
    /\ UNCHANGED <<busch_pc, atomic_doorbell_signal, atomic_door_signal, button, rung, asked>>

(* The reset topic, or an abort: what was asked for is forgotten.             *)
busch_restart ==
    /\ busch_pc' = "bell"
    /\ atomic_doorbell_signal' = 0 /\ atomic_door_signal' = 0
    /\ button' = FALSE
    /\ is_mqtt_connected' = FALSE
    /\ rung' = FALSE /\ asked' = FALSE

BuschNext ==
    \/ io_was_doorbell_triggered \/ was_door_signalled \/ io_trigger_door_unlock
    \/ handle_gpio_interrupt \/ signal_door_open \/ on_mqtt_connect
    \/ busch_restart

BuschSpec == BuschInit /\ [][BuschNext]_buschVars

(* A ring or a command that comes while the other flag is served, or while    *)
(* the button is held, is not swallowed: the loop will find its flag set.     *)
NothingSwallowed ==
    /\ rung => atomic_doorbell_signal = 1
    /\ asked => atomic_door_signal = 1
=============================================================================
