CONSTANTS
  IdSpace = 4
  Slots = 1
  Garbage = {0}
  Peers = {p1}
  RingSize = 64
  MaxBatch = 2
  MqttEvents = {"DOOR_B2_LOCKED", "DOOR_C2_LOCKED", "BUTTON_B2", "DOOR_B2_CLOSED"}
  Messages = {"CLOSE"}
  MaxDrops = 0
  MayStop = FALSE
SPECIFICATION Spec
INVARIANTS TimeoutNotEarly
CHECK_DEADLOCK FALSE
