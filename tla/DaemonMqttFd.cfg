CONSTANTS
  IdSpace = 4
  Slots = 1
  Garbage = {0}
  Peers = {p1}
  RingSize = 64
  MaxBatch = 1
  MqttEvents = {}
  Messages = {"CLOSE"}
  MaxDrops = 1
  MayStop = FALSE
SPECIFICATION Spec
INVARIANTS MqttFdDefined
CHECK_DEADLOCK FALSE
