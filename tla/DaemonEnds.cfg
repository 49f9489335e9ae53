CONSTANTS
  IdSpace = 4
  Slots = 1
  Garbage = {0}
  Peers = {p1, p2}
  RingSize = 64
  MaxBatch = 1
  MqttEvents = {"DOOR_B2_LOCKED", "DOOR_C2_LOCKED"}
  Messages = {"OPEN_FRONT", "CLOSE"}
  MaxDrops = 0
  MayStop = TRUE
SPECIFICATION FairSpec
PROPERTIES OperationEnds ClientsReleased ShutdownEnds
CHECK_DEADLOCK FALSE
