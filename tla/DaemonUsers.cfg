CONSTANTS
  IdSpace = 5
  Slots = 2
  Garbage = {0}
  Peers = {p1, p2}
  RingSize = 64
  MaxBatch = 1
  MqttEvents = {"DOOR_B2_OPENED", "DOOR_B2_CLOSED", "DOOR_B2_LOCKED", "DOOR_C2_OPENED", "DOOR_C2_CLOSED", "DOOR_C2_LOCKED", "BUTTON_B2", "BUTTON_C2", "DOORBELL_FRONT"}
  Messages = {"OPEN_FRONT", "CLOSE"}
  MaxDrops = 0
  MayStop = FALSE
SPECIFICATION Spec
INVARIANTS OperationTimed RefusalMeetsRequester WaitersHaveAnswer
SYMMETRY PeerSymmetry
CHECK_DEADLOCK FALSE
