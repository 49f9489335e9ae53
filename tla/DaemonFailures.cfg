CONSTANTS
  IdSpace = 5
  Slots = 2
  Garbage = {0}
  Peers = {p1, p2}
  RingSize = 3
  MaxBatch = 1
  MqttEvents = {"DOOR_C2_LOCKED"}
  Messages = {"OPEN_BACK", "FORCE_OPEN", "SYSTEM_RESET", "SIMPLE_STATUS"}
  MaxDrops = 1
  MayStop = FALSE
SPECIFICATION Spec
INVARIANTS TypeOK ConnectionPolled
SYMMETRY PeerSymmetry
CHECK_DEADLOCK FALSE
