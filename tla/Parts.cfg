CONSTANTS
  IdSpace = 8
  Slots = 3
  Garbage = {0, 5}
  Peers = {p1, p2, p3, p4}
  RingSize = 3
  RingSignals = {"START_TIMEOUT", "CANCEL_TIMEOUT"}
  RingIds = {1, 7}
  SMOOTH_DOOR_STATE_SIZE = 8
  TickSpace = 24
  UPDATE_PERIOD = 4
  MaxDelay = 2
  MaxLine = 2
  SHACK_MAXIMUM_RECONNECT_RETRY = 2
SPECIFICATION AloneSpec
INVARIANTS IdsUnique NothingSwallowed PushedInTime
PROPERTIES OthersKept RingIsQueue ArrayIsRunLength
