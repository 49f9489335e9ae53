CONSTANTS
  SMOOTH_DOOR_STATE_SIZE = 1
  PresetRun = 1
  FORCED_STATUS_UPDATE_PERIOD = 0
  BootTries = 0
  Inputs = {"io", "close", "safe", "unsafe"}
  MaxFaults = 1
SPECIFICATION Spec
INVARIANTS TypeOK RelaysFollowState TimeoutPending UnsafeOpenNeverRelocks ReleaseSeen
PROPERTIES NeverLocksAnOpenDoor ImplementsService
