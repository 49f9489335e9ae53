CONSTANTS
  SMOOTH_DOOR_STATE_SIZE = 2
  PresetRun = 1
  FORCED_STATUS_UPDATE_PERIOD = 0
  BootTries = 2
  Inputs = {"safe"}
  MaxFaults = 0
SPECIFICATION Spec
INVARIANT CancelledTimeoutNotSent
