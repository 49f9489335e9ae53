CONSTANTS
  SMOOTH_DOOR_STATE_SIZE = 2
  PresetRun = 1
  FORCED_STATUS_UPDATE_PERIOD = 1
  BootTries = 2
  Inputs = {"close", "safe"}
  MaxFaults = 1
SPECIFICATION FairSpec
PROPERTIES ProcessEnds StatusConverges
