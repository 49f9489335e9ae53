CONSTANTS
  MaxPoints = 1
  Percents = {50, 100}
  ShaderSets = {{"DEPTH"}, {"BILLBOARD_PHONG"}, {"NORMAL", "COLOR_ADJUSTMENT"}, {"SKIP", "CLIP"}, {"BOUNDING_BOX", "MINIMAL_VARIABLE_SIZE"}}
  Objects = {A, B}
  Names = {A, B, C}
  MaxUuid = 2
  MaxFrame = 3
  Cyclic = {A}
  ItemCounts = {0, 2}
  MaxPool = 9
  Candidates = {3}
  MaxElements = 3
  MaxCount = 2
  MaxSize = 2
  LastFrame = 2
  MaxText = 4
SPECIFICATION PartsSpec
INVARIANTS BatchCurrent ShaderChoice RedrawShows DrawnOwned Handled EditRestores EditIndexes SamplesDistinct OnlyGapsMissing VerticesRead NothingLost RenderRestores HeaderDenotes
PROPERTY FrameShown
CHECK_DEADLOCK FALSE
