CONSTANTS
  MaxPoints = 2
  Percents = {50, 100}
  ShaderSets = {{"MINIMAL_VARIABLE_SIZE", "RICH_BILLBOARD"}}
SPECIFICATION ShadingSpec
INVARIANT SizesRecovered
