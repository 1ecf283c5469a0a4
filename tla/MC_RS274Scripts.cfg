CONSTANTS
  ps = ps
  PointLists = {ps}
  NotPoints = notPoints
  SourceAvailable = TRUE
  MaxPoints = 104
  MaxCmds = 30
  Axis <- MCAxis
  AxesInputs = {}
  DelayInputs = {}
  EleparamInputs = {}
  CoordIndexInputs = {}
  FeedInputs = {}
  G00FlagInputs = {}
  ZeroFlagInputs = {}
  DrillInputs = {}
  Programs <- MCPrograms

SPECIFICATION ScriptSpec

PROPERTY ScriptReachesOutcome

CHECK_DEADLOCK FALSE
