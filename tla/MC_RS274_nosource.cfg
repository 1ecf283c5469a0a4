CONSTANTS
  PointLists = {pl1}
  NotPoints = notPoints
  SourceAvailable = FALSE
  MaxPoints = 1
  MaxCmds = 4
  Axis <- MCAxis
  AxesInputs <- MCAxesInputs
  DelayInputs <- MCDelayInputs
  EleparamInputs <- MCEleparamInputs
  CoordIndexInputs <- MCCoordIndexInputs
  FeedInputs <- MCFeedInputs
  G00FlagInputs <- MCG00FlagInputs
  ZeroFlagInputs <- MCZeroFlagInputs
  DrillInputs <- MCDrillInputs

SPECIFICATION Spec


INVARIANT EnvMatchesReplay
