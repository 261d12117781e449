SPECIFICATION FairBuildSpec
CONSTANTS
  Project = {1, 2}
  Breakable = {}
  StepCount <- TwoSteps
  MaxDisabled = 1
  MaxSteps = 8
INVARIANTS
  BuildTypeOK
  CountsMatch
  ThreadIsCurrent
  StepsAreOpen
  RunAfterBuild
PROPERTIES
  BuildEnds
CHECK_DEADLOCK FALSE
