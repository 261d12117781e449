SPECIFICATION BuildSpec
CONSTANTS
  Project = {1, 2}
  Breakable = {}
  StepCount <- OneStep
  MaxDisabled = 0
  MaxSteps = 4
INVARIANTS
  RunIsOfOpenProject
CHECK_DEADLOCK FALSE
