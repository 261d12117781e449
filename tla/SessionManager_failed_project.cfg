SPECIFICATION FairSpec
CONSTANTS
  Project = {1, 2}
  Breakable = {1}
PROPERTIES
  LoadEnds
CHECK_DEADLOCK FALSE
