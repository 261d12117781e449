SPECIFICATION Spec
CONSTANTS
  Project = {1, 2, 3}
  Breakable = {2}
INVARIANTS
  TypeOK
  Acyclic
  BuildOrderIsRight
  StartupIsOpen
  NothingIsLost
PROPERTIES
  RestoredAsSaved
CHECK_DEADLOCK FALSE
