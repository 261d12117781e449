SPECIFICATION FairSpec
CONSTANTS
  p1 = p1
  p2 = p2
  Package = {p1, p2}
  MayFail = {"available", "add", "remove", "update"}
  ConsoleRuns = {"nothing"}
  MaxQueue = 4
  MaxResets = 2
INVARIANTS
  TypeOK
  StaleMeansRefresh
  BusyMeansPending
PROPERTIES
  BusyEnds
CHECK_DEADLOCK FALSE
