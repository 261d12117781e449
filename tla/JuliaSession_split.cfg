SPECIFICATION Spec
CONSTANTS
  c1 = c1
  d1 = d1
  d2 = d2
  NoDir = NoDir
  Code = {c1}
  Dirs = {d1}
  Throwing = {}
  Diverging = {}
  Split = {"output-package"}
  InitOutput <- Quiet
  MayCrash = FALSE
  MaxEvents = 3
  OpenPanes <- OnePane
  ConsoleWork <- OneCommand
  OtherWork = {}
  MaxQueue = 2
  MaxResets = 0
INVARIANTS
  NoLostWakeup
PROPERTIES
  NeverReordered
CHECK_DEADLOCK FALSE
