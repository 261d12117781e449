SPECIFICATION FairSpec
CONSTANTS
  c1 = c1
  d1 = d1
  d2 = d2
  NoDir = NoDir
  Code = {c1}
  Dirs = {d1, d2}
  Throwing = {}
  Diverging <- EvalHang
  Split = {}
  InitOutput <- Quiet
  MayCrash = FALSE
  MaxEvents = 3
  OpenPanes <- OnePane
  ConsoleWork <- Commands
  OtherWork <- OnlyCd
  MaxQueue = 3
  MaxResets = 1
PROPERTIES
  ImplementsLiveService
  ResetRestarts
CHECK_DEADLOCK FALSE
