SPECIFICATION Spec
CONSTANTS
  c1 = c1
  d1 = d1
  d2 = d2
  NoDir = NoDir
  Code = {c1}
  Dirs = {d1, d2}
  Throwing <- Throws
  Diverging = {}
  Split = {}
  InitOutput <- AnyInit
  MayCrash = TRUE
  MaxEvents = 3
  OpenPanes <- OnePane
  ConsoleWork <- Commands
  OtherWork <- Completions
  MaxQueue = 3
  MaxResets = 1
INVARIANTS
  TypeOK
  OneOutstanding
  IdleMeansDrained
  PromptWhenIdle
  NoLostWakeup
  WorkingDirFollows
PROPERTIES
  ImplementsService
CHECK_DEADLOCK FALSE
