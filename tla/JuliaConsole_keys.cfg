SPECIFICATION Spec
CONSTANTS
  PromptLen = 1
  Input = {"clear"}
  MaxDoc = 4
  MaxLine = 1
  MaxHistory = 2
  MaxQueue = 2
  MaxResets = 1
INVARIANTS
  TypeOK
  PromptStays
  HistoryIsTyped
PROPERTIES
  TextAboveIsReadOnly
  ImplementsPromptLine
CHECK_DEADLOCK FALSE
