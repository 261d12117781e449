SPECIFICATION Spec
CONSTANTS
  console = console
  editor = editor
  Widget = {console, editor}
  MaxPos = 1
  MaxRequests = 4
  MaxResets = 1
SYMMETRY Widgets
INVARIANTS
  TypeOK
  CurrentIsAlive
  NobodyWaitsInVain
  BaseBeforeCursor
  AnswerIsNotLater
CHECK_DEADLOCK FALSE
