SPECIFICATION Spec
CONSTANTS
  Workers = {w1, w2}
  QueueSize = 2
  Shapes <- MCShapes
  IntMax <- MCIntMax
  Hooks <- MCHooks
  NULL = NULL
  MaxMsgs = 3
  MaxFrags = 2
SYMMETRY Symmetry
INVARIANTS SeenAsSent MessagesAccounted ResponsesAreDue
CHECK_DEADLOCK FALSE
