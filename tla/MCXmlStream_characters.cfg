SPECIFICATION Spec
CONSTANTS
  Chars <- Boundaries
  MaxText = 3
  BufSize = 3
  StartSize = 5
  MaxInterrupts = 1
INVARIANTS TypeOK Fits SavedWhole NothingElseLost ReadsBack
PROPERTIES Ends
CHECK_DEADLOCK FALSE
