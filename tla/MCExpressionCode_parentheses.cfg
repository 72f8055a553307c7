CONSTANTS
  Programs <- IntPrograms
  Stores <- Start
  TypeOf <- Vars
  MaxTurns = 3
SPECIFICATION Spec
INVARIANT ParenthesesKept
CHECK_DEADLOCK FALSE
