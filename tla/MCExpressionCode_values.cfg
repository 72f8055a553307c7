CONSTANTS
  Programs <- AllPrograms
  Stores <- Start
  TypeOf <- Vars
  MaxTurns = 3
SPECIFICATION Spec
INVARIANT AsWritten
PROPERTY TypesStay
CHECK_DEADLOCK FALSE
