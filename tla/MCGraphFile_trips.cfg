SPECIFICATION Spec
CONSTANTS
  MaxNew = 2
  MaxLater = 2
  MaxSaves = 1
  MaxGraph = 3
  Byte = 5
  Attrs <- Lossy
INVARIANTS TypeOK IdsUnique RoundTrip EdgesKept
CHECK_DEADLOCK FALSE
