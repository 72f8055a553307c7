SPECIFICATION TreeSpec
CONSTANTS
  Node = {n1, n2, n3, n4, n5}
  NULL = NULL
  Held = {n1}
  MaxRefs = 2
INVARIANTS TypeOK LinksSound WalkMeetsAll FindsNext
PROPERTIES ImplementsOrderedTree DeletionEnds
CHECK_DEADLOCK FALSE
