SPECIFICATION FileSpec
CONSTANTS
  Node = {n1, n2, n3, n4, n5, n6, n7}
  NULL = NULL
  Held = {}
  MaxRefs = 2
  Name = {"a", "b"}
  Tags <- SomeTags
  MaxPieces = 5
  MaxMarkup = 1
INVARIANTS FileTypeOK LoadedAsRead NothingElseLeft NothingElseKept
PROPERTIES RetainedStay
CHECK_DEADLOCK FALSE
