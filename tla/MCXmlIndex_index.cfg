CONSTANTS
  Elements <- FiveElements
  Names <- TwoNames
  AttrNames = {1, 2}
  Values <- TwoValues
  Documents <- SomeDocuments
  MaxChanges = 1
SPECIFICATION Spec
INVARIANT FindsEach
PROPERTY AnswersMatch
CHECK_DEADLOCK FALSE
