SPECIFICATION Spec
CONSTANT MaxDepth <- Depth
INVARIANTS TypeOK JumpFreesNearestLoop JumpLeavesLoop ReturnLeavesFunction
CHECK_DEADLOCK FALSE
