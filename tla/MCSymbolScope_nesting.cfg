SPECIFICATION Spec
CONSTANTS
  x = x f = f
  None = None
  Name = {x, f}
  Called = {f}
  MaxScope = 2
INVARIANTS TypeOK ScopesMatchBlocks AttributesGuarded
PROPERTIES ImplementsLexicalScope
CHECK_DEADLOCK FALSE
