SPECIFICATION Spec
CONSTANTS
  a1 = a1 a2 = a2 a3 = a3 a4 = a4 a5 = a5
  v = v w = w e = e g = g l = l m = m s = s t = t u = u
  NULL = NULL
  Addr = {a1, a2, a3}
  Slot <- ListSlots
  SlotKind <- ListKinds
  SlotScope <- ListScopes
  LastScope = 1
  MaxNullRefs = 1
  MaxDropped = 2
  MaxCareless = 0
  FreedCountReadsPositive = TRUE
SYMMETRY AddrSymmetry
INVARIANT DefinedIfCareful
CHECK_DEADLOCK FALSE
