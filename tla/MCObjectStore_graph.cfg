SPECIFICATION Spec
CONSTANTS
  a1 = a1 a2 = a2 a3 = a3 a4 = a4 a5 = a5
  v = v w = w e = e g = g l = l m = m s = s t = t u = u
  NULL = NULL
  Addr = {a1, a2, a3, a4}
  Slot <- GraphSlots
  SlotKind <- GraphKinds
  SlotScope <- GraphScopes
  LastScope = 1
  MaxNullRefs = 0
  MaxDropped = 1
  MaxCareless = 1
  FreedCountReadsPositive = FALSE
SYMMETRY AddrSymmetry
INVARIANTS TypeOK ExactCounts OwnedAlive DefinedIfCareful CollectsExactly
CHECK_DEADLOCK FALSE
