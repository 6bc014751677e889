SPECIFICATION Spec
CONSTANTS
  m1 = m1
  m2 = m2
  f1 = f1
  f2 = f2
  None = None
  Mods = {m1, m2}
  Functions = {f1, f2}
  NSlots = 2
  MaxRegs = 3
  MaxCalls = 1
INVARIANTS IInv EachStillCalled CallFits NoneLeft
CHECK_DEADLOCK FALSE
