SPECIFICATION Spec
CONSTANTS
  m1 = m1
  v1 = v1
  v2 = v2
  None = None
  Mods = {m1}
  Values = {v1, v2}
  OffGrid = {v2}
  OnGrid = v1
  Default = v1
  MaxEdits = 1
  MaxLua = 3
INVARIANT NoLockCycle
CHECK_DEADLOCK FALSE
