SPECIFICATION Spec
CONSTANTS
  Base = Base
  Derived = Derived
  Mods = {m1}
  Classes = {Base}
  Chain <- MCFlat
  Slots = {s1, s2}
  NoSlot = NoSlot
  MaxIds = 1
  MaxObjects = 2
  MaxNesting = 2
  MaxRefs = 4
PROPERTY
  NotCalledAfterCancel
CHECK_DEADLOCK FALSE
