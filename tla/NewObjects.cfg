SPECIFICATION Spec
CONSTANTS
  Base = Base
  Derived = Derived
  Mods = {m1}
  Classes = {Base}
  Chain <- MCFlat
  Slots = {s1, s2}
  NoSlot = NoSlot
  MaxIds = 2
  MaxObjects = 2
  MaxNesting = 2
  MaxRefs = 2
INVARIANTS
  IInv
  OncePerConstruction
  GetsItsObject
  NothingLost
  RefIsOwn
CHECK_DEADLOCK FALSE
SYMMETRY MCSlots
