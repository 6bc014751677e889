SPECIFICATION Spec
CONSTANTS
  m1 = m1
  m2 = m2
  m3 = m3
  NoMod = NoMod
  Mods = {m1, m2, m3}
  InitialMods = {m1, m2}
  Entries = {"drain", "hook"}
  Events = {"event"}
  Calls = {}
  RequestKinds = {"reinstallAll", "start", "autoReload"}
  KeyKinds = {}
  MaxNesting = 1
  MaxRequests = 1
INVARIANT StartAlone
CHECK_DEADLOCK FALSE
