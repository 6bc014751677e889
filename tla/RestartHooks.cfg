SPECIFICATION Spec
CONSTANTS
  m1 = m1
  m2 = m2
  m3 = m3
  NoMod = NoMod
  Mods = {m1, m2}
  InitialMods = {m1}
  Entries = {"drain", "hook"}
  Events = {"event","endPlay","key"}
  Calls = {"wantActions", "wantEvent"}
  RequestKinds = {"uninstall", "reinstall"}
  KeyKinds = {"reinstall"}
  MaxNesting = 2
  MaxRequests = 1
INVARIANTS IInv TeardownAlone ClosedStateUntouched
 
CHECK_DEADLOCK FALSE
