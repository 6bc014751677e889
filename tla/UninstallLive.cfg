SPECIFICATION LiveSpec
CONSTANTS
  m1 = m1
  m2 = m2
  m3 = m3
  NoMod = NoMod
  Mods = {m1}
  InitialMods = {m1}
  Entries = {"drain", "hook"}
  Events = {"event", "key"}
  Calls = {"wantActions"}
  RequestKinds = {"uninstall"}
  KeyKinds = {"uninstall"}
  MaxNesting = 2
  MaxRequests = 1
PROPERTY UninstallCompletes
CHECK_DEADLOCK FALSE
