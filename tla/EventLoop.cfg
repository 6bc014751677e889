SPECIFICATION LiveSpec
CONSTANTS
  m1 = m1
  m2 = m2
  HotReload = HotReload
  None = None
  Names = {m1}
  Ops = {"uninstallNamed", "start"}
  PerFrame = 1
  MaxRequests = 2
  MaxReloads = 2
  MaxKeys = 1
INVARIANTS IInv ServedInOrder CallbackAlone CallsAreOpen
PROPERTIES RequestsServed ReloadHappens LoopEnds
CHECK_DEADLOCK FALSE
