SPECIFICATION Spec
CONSTANTS
  m1 = m1
  m2 = m2
  Mods = {m1}
  TimedMethod = "ProcessEvent"
  Delays = {1}
  MaxSimple = 0
  MaxDelayed = 2
  Passed = {2}
  MaxHandles = 2
  MaxNesting = 2
  Notifies = FALSE
INVARIANTS UniqueLiveHandle CollectedOnce
PROPERTIES CancelIsFinal LoopKeepsItsPlace
CHECK_DEADLOCK FALSE
