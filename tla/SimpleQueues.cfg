SPECIFICATION LiveSpec
CONSTANTS
  m1 = m1
  m2 = m2
  Mods = {m1, m2}
  TimedMethod = "ProcessEvent"
  Delays = {}
  MaxSimple = 2
  MaxDelayed = 0
  Passed = {}
  MaxHandles = 0
  MaxNesting = 4
  Notifies = TRUE
INVARIANTS TypeOK SimpleRunsOnce GoneModSilent
PROPERTIES ActionServiceSpec SimpleEventuallyRuns
CHECK_DEADLOCK FALSE
