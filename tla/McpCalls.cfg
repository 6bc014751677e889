SPECIFICATION LiveSpec
CONSTANTS
  r1 = r1
  r2 = r2
  r3 = r3
  Requests = {r1, r2, r3}
INVARIANTS IInv OrderKept
PROPERTIES ServiceSpec CallsEnd DoneIsDelivered
CHECK_DEADLOCK FALSE
