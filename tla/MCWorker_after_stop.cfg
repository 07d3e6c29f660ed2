SPECIFICATION Spec
CONSTANTS
  a1 = a1
  a2 = a2
  a3 = a3
  a4 = a4
  a5 = a5
  Attempts = {a1, a2, a3}
  Plain = {a1, a2}
  Timed = {a1, a3}
  Declared = {a1, a2}
  Concurrency = 2
PROPERTIES NothingClaimedAfterStop
CHECK_DEADLOCK FALSE
