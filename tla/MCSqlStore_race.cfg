\* two workers, one run of two attempts, contended once
CONSTANTS
  Workers = {w1, w2}
  Nobody = nobody
  NoOrder = no_order
  NoKey = no_key
  Orders <- TwoTries
  Lease = 1
  ReclaimBatch = 1
  MaxRuns = 1
  Limits = {1}
  Spread = 1
  PurgeLimit = 1
  Tries = 2
  Delays = {0}
  MaxNow = 2
SPECIFICATION Spec
INVARIANTS SqlInv
PROPERTIES Lawful CallsEnd
