\* six runs that come due together, the second of them the first with two digits
CONSTANTS
  Workers = {w1}
  Nobody = nobody
  NoOrder = no_order
  NoKey = no_key
  Orders <- Plain
  Lease = 1
  ReclaimBatch = 1
  MaxRuns = 6
  Limits = {1}
  Spread = 5
  PurgeLimit = 1
  Delays = {0}
  Callers = {c1}
  Rewrites = 3
  TextOf <- Decimal
  Evictions = 0
  MaxNow = 0
SPECIFICATION Spec
PROPERTIES OldestFirst
