\* one worker, two runs that differ in their attempts, batches of one
CONSTANTS
  Workers = {w1}
  Nobody = nobody
  NoOrder = no_order
  NoKey = no_key
  Orders <- OneAndTwo
  Lease = 1
  ReclaimBatch = 1
  MaxRuns = 2
  Limits = {2}
  Spread = 1
  PurgeLimit = 1
  Tries = 1
  Delays = {0}
  MaxNow = 2
SPECIFICATION Spec
INVARIANTS RunningIsAnswered
PROPERTIES Lawful
