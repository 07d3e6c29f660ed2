\* one worker of one thread, which a handler that never returns takes away, two runs of two attempts,
\* a pruning of one row at a time and an hour that two ticks end
CONSTANTS
  Workers = {w1}
  Nobody = nobody
  NoOrder = no_order
  NoKey = no_key
  Orders <- Jittered
  Lease = 1
  ReclaimBatch = 1
  MaxRuns = 2
  MaxDoublings = 64
  Concurrency = 1
  PurgeLimit = 1
  Keep = 0
  Hour = 2
  Delays = {0}
  Jitter = 100
  Draws = {0, 100}
  MaxCrashes = 1
SPECIFICATION Spec
INVARIANTS RecoveryInv HerdIsBroken
PROPERTIES RunsEnd BacklogDrains HourMeansDone BackOnlyUntried
