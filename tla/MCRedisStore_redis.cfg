\* one worker and a caller, a keyed run and an urgent one in another queue, ids whose text is not in their order
CONSTANTS
  Workers = {w1}
  Nobody = nobody
  NoOrder = no_order
  NoKey = no_key
  Orders <- KeyedAndUrgent
  Lease = 1
  ReclaimBatch = 1
  MaxRuns = 2
  Limits = {1}
  Spread = 1
  PurgeLimit = 1
  Delays = {0}
  Callers = {c1}
  Rewrites = 2
  TextOf <- Decimal
  Evictions = 1
  MaxNow = 2
SPECIFICATION Spec
INVARIANTS Indexed OnceAnswers RedisInv
PROPERTIES LawfulOrEvicted UrgentFirst
