\* two workers of one slot each, one run of two attempts, of a task both declare or one of them does
CONSTANTS
  Workers = {w1, w2}
  Nobody = nobody
  NoOrder = no_order
  NoKey = no_key
  mail = mail
  report = report
  Orders <- EitherTask
  Serves <- ServesAll
  Declares <- DeclaresMore
  Slots = {s1}
  Lease = 1
  ReclaimBatch = 1
  PurgeLimit = 1
  Keep = 0
  Delays = {0}
  MaxRuns = 1
  MaxNow = 3
SPECIFICATION Spec
INVARIANTS FleetInv WithinPolicy ToldOnce
PROPERTIES EnteredOnce LeaseRespected PromiseKept
