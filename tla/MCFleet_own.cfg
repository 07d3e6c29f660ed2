\* one worker of two slots that meets its own expired lease, one run of two attempts, of the task it declares or of another
CONSTANTS
  Workers = {w1}
  Nobody = nobody
  NoOrder = no_order
  NoKey = no_key
  mail = mail
  report = report
  Orders <- EitherTask
  Serves <- ServesAll
  Declares <- DeclaresOne
  Slots = {s1, s2}
  Lease = 1
  ReclaimBatch = 1
  PurgeLimit = 1
  Keep = 0
  Delays = {0}
  MaxRuns = 1
  MaxNow = 4
SYMMETRY Alike
SPECIFICATION Spec
INVARIANTS OneHolder WithinPolicy
PROPERTIES EnteredOnce SettledStands Lawful
