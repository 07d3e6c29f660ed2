SPECIFICATION Spec
CONSTANTS
  Workers = {}
  Nobody = Nobody
  NoOrder = NoOrder
  NoKey = NoKey
  Orders <- SlotOrders
  Lease = 1
  ReclaimBatch = 1
  MaxRuns = 4
  Processes = {p, q}
  Span <- Every2And3
  Keep = 2
  PurgeLimit = 1
  PassLimit = 2
  MaxNow = 3
SYMMETRY Alike
INVARIANTS ScheduleInv SlotWrittenOnce RememberedIsWritten
PROPERTIES NoSlotPassedOver
