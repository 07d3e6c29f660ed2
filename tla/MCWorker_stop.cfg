\* three plain handlers, one of them with no timeout, a coroutine, and a task the worker does not declare
SPECIFICATION Spec
CONSTANTS
  a1 = a1
  a2 = a2
  a3 = a3
  a4 = a4
  a5 = a5
  Attempts = {a1, a2, a3, a4, a5}
  Plain = {a1, a2, a3}
  Timed = {a1, a2, a4}
  Declared = {a1, a2, a3, a4}
  Concurrency = 2
INVARIANTS WorkerInv ThreadForEveryRun StrandedAreCounted GivenBackUntried
PROPERTIES StopEnds TimeoutFreesSlot
CHECK_DEADLOCK FALSE
