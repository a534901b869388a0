\* Two threads and two locks taken in either order.
CONSTANTS
  a = a  b = b  c = c  p = p
  Tasks = {a, b}
  Threads = {a, b}
  Locks = {l, l2}
  Conditions = {}
  Semaphores = {}
  Barriers = {}
  NULL = NULL
  InitValue <- MCInitValue
  Parties <- MCParties
  WaitQueues <- Objects
  MaxSleep = 2
  MaxUnits = 1
  MaxCalls = 1
SPECIFICATION Spec
INVARIANT NoLockCycle
CHECK_DEADLOCK FALSE
