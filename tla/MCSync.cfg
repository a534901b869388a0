\* Three threads and a process on one object of each kind.
CONSTANTS
  a = a  b = b  c = c  p = p
  Tasks = {a, b, c, p}
  Threads = {a, b, c}
  Locks = {l}
  Conditions = {cv}
  Semaphores = {s}
  Barriers = {bar}
  NULL = NULL
  InitValue <- MCInitValue
  Parties <- MCParties
  WaitQueues <- Objects
  MaxSleep = 1
  MaxUnits = 2
  MaxCalls = 2
SPECIFICATION Spec
INVARIANTS SyncTypeOK TaskPlacement MutualExclusion WaitersHaveReason
  SemaphoreConservation BarrierSeparatesRounds
PROPERTY NoBarging
CHECK_DEADLOCK FALSE
