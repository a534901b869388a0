\* A process alone.
CONSTANTS
  a = a  b = b  c = c  p = p
  Tasks = {p}
  Threads = {}
  Locks = {}
  Conditions = {}
  Semaphores = {}
  Barriers = {}
  NULL = NULL
  InitValue <- MCInitValue
  Parties <- MCParties
  WaitQueues <- Objects
  MaxSleep = 2
  MaxUnits = 1
  MaxCalls = 1
SPECIFICATION FairSpec
PROPERTIES SleepersWake
CHECK_DEADLOCK FALSE
