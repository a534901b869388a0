\* Three threads on a lock and its condition, under fairness.
CONSTANTS
  a = a  b = b  c = c  p = p
  Tasks = {a, b, c}
  Threads = {a, b, c}
  Locks = {l}
  Conditions = {cv}
  Semaphores = {}
  Barriers = {}
  NULL = NULL
  InitValue <- MCInitValue
  Parties <- MCParties
  WaitQueues <- Objects
  MaxSleep = 2
  MaxUnits = 1
  MaxCalls = 1
SPECIFICATION FairSpec
PROPERTIES ReadyTasksRun SleepersWake LockGranted
CHECK_DEADLOCK FALSE
