\* init, one producer and two consumers.
CONSTANTS
  P = P  C = C  D = D  nm = nm  init = init
  Tasks = {0, 1, 2, 3}
  Threads = {}
  WaitQueues <- MCQueues
  MaxSleep = 0
  Programs = {init, P, C, D}
  MAX_MBOXEN = 1
  Names = {nm}
  Messages = {x}
  MAX_MBOX_LENGTH = 2
  EMPTY = EMPTY
  May <- MCMay
  Sends <- MCSends
  Recvs <- MCRecvs
  MaxSpawn = 4
  MaxClose = 0
SPECIFICATION Spec
INVARIANT BoxBounded
CHECK_DEADLOCK FALSE
