\* init, one producer and one consumer in three slots and a box of two messages.
CONSTANTS
  P = P  C = C  D = D  nm = nm  init = init
  Tasks = {0, 1, 2}
  Threads = {}
  WaitQueues <- MCQueues
  MaxSleep = 1
  Programs = {init, P, C}
  MAX_MBOXEN = 2
  Names = {nm}
  Messages = {x, y}
  MAX_MBOX_LENGTH = 2
  EMPTY = EMPTY
  May <- MCMay
  Sends <- MCSends
  Recvs <- MCRecvs
  MaxSpawn = 4
  MaxClose = 1
SPECIFICATION Spec
INVARIANTS IpcTypeOK TaskPlacement WaitSound HandlesValid NoLostWakeup BoxBounded
PROPERTY DeliversInOrder
CHECK_DEADLOCK FALSE
