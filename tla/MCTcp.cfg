\* Five units of data, in segments of one or two, over a window of three; one
\* retransmission.
CONSTANTS
  Client = Client  Server = Server
  ISS <- MCISS
  Units = 5
  Window = 3
  MSS = 2
  MaxTries = 1
SPECIFICATION Spec
INVARIANTS TcpTypeOK StreamIntact AckedIsReceived EndIsComplete AcceptedIsEstablished TeardownAgrees
CHECK_DEADLOCK FALSE
