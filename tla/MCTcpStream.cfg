\* Two units of data.
CONSTANTS
  Client = Client  Server = Server
  ISS <- MCISS
  Units = 2
  Window = 3
  MSS = 1
  MaxTries = 1
SPECIFICATION Spec
INVARIANT StreamAlwaysIntact
CHECK_DEADLOCK FALSE
