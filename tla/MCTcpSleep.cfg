\* One unit of data, under fairness.
CONSTANTS
  Client = Client  Server = Server
  ISS <- MCISS
  Units = 1
  Window = 2
  MSS = 1
  MaxTries = 1
SPECIFICATION FairSpec
PROPERTY CallsReturn
CHECK_DEADLOCK FALSE
