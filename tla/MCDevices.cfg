\* Each of the programs alone, on a small instance of its own.
CONSTANTS
  Routers = {1, 2, 3}
  Links <- MCLinks
  MaxTtl = 3
  Starts <- MCStarts
  Nodes = {1, 2, 3, 4}
  Addresses = {"a", "b", "own", "far"}
  Own = "own"
  Live = {"a"}
  next_hop <- MCNextHop
  NO_ROUTE = "none"
  Arriving <- MCArriving
  Updates <- MCUpdates
  ARP_REQUEST_MAX_RETRIES = 2
  Hosts = {1, 2}
  Servers = {11, 12}
  NAT_PORT_MAX = 1
  Mappings = {1, 2}
  Macs = {1, 2, 3, 4}
  location <- MCLocation
  hash8 <- MCHash
  Width = 8
  MemoryWords = 8
  Registers <- MCRegisters
  JumpRegion = 64
  decode <- MCDecode
  BitOr <- MCBitOr
  Images <- MCImages
  FINISH = 3
SPECIFICATION Spec
INVARIANTS MospfTypeOK NumbersTellAge FloodReachesAll RoutesGetNearer PacketsAccounted
   PortsUnique FramesReachTheirHost TopTypeOK ResultIsTrue
PROPERTIES NewsNeverOlder EveryPacketLeaves CpuImplementsIsa
CHECK_DEADLOCK FALSE
