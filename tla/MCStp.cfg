\* The four-node ring of the exercise, one hello of every bridge.
CONSTANTS
  Bridges = {1, 2, 3, 4}
  Ports <- MCPorts
  Peer <- MCPeer
  MaxHello = 1
SPECIFICATION FairSpec
INVARIANTS StpTypeOK CostsAreReal
PROPERTIES OnlyImproves AgreeOnOneTree
CHECK_DEADLOCK FALSE
