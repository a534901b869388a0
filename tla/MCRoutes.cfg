\* Four routers.
CONSTANTS
  Nodes = {1, 2, 3, 4}
SPECIFICATION Spec
INVARIANT EverySubnetHasARoute
CHECK_DEADLOCK FALSE
