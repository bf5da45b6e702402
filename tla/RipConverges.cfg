SPECIFICATION FairSpec
CONSTANTS
  v1 = v1
  v2 = v2
  v3 = v3
  net = net
  Router = {v1, v2, v3}
  Nobody = Nobody
  INFINITY = 4
  RIP_TIMEOUT = 1
  RIP_GARBAGE_COLLECTION = 1
  Link <- Triangle
  Dest = {net}
  Attached <- AtFirst
  Dist <- TriangleDist
  MAX_FLIGHT = 1
  MAX_CRASHES = 1
  MAX_FAULTS = 0
PROPERTIES
  Converges
