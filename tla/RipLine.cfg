SPECIFICATION Spec
CONSTANTS
  v1 = v1
  v2 = v2
  v3 = v3
  net = net
  Router = {v1, v2, v3}
  Nobody = Nobody
  INFINITY = 6
  RIP_TIMEOUT = 1
  RIP_GARBAGE_COLLECTION = 1
  Link <- Line
  Dest = {net}
  Attached <- AtFirst
  Dist <- LineDist
  MAX_FLIGHT = 2
  MAX_CRASHES = 1
  MAX_FAULTS = 1
INVARIANTS
  NeverCounts
