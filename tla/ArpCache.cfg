SPECIFICATION FairSpec
CONSTANTS
  m = m
  n = n
  om = om
  on = on
  p1 = p1
  p2 = p2
  None = None
  Neighbour = {m, n}
  Own = {om, on}
  OwnOf <- MCOwnOf
  Pkt = {p1, p2}
  NextHop <- MCNextHop
  BackHop <- MCBackHop
  Req = {1, 2, 3, 4, 5}
  SR_ARPCACHE_SZ = 1
  MAX_SENDS = 3
INVARIANTS
  TypeOK
  OneRequestPerAddress
  PendingIsQueued
  GiveUpAfterAllProbes
  SweepRequestsAreLinked
PROPERTIES
  KeepsPromise
  QueueDrains
