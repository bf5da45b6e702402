SPECIFICATION FairSpec
CONSTANTS
  NUM_IF = 1
  Prefix <- MCPrefix
  Length <- MCLength
  Address <- MCAddress
  Covers <- MCCovers
  NetOf <- MCNetOf
  FileRow <- MCFileRow
  Learnable <- MCLearnable
  COPIES = 2
  RIP_TIMEOUT = 0
  RIP_GARBAGE_COLLECTION = 0
  MAX_LATE = 1
INVARIANTS
  TypeOK
  NoStayingRowMissed
  DirectRoutesStay
PROPERTIES
  FreedWasDead
  MainComesBack
CHECK_DEADLOCK FALSE
