SPECIFICATION FairSpec
CONSTANTS
  ana = ana
  bea = bea
  Client = {ana, bea}
  Pipelined = {bea}
  Quits = {bea}
  Stream <- MCStream
  Does <- MCDoes
INVARIANTS
  TypeOK
  OnlyWholeRequests
  AnsweredOnceInOrder
  WaitersAreAnswered
PROPERTIES
  ImplementsRemoteCall
  CallsReturn
  ThreadsEnd
CHECK_DEADLOCK FALSE
