SPECIFICATION Spec
CONSTANTS
  ana23 = ana23
  juan87 = juan87
  laura = laura
  Nick <- MCNick
  PromoName = {"verano"}
  Amount = {0, 1, 2}
  Sessions <- MCSessions
  NOBODY = NOBODY
INVARIANTS
  TypeOK
  StockIsConserved
  ListedIsMarked
  OnlyOwnCodeCollides
  SummaryIsOwn
  SubscribersAreNotified
  MapsAgree
  NullNeedsAMiss
SYMMETRY NickSymmetry
CHECK_DEADLOCK FALSE
