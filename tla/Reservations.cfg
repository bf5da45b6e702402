SPECIFICATION Spec
CONSTANTS
  zl15 = zl15
  ana = ana
  bea = bea
  csexto = csexto
  emily = emily
  TOURIST = 1
  EXECUTIVE = 7
  Client = {ana, bea, csexto, emily}
  Flight = {zl15}
  Seats <- MCSeats
  Form = {"one", "window", "group"}
  Booking <- MCBooking
  Visit = {"visit"}
  Rows <- MCRows
  MAX_ACTIVE = 2
INVARIANTS
  TypeOK
  NeverUnderReports
  OwnerKeepsIt
  ErrorIsAtACall
PROPERTIES
  SoldOutIsTrue
