SPECIFICATION Spec
CONSTANTS
  zl15 = zl15
  ana = ana
  bea = bea
  csexto = csexto
  emily = emily
  TOURIST = 2
  EXECUTIVE = 2
  Client = {ana, bea, csexto, emily}
  Flight = {zl15}
  Seats <- MCSeats
  Form = {"one", "exec", "group", "pair", "typo"}
  Booking <- MCBooking
  Visit = {"visit"}
  Rows <- MCRows
  MAX_ACTIVE = 1
INVARIANTS
  NeverOversold
