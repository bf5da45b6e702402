------------------------------ MODULE SeatSale ------------------------------
(***************************************************************************)
(* What the airline promises about one class of seats: a seat is sold to   *)
(* one reservation, and only while there is one left.                      *)
(***************************************************************************)
EXTENDS Naturals

CONSTANTS
  Flight,
  Seats,         \* Seats[f]: the seats of flight f in this class
  Reservation

VARIABLES
  free,          \* free[f]: the seats of f still for sale
  holders        \* holders[f]: the reservations that hold a seat of f

Init ==
  /\ free = [f \in Flight |-> Seats[f]]
  /\ holders = [f \in Flight |-> {}]

Sell(f, b) ==
  /\ free[f] > 0
  /\ \A g \in Flight : b \notin holders[g]
  /\ free' = [free EXCEPT ![f] = @ - 1]
  /\ holders' = [holders EXCEPT ![f] = @ \cup {b}]

Next == \E f \in Flight, b \in Reservation : Sell(f, b)

Spec == Init /\ [][Next]_<<free, holders>>
=============================================================================
