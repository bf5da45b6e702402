--------------------------- MODULE MCReservations ---------------------------
(***************************************************************************)
(* One flight like ZL15011350 of 2024Vuelos.csv, with few seats; the home  *)
(* page, which loads a row like RE04 (a pair in executive class) and one   *)
(* like RE01 (a tourist seat); another window of the client of these rows, *)
(* who wants a tourist seat as well, or an executive one, so that two      *)
(* requests add to one account; a client who wants one tourist seat; a     *)
(* group of three in executive class, a pair in tourist class, a pair with *)
(* a name that is not accepted.                                            *)
(***************************************************************************)
EXTENDS Reservations

CONSTANTS zl15, ana, bea, csexto, emily, TOURIST, EXECUTIVE

MCSeats == [g \in {zl15} |-> [c \in Class |-> IF c = "turista" THEN TOURIST ELSE EXECUTIVE]]

Wish(k, c, n, o) == [client |-> k, flight |-> zl15, class |-> c, persons |-> n, ok |-> o]

MCBooking == [r \in Form |->
  CASE r = "one"    -> Wish(bea, "turista", 1, TRUE)
    [] r = "window" -> Wish(ana, "turista", 1, TRUE)
    [] r = "exec"   -> Wish(ana, "ejecutivo", 1, TRUE)
    [] r = "group"  -> Wish(csexto, "ejecutivo", 3, TRUE)
    [] r = "pair"   -> Wish(emily, "turista", 2, TRUE)
    [] r = "typo"   -> Wish(emily, "ejecutivo", 2, FALSE)]

MCRows == <<Wish(ana, "ejecutivo", 2, TRUE), Wish(ana, "turista", 1, TRUE)>>
=============================================================================
