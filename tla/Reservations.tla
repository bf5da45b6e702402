---------------------------- MODULE Reservations ----------------------------
(***************************************************************************)
(* Booking seats in the airline's web application (Tarea2-serverSide2).    *)
(* Every HTTP request runs in a thread of the servlet container over the   *)
(* same objects, and nothing is synchronized: the counters of a Vuelo and  *)
(* the ArrayLists of reservations are read and written by whoever comes.   *)
(* Two kinds of request book: a client's form (MostrarVueloServlet), and   *)
(* a visit of the home page, which loads the rows of 2024Reservas.csv      *)
(* again every time (Home, CargarDatos). Both come down to a sequence of   *)
(* calls of ControladorRutaDeVuelo.                                        *)
(***************************************************************************)
EXTENDS Integers, Sequences, FiniteSets, FiniteSetsExt

CONSTANTS
  Client,
  Flight,
  Seats,        \* Seats[f][c]: asientosTurista and asientosEjecutivo of flight f
  Form,         \* posts of the reservation form
  Booking,      \* Booking[r]: what form r asks for
  Visit,        \* visits of the home page
  Rows,         \* the rows of 2024Reservas.csv, a sequence of bookings
  MAX_ACTIVE    \* requests the container serves at the same time

Class   == {"turista", "ejecutivo"}
Request == Form \cup Visit

\* ok: the data pass the checks that do not depend on the reservations (names
\* made of letters, a date not before the flight was added, a number of bags)
BookingType ==
  [client : Client, flight : Flight, class : Class, persons : Nat \ {0}, ok : BOOLEAN]

ASSUME ReservationsAssumption ==
  /\ Client \cap Flight = {}
  /\ Seats \in [Flight -> [Class -> Nat]]
  /\ Form \cap Visit = {}
  /\ Booking \in [Form -> BookingType]
  /\ Rows \in Seq(BookingType) /\ Rows # <<>>
  /\ IsFiniteSet(Request)
  /\ MAX_ACTIVE \in Nat \ {0}

(***************************************************************************)
(* The calls a request makes, one after the other. The form for one person *)
(* calls ingresarDatosVuelo once. The form for n calls ingresarNombres     *)
(* INSIDE the loop that collects the names: for 2 persons, then for 3, up  *)
(* to n. A visit makes one call per row.                                   *)
(***************************************************************************)
Calls(r) ==
  IF r \in Visit THEN Rows
  ELSE IF Booking[r].persons = 1 THEN <<Booking[r]>>
  ELSE [i \in 1 .. Booking[r].persons - 1 |-> [Booking[r] EXCEPT !.persons = i + 1]]

VARIABLES
  available,   \* available[f][c]: asientosTuristaDisponibles, ...EjecutivoDisponibles
  list,        \* list[l]: the reservations in the ArrayList of flight or client l
  hole,        \* hole[l]: a race has left a null inside the ArrayList of l
  pc,          \* pc[r]: where request r stands
  at,          \* at[r]: the call it is making
  seen,        \* seen[r]: what the list held when r began to add to it
  overtaken,   \* requests reading a list that was added to since
  copy,        \* copy[r]: the counter as r has read it
  answer,      \* answer[r]: what the client has been told
  \* history, of each class of each flight: what has been taken off for ever
  sold,        \* sold[f][c]: the persons who got a seat
  groups       \* groups[f][c]: the bookings of several persons

books == <<sold, groups>>
vars  == <<available, list, hole, pc, at, seen, overtaken, copy, answer, books>>

\* the reservations there can be: <<r, i>> is made by the i-th call of r
Reservation == UNION {{r} \X DOMAIN Calls(r) : r \in Request}

Call(r)   == Calls(r)[at[r]]
This(r)   == <<r, at[r]>>
Owner(b)  == Calls(b[1])[b[2]].client
Place(b)  == Calls(b[1])[b[2]].flight
Single(r) == Call(r).persons = 1

\* the list r is adding to: first the flight's, then the client's
Target(r) == IF pc[r] \in {"append", "store"} THEN Call(r).flight ELSE Call(r).client

\* the seats the call takes off: numPasaje, which has gone one past the last
\* ticket of a group, or 1
SeatsOfCall(r) == IF Single(r) THEN 1 ELSE Call(r).persons + 1

Working == {"check", "iterate", "append", "store", "read", "write", "own", "link"}
Active  == {r \in Request : pc[r] \in Working}

-----------------------------------------------------------------------------
Init ==
  /\ available = Seats
  /\ list = [l \in Flight \cup Client |-> {}]
  /\ hole = [l \in Flight \cup Client |-> FALSE]
  /\ pc = [r \in Request |-> "fresh"]
  /\ at = [r \in Request |-> 1]
  /\ seen = [r \in Request |-> {}]
  /\ overtaken = {}
  /\ copy = [r \in Request |-> 0]
  /\ answer = [r \in Request |-> "none"]
  /\ sold = [f \in Flight |-> [c \in Class |-> 0]]
  /\ groups = [f \in Flight |-> [c \in Class |-> 0]]

Answer(r, a) ==
  /\ pc' = [pc EXCEPT ![r] = "answered"]
  /\ answer' = [answer EXCEPT ![r] = a]
  /\ UNCHANGED at

\* Fault: the end of the sequence is not noticed
NextCallAlways(r) ==
  /\ pc' = [pc EXCEPT ![r] = "check"]
  /\ at' = [at EXCEPT ![r] = @ + 1]
  /\ UNCHANGED answer

\* the call is over: the next one, or the page that confirms
NextCall(r) ==
  \/ /\ at[r] < Len(Calls(r))
     /\ pc' = [pc EXCEPT ![r] = "check"]
     /\ at' = [at EXCEPT ![r] = @ + 1]
     /\ UNCHANGED answer
  \/ /\ at[r] = Len(Calls(r))
     /\ Answer(r, "confirmed")

\* MostrarVuelo.jsp shows the form to a client without a reservation on the flight
View(r) ==
  /\ r \in Form
  /\ pc[r] = "fresh"
  /\ LET f == Booking[r].flight IN
       /\ ~hole[f]
       /\ \A b \in list[f] : Owner(b) # Booking[r].client
  /\ pc' = [pc EXCEPT ![r] = "form"]
  /\ UNCHANGED <<available, list, hole, at, seen, overtaken, copy, answer, books>>

\* The client sends the form, or opens the home page.
Start(r) ==
  /\ pc[r] = IF r \in Form THEN "form" ELSE "fresh"
  /\ Cardinality(Active) < MAX_ACTIVE
  /\ pc' = [pc EXCEPT ![r] = "check"]
  /\ UNCHANGED <<available, list, hole, at, seen, overtaken, copy, answer, books>>

\* Fault: the last seat is not given away
SoldOutAtLast(r) == available[Call(r).flight][Call(r).class] =< Call(r).persons

\* Fault: off by one at zero
SoldOutBelowZero(r) == available[Call(r).flight][Call(r).class] < Call(r).persons - 1

\* AsientosInsuficientesException: a single seat is refused at zero, no other
\* number of seats left, a negative one included; a group when they are too few
SoldOut(r) ==
  LET left == available[Call(r).flight][Call(r).class] IN
  IF Single(r) THEN left = 0 ELSE left < Call(r).persons

\* A call refused with an exception ends a form with its message; the loader
\* of a visit catches it and takes the next row.
Refuse(r) ==
  /\ pc[r] = "check"
  /\ ~Call(r).ok \/ SoldOut(r)
  /\ IF r \in Form THEN Answer(r, "error") ELSE NextCall(r)
  /\ UNCHANGED <<available, list, hole, seen, overtaken, copy, books>>

\* ingresarNombres in tourist class: the call of crearReservaConPasajeros is
\* inside the else of the test of the class, so nothing more is done.
PassOver(r) ==
  /\ pc[r] = "check"
  /\ Call(r).ok /\ ~SoldOut(r)
  /\ ~Single(r) /\ Call(r).class = "turista"
  /\ NextCall(r)
  /\ UNCHANGED <<available, list, hole, seen, overtaken, copy, books>>

\* the other calls go on to make the reservation; crearReservaYPasaje, for one
\* person, first copies the reservations of the flight (vuelo.getReservas)
Accept(r) ==
  /\ pc[r] = "check"
  /\ Call(r).ok /\ ~SoldOut(r)
  /\ Single(r) \/ Call(r).class = "ejecutivo"
  /\ pc' = [pc EXCEPT ![r] = IF Single(r) THEN "iterate" ELSE "append"]
  /\ UNCHANGED <<available, list, hole, at, seen, overtaken, copy, answer, books>>

Copied(r) ==
  /\ pc[r] = "iterate"
  /\ ~hole[Call(r).flight]
  /\ pc' = [pc EXCEPT ![r] = "append"]
  /\ overtaken' = overtaken \ {r}
  /\ UNCHANGED <<available, list, hole, at, seen, copy, answer, books>>

\* ConcurrentModificationException, when the list was added to meanwhile, or
\* NullPointerException: neither is caught before the servlet
CopyFails(r) ==
  /\ pc[r] = "iterate"
  /\ hole[Call(r).flight] \/ (r \in overtaken /\ list[Call(r).flight] # {})
  /\ Answer(r, "error")
  /\ overtaken' = overtaken \ {r}
  /\ UNCHANGED <<available, list, hole, seen, copy, books>>

(***************************************************************************)
(* ArrayList.add reads the size and writes the element and the new size.   *)
(* An add that ends after others began later may overwrite what they put   *)
(* there, lose its own element or both, and leave a null where theirs was. *)
(* It may also find the size beyond the array it has read. The capacity of *)
(* the array is abstracted: where any of this can happen, it may.          *)
(***************************************************************************)
BeginAdd(r) ==
  /\ pc[r] \in {"append", "own"}
  /\ pc' = [pc EXCEPT ![r] = IF @ = "append" THEN "store" ELSE "link"]
  /\ seen' = [seen EXCEPT ![r] = list[Target(r)]]
  /\ overtaken' = overtaken \cup
       {s \in Request : pc[s] = "iterate" /\ Call(s).flight = Target(r)}
  /\ UNCHANGED <<available, list, hole, at, copy, answer, books>>

\* Fault: an add may lose what was there before it began
MayLoseAll(r) == SUBSET list[Target(r)]

\* the sets of elements the end of r's add may lose
MayLose(r) ==
  LET later == list[Target(r)] \ seen[r] IN
  IF later = {} THEN {{}} ELSE SUBSET (later \cup {This(r)})

\* Fault: the seats are tested again after the flight's list has changed
EndAddThenTest(r) ==
  /\ pc[r] \in {"store", "link"}
  /\ list' = [list EXCEPT ![Target(r)] = @ \cup {This(r)}]
  /\ IF pc[r] = "link" THEN NextCall(r)
     ELSE IF SoldOut(r) THEN Answer(r, "error")
     ELSE pc' = [pc EXCEPT ![r] = "read"] /\ UNCHANGED <<at, answer>>
  /\ seen' = [seen EXCEPT ![r] = {}]
  /\ UNCHANGED <<available, hole, overtaken, copy, books>>

EndAdd(r) ==
  /\ pc[r] \in {"store", "link"}
  /\ \E lost \in MayLose(r) :
       /\ list' = [list EXCEPT ![Target(r)] = (@ \cup {This(r)}) \ lost]
       /\ \E h \in IF lost = {} THEN {hole[Target(r)]} ELSE BOOLEAN :
            hole' = [hole EXCEPT ![Target(r)] = h]
  /\ seen' = [seen EXCEPT ![r] = {}]
  /\ IF pc[r] = "store"
     THEN /\ pc' = [pc EXCEPT ![r] = "read"]
          /\ UNCHANGED <<at, answer>>
     ELSE NextCall(r)
  /\ UNCHANGED <<available, overtaken, copy, books>>

\* ArrayIndexOutOfBoundsException: others have added since, and the array is the
\* old one. Nobody catches it before the servlet, and nothing is undone: in the
\* account's add, the flight's list and counter have changed already.
AddFails(r) ==
  /\ pc[r] \in {"store", "link"}
  /\ list[Target(r)] \ seen[r] # {}
  /\ Answer(r, "error")
  /\ seen' = [seen EXCEPT ![r] = {}]
  /\ UNCHANGED <<available, list, hole, overtaken, copy, books>>

\* asientos...Disponibles -= cantPasajeros, a read and a write
ReadCounter(r) ==
  /\ pc[r] = "read"
  /\ copy' = [copy EXCEPT ![r] = available[Call(r).flight][Call(r).class]]
  /\ pc' = [pc EXCEPT ![r] = "write"]
  /\ UNCHANGED <<available, list, hole, at, seen, overtaken, answer, books>>

\* the history of the call: its persons have seats, and a group took off one more
EnterSeats(r) ==
  LET f == Call(r).flight
      c == Call(r).class
  IN  /\ sold' = [sold EXCEPT ![f][c] = @ + Call(r).persons]
      /\ groups' = [groups EXCEPT ![f][c] = @ + IF Single(r) THEN 0 ELSE 1]

\* Fault: both counters of the flight lose the seats
WriteCounterOfBoth(r) ==
  /\ pc[r] = "write"
  /\ available' = [available EXCEPT
       ![Call(r).flight] = [c \in Class |-> copy[r] - SeatsOfCall(r)]]
  /\ EnterSeats(r)
  /\ pc' = [pc EXCEPT ![r] = "own"]
  /\ UNCHANGED <<list, hole, at, seen, overtaken, copy, answer>>

\* Fault: the account of the client is forgotten
WriteCounterLast(r) ==
  /\ pc[r] = "write"
  /\ available' = [available EXCEPT
       ![Call(r).flight][Call(r).class] = copy[r] - SeatsOfCall(r)]
  /\ EnterSeats(r)
  /\ NextCall(r)
  /\ UNCHANGED <<list, hole, seen, overtaken, copy>>

WriteCounter(r) ==
  /\ pc[r] = "write"
  /\ available' = [available EXCEPT
       ![Call(r).flight][Call(r).class] = copy[r] - SeatsOfCall(r)]
  /\ EnterSeats(r)
  /\ pc' = [pc EXCEPT ![r] = "own"]
  /\ UNCHANGED <<list, hole, at, seen, overtaken, copy, answer>>

Step(r) ==
  \/ View(r) \/ Start(r)
  \/ Refuse(r) \/ PassOver(r) \/ Accept(r)
  \/ Copied(r) \/ CopyFails(r)
  \/ BeginAdd(r) \/ EndAdd(r) \/ AddFails(r)
  \/ ReadCounter(r) \/ WriteCounter(r)

\* nobody is being served: clients may come back, or not
Rest == Active = {} /\ UNCHANGED vars

Next == (\E r \in Request : Step(r)) \/ Rest

Spec == Init /\ [][Next]_vars

-----------------------------------------------------------------------------
(***************************************************************************)
(* Properties.                                                             *)
(***************************************************************************)
\* Every variable has its type.
TypeOK ==
  /\ available \in [Flight -> [Class -> Int]]
  /\ list \in [Flight \cup Client -> SUBSET Reservation]
  /\ hole \in [Flight \cup Client -> BOOLEAN]
  /\ pc \in [Request -> {"fresh", "form", "answered"} \cup Working]
  /\ DOMAIN at = Request /\ \A r \in Request : at[r] \in DOMAIN Calls(r)
  /\ seen \in [Request -> SUBSET Reservation]
  /\ overtaken \subseteq Request
  /\ copy \in [Request -> Int]
  /\ answer \in [Request -> {"none", "confirmed", "error"}]
  /\ sold \in [Flight -> [Class -> Nat]] /\ groups \in [Flight -> [Class -> Nat]]

\* what has been taken off, one seat too many for every group included
TakenOff(f, c) == sold[f][c] + groups[f][c]

\* The counters are updated without a lock, and what is lost is lost on one side
\* only: a counter never shows less than the seats less what has been taken off.
NeverUnderReports ==
  \A f \in Flight, c \in Class : available[f][c] >= Seats[f][c] - TakenOff(f, c)

\* A call is refused for want of seats only when the seats nobody has are too few,
\* whatever other requests were doing to the counter. In executive class as many
\* seats as groups have booked may be empty and refused (a group takes off one too
\* many); in tourist class none is.
SoldOutIsTrue ==
  [][\A r \in Request :
       (Refuse(r) /\ Call(r).ok) =>
         LET f == Call(r).flight
             c == Call(r).class
             left == Seats[f][c] - sold[f][c]
         IN  IF c = "turista" THEN left < Call(r).persons
             ELSE left < Call(r).persons + groups[f][c]]_vars

\* the calls of r that make a reservation when they are not refused
Booked(r) ==
  {i \in DOMAIN Calls(r) : Calls(r)[i].persons = 1 \/ Calls(r)[i].class = "ejecutivo"}

OnlyOneFor(r) ==
  \A s \in Request \ {r} : \A i \in DOMAIN Calls(s) : Calls(s)[i].client # Booking[r].client

\* A client who was told that the reservation is made finds it in the account,
\* also when the list of the flight has lost it to another client's (one window
\* per client: two requests of one client race for the account as well).
OwnerKeepsIt ==
  \A r \in Form :
    (answer[r] = "confirmed" /\ OnlyOneFor(r)) =>
      \A i \in Booked(r) : <<r, i>> \in list[Booking[r].client]

\* A form that ends with an error has made every call before the failing one
\* whole, the account included. Of the failing one no list has a trace (exceptions
\* come before the first change), but for the flight's list when the client has
\* other windows: their race for the account may fail after the seats are taken.
ErrorIsAtACall ==
  \A r \in Form :
    answer[r] = "error" =>
      /\ \A l \in Flight \cup Client, i \in DOMAIN Calls(r) :
           <<r, i>> \in list[l] =>
             i < at[r] \/ (i = at[r] /\ l = Booking[r].flight /\ ~OnlyOneFor(r))
      /\ OnlyOneFor(r) =>
           \A i \in Booked(r) : i < at[r] => <<r, i>> \in list[Booking[r].client]

\* One request at a time, the books balance whenever nobody is being served:
\* the counters show the seats less what the reservations in the flight's list
\* took off, and the accounts hold the same reservations as the flights.
Persons(b)    == Calls(b[1])[b[2]].persons
SeatsTaken(b) == IF Persons(b) = 1 THEN 1 ELSE Persons(b) + 1

BooksBalance ==
  Active = {} =>
    /\ \A f \in Flight, c \in Class :
         available[f][c] = Seats[f][c] -
           MapThenSumSet(SeatsTaken, {b \in list[f] : Calls(b[1])[b[2]].class = c})
    /\ UNION {list[f] : f \in Flight} = UNION {list[k] : k \in Client}

\* One request at a time, tourist seats are sold as SeatSale says: never one
\* that is not there. (A reservation holds its seat once the counter is written.)
Held(f) ==
  {b \in list[f] : /\ Calls(b[1])[b[2]].class = "turista"
                   /\ ~(pc[b[1]] \in {"read", "write"} /\ at[b[1]] = b[2])}

Sale == INSTANCE SeatSale WITH
  Seats <- [f \in Flight |-> Seats[f]["turista"]],
  free <- [f \in Flight |-> available[f]["turista"]],
  holders <- [f \in Flight |-> Held(f)]

TouristSeatsAreSoldOnce == Sale!Spec

-----------------------------------------------------------------------------
(***************************************************************************)
(* What the code says and does not do.                                     *)
(***************************************************************************)
\* MostrarVueloServlet.java:112: "Reserva realizada con éxito". A group in
\* tourist class is told so, and no reservation has been made.
ConfirmedIsReserved ==
  \A r \in Form :
    answer[r] = "confirmed" => \E i \in DOMAIN Calls(r) : <<r, i>> \in list[Booking[r].client]

\* ControladorRutaDeVuelo.java:287-289: the class is closed when no seat is
\* left. A group takes off one seat too many, the counter jumps over zero, and
\* from then on no single seat is refused, one request at a time.
NeverOversold ==
  \A f \in Flight, c \in Class :
    MapThenSumSet(Persons, {b \in list[f] : Calls(b[1])[b[2]].class = c}) =< Seats[f][c]
=============================================================================
