------------------------- MODULE ReservationsProofs -------------------------
(***************************************************************************)
(* Proofs about Reservations, for any clients, flights, seats, forms and   *)
(* visits. The first part bounds the counters under every interleaving,    *)
(* the second follows one reservation through the lists, the third shows   *)
(* that one request at a time sells tourist seats as SeatSale does.        *)
(***************************************************************************)
EXTENDS Reservations, FiniteSetTheorems, SequenceTheorems, TLAPS

\* Every request makes one call at least, and each of them is a booking.
LEMMA CallsAreBookings ==
  ASSUME NEW r \in Request
  PROVE  /\ Calls(r) \in Seq(BookingType)
         /\ Len(Calls(r)) \in Nat \ {0}
         /\ DOMAIN Calls(r) = 1 .. Len(Calls(r))
<1>1. CASE r \in Visit
  <2>1. Rows \in Seq(BookingType) /\ Rows # <<>> BY ReservationsAssumption
  <2>2. Len(Rows) \in Nat /\ Len(Rows) # 0 /\ DOMAIN Rows = 1 .. Len(Rows)
    BY <2>1, EmptySeq, LenProperties
  <2> QED BY <1>1, <2>1, <2>2 DEF Calls
<1>2. CASE r \notin Visit /\ Booking[r].persons = 1
  <2>1. Booking[r] \in BookingType
    BY <1>2, ReservationsAssumption DEF Request
  <2>2. Calls(r) = <<Booking[r]>> BY <1>2 DEF Calls
  <2> QED BY <2>1, <2>2
<1>3. CASE r \notin Visit /\ Booking[r].persons # 1
  <2> DEFINE n == Booking[r].persons - 1
             b(i) == [Booking[r] EXCEPT !.persons = i + 1]
  <2>1. Booking[r] \in BookingType
    BY <1>3, ReservationsAssumption DEF Request
  <2>2. n \in Nat \ {0} BY <1>3, <2>1 DEF BookingType
  <2>3. \A i \in 1 .. n : b(i) \in BookingType BY <2>1, <2>2 DEF BookingType
  <2>4. Calls(r) = [i \in 1 .. n |-> b(i)] BY <1>3 DEF Calls
  <2> HIDE DEF n, b
  <2>5. Calls(r) \in [1 .. n -> BookingType] BY <2>3, <2>4
  <2>6. Calls(r) \in Seq(BookingType) BY <2>2, <2>5, SeqDef
  <2>7. Len(Calls(r)) = n /\ DOMAIN Calls(r) = 1 .. n BY <2>2, <2>5, <2>6, LenProperties
  <2> QED BY <2>2, <2>6, <2>7
<1> QED BY <1>1, <1>2, <1>3

LEMMA CallFacts ==
  ASSUME TypeOK, NEW r \in Request
  PROVE  /\ Call(r) \in BookingType
         /\ Call(r).client \in Client /\ Call(r).flight \in Flight /\ Call(r).class \in Class
         /\ Call(r).persons \in Nat \ {0}
         /\ Target(r) \in Flight \cup Client
         /\ This(r) \in Reservation
         /\ SeatsOfCall(r) \in Nat
         /\ at[r] \in 1 .. Len(Calls(r)) /\ Len(Calls(r)) \in Nat \ {0}
<1>1. at[r] \in DOMAIN Calls(r) BY DEF TypeOK
<1>2. Call(r) \in BookingType BY <1>1, CallsAreBookings, ElementOfSeq DEF Call
<1>3. /\ Call(r).client \in Client /\ Call(r).flight \in Flight /\ Call(r).class \in Class
      /\ Call(r).persons \in Nat \ {0}
  BY <1>2 DEF BookingType
<1>4. Target(r) \in Flight \cup Client BY <1>3 DEF Target
<1>5. This(r) \in Reservation BY <1>1 DEF This, Reservation
<1>6. SeatsOfCall(r) \in Nat BY <1>3 DEF SeatsOfCall
<1> QED BY <1>1, <1>2, <1>3, <1>4, <1>5, <1>6, CallsAreBookings

LEMMA FormClient ==
  ASSUME NEW r \in Form, NEW i \in DOMAIN Calls(r)
  PROVE  Calls(r)[i].client = Booking[r].client /\ Calls(r)[i].flight = Booking[r].flight
<1>1. r \notin Visit BY ReservationsAssumption
<1>2. Booking[r] \in BookingType BY ReservationsAssumption
<1>3. CASE Booking[r].persons = 1
  <2>1. Calls(r) = <<Booking[r]>> BY <1>1, <1>3 DEF Calls
  <2> QED BY <2>1
<1>4. CASE Booking[r].persons # 1
  <2>1. Calls(r) = [j \in 1 .. Booking[r].persons - 1 |-> [Booking[r] EXCEPT !.persons = j + 1]]
    BY <1>1, <1>4 DEF Calls
  <2> QED BY <1>2, <2>1 DEF BookingType
<1> QED BY <1>3, <1>4

LEMMA NextCallType ==
  ASSUME TypeOK, NEW r \in Request, NextCall(r)
  PROVE  /\ pc' \in [Request -> {"fresh", "form", "answered"} \cup Working]
         /\ DOMAIN at' = Request /\ \A s \in Request : at'[s] \in DOMAIN Calls(s)
         /\ answer' \in [Request -> {"none", "confirmed", "error"}]
<1>1. CASE at[r] < Len(Calls(r)) /\ pc' = [pc EXCEPT ![r] = "check"]
           /\ at' = [at EXCEPT ![r] = @ + 1] /\ UNCHANGED answer
  <2>1. at[r] + 1 \in DOMAIN Calls(r) BY <1>1, CallFacts, CallsAreBookings
  <2> QED BY <1>1, <2>1 DEF TypeOK, Working
<1>2. CASE Answer(r, "confirmed")
  BY <1>2 DEF Answer, TypeOK
<1> QED BY <1>1, <1>2 DEF NextCall

LEMMA AnswerType ==
  ASSUME TypeOK, NEW r \in Request, Answer(r, "error")
  PROVE  /\ pc' \in [Request -> {"fresh", "form", "answered"} \cup Working]
         /\ DOMAIN at' = Request /\ \A s \in Request : at'[s] \in DOMAIN Calls(s)
         /\ answer' \in [Request -> {"none", "confirmed", "error"}]
BY DEF Answer, TypeOK

LEMMA InitType == Init => TypeOK
<1> SUFFICES ASSUME Init PROVE TypeOK OBVIOUS
<1>1. available \in [Flight -> [Class -> Int]]
  BY ReservationsAssumption DEF Init
<1>2. \A r \in Request : at[r] \in DOMAIN Calls(r)
  BY CallsAreBookings DEF Init
<1> QED BY <1>1, <1>2 DEF Init, TypeOK, Working

\* What TakenOff counts: the seats a call takes off are its persons, and one more
\* for a group.
LEMMA EnteredSeats ==
  ASSUME TypeOK, NEW r \in Request, EnterSeats(r), NEW f \in Flight, NEW c \in Class
  PROVE  /\ TakenOff(f, c) \in Nat
         /\ TakenOff(f, c)' = TakenOff(f, c) +
              IF f = Call(r).flight /\ c = Call(r).class THEN SeatsOfCall(r) ELSE 0
<1>1. sold[f][c] \in Nat /\ groups[f][c] \in Nat BY DEF TypeOK
<1>2. CASE f = Call(r).flight /\ c = Call(r).class
  <2>1. /\ sold'[f][c] = sold[f][c] + Call(r).persons
        /\ groups'[f][c] = groups[f][c] + IF Single(r) THEN 0 ELSE 1
    BY <1>2 DEF EnterSeats, TypeOK
  <2> QED BY <1>1, <1>2, <2>1, CallFacts DEF TakenOff, SeatsOfCall, Single
<1>3. CASE ~(f = Call(r).flight /\ c = Call(r).class)
  <2>1. sold'[f][c] = sold[f][c] /\ groups'[f][c] = groups[f][c]
    BY <1>3, CallFacts DEF EnterSeats, TypeOK
  <2> QED BY <1>1, <1>3, <2>1 DEF TakenOff
<1> QED BY <1>2, <1>3

LEMMA StepType ==
  ASSUME TypeOK, [Next]_vars
  PROVE  TypeOK'
<1>1. ASSUME NEW r \in Request, View(r) PROVE TypeOK'
  BY <1>1 DEF View, books, TypeOK
<1>2. ASSUME NEW r \in Request, Start(r) PROVE TypeOK'
  BY <1>2 DEF Start, books, TypeOK, Working
<1>3. ASSUME NEW r \in Request, Refuse(r) PROVE TypeOK'
  BY <1>3, NextCallType, AnswerType DEF Refuse, books, TypeOK
<1>4. ASSUME NEW r \in Request, PassOver(r) PROVE TypeOK'
  BY <1>4, NextCallType DEF PassOver, books, TypeOK
<1>5. ASSUME NEW r \in Request, Accept(r) PROVE TypeOK'
  BY <1>5 DEF Accept, books, TypeOK, Working
<1>6. ASSUME NEW r \in Request, Copied(r) PROVE TypeOK'
  BY <1>6 DEF Copied, books, TypeOK, Working
<1>7. ASSUME NEW r \in Request, CopyFails(r) PROVE TypeOK'
  BY <1>7, AnswerType DEF CopyFails, books, TypeOK
<1>8. ASSUME NEW r \in Request, BeginAdd(r) PROVE TypeOK'
  <2>1. list[Target(r)] \in SUBSET Reservation BY CallFacts DEF TypeOK
  <2>2. seen' \in [Request -> SUBSET Reservation] BY <1>8, <2>1 DEF BeginAdd, books, TypeOK
  <2>3. pc' \in [Request -> {"fresh", "form", "answered"} \cup Working]
    BY <1>8 DEF BeginAdd, books, TypeOK, Working
  <2>4. overtaken' \subseteq Request BY <1>8 DEF BeginAdd, books, TypeOK
  <2> QED BY <1>8, <2>2, <2>3, <2>4 DEF BeginAdd, books, TypeOK
<1>9. ASSUME NEW r \in Request, EndAdd(r) PROVE TypeOK'
  <2>1. PICK lost \in MayLose(r) :
          /\ list' = [list EXCEPT ![Target(r)] = (@ \cup {This(r)}) \ lost]
          /\ \E h \in IF lost = {} THEN {hole[Target(r)]} ELSE BOOLEAN :
               hole' = [hole EXCEPT ![Target(r)] = h]
    BY <1>9 DEF EndAdd
  <2>2. list' \in [Flight \cup Client -> SUBSET Reservation]
    BY <2>1, CallFacts DEF TypeOK
  <2>3. PICK h \in IF lost = {} THEN {hole[Target(r)]} ELSE BOOLEAN :
          hole' = [hole EXCEPT ![Target(r)] = h]
    BY <2>1
  <2>4. h \in BOOLEAN BY <2>3, CallFacts DEF TypeOK
  <2>5. hole' \in [Flight \cup Client -> BOOLEAN] BY <2>3, <2>4 DEF TypeOK
  <2>6. /\ pc' \in [Request -> {"fresh", "form", "answered"} \cup Working]
        /\ DOMAIN at' = Request /\ \A s \in Request : at'[s] \in DOMAIN Calls(s)
        /\ answer' \in [Request -> {"none", "confirmed", "error"}]
    <3>1. CASE pc[r] = "store" BY <1>9, <3>1 DEF EndAdd, books, TypeOK, Working
    <3>2. CASE pc[r] # "store" BY <1>9, <3>2, NextCallType DEF EndAdd
    <3> QED BY <3>1, <3>2
  <2>7. seen' \in [Request -> SUBSET Reservation] BY <1>9 DEF EndAdd, books, TypeOK
  <2> QED BY <1>9, <2>2, <2>5, <2>6, <2>7 DEF EndAdd, books, TypeOK
<1>10. ASSUME NEW r \in Request, ReadCounter(r) PROVE TypeOK'
  <2>1. available[Call(r).flight][Call(r).class] \in Int BY CallFacts DEF TypeOK
  <2> QED BY <1>10, <2>1 DEF ReadCounter, books, TypeOK, Working
<1>11. ASSUME NEW r \in Request, WriteCounter(r) PROVE TypeOK'
  <2> DEFINE f == Call(r).flight
             c == Call(r).class
  <2>1. copy[r] - SeatsOfCall(r) \in Int BY CallFacts DEF TypeOK
  <2>2. available' \in [Flight -> [Class -> Int]]
    BY <1>11, <2>1, CallFacts DEF WriteCounter, TypeOK
  <2>3. sold[f][c] + Call(r).persons \in Nat BY CallFacts DEF TypeOK
  <2>4. sold' \in [Flight -> [Class -> Nat]]
    BY <1>11, <2>3, CallFacts DEF WriteCounter, EnterSeats, TypeOK
  <2>5. groups[f][c] + (IF Single(r) THEN 0 ELSE 1) \in Nat BY CallFacts DEF TypeOK
  <2>6. groups' \in [Flight -> [Class -> Nat]]
    BY <1>11, <2>5, CallFacts DEF WriteCounter, EnterSeats, TypeOK
  <2> QED BY <1>11, <2>2, <2>4, <2>6 DEF WriteCounter, TypeOK, Working
<1>12. ASSUME NEW r \in Request, AddFails(r) PROVE TypeOK'
  BY <1>12, AnswerType DEF AddFails, books, TypeOK
<1>13. CASE UNCHANGED vars BY <1>13 DEF vars, books, TypeOK
<1> QED
  BY <1>1, <1>2, <1>3, <1>4, <1>5, <1>6, <1>7, <1>8, <1>9, <1>10, <1>11, <1>12, <1>13
     DEF Next, Step, Rest

(***************************************************************************)
(* The counters. A copy that a request is about to write back may be old,  *)
(* but the seats taken off since it was read make it too high, never too   *)
(* low: that is what every step keeps. A group takes seats in executive    *)
(* class only.                                                             *)
(***************************************************************************)
CopiesAreHigh ==
  \A r \in Request :
    pc[r] = "write" =>
      copy[r] >= Seats[Call(r).flight][Call(r).class]
                   - TakenOff(Call(r).flight, Call(r).class)

GroupsAreExecutive ==
  /\ \A f \in Flight : groups[f]["turista"] = 0
  /\ \A r \in Request :
       pc[r] \in {"iterate", "append", "store", "read", "write"} =>
         Single(r) \/ Call(r).class = "ejecutivo"

CounterInv == TypeOK /\ NeverUnderReports /\ CopiesAreHigh /\ GroupsAreExecutive

LEMMA InitCounter == Init => NeverUnderReports /\ CopiesAreHigh /\ GroupsAreExecutive
BY ReservationsAssumption
   DEF Init, NeverUnderReports, CopiesAreHigh, GroupsAreExecutive, TakenOff, Class

\* A step that changes no counter and no copy, and sends to "write" only who was
\* making the reservation, keeps it.
LEMMA CountersUntouched ==
  ASSUME CounterInv, TypeOK', UNCHANGED <<available, books, copy>>,
         \A s \in Request : pc'[s] = "write" => pc[s] = "write" /\ at'[s] = at[s],
         \A s \in Request :
           pc'[s] \in {"iterate", "append", "store", "read", "write"} =>
             /\ at'[s] = at[s]
             /\ \/ pc[s] \in {"iterate", "append", "store", "read", "write"}
                \/ Single(s) \/ Call(s).class = "ejecutivo"
  PROVE  NeverUnderReports' /\ CopiesAreHigh' /\ GroupsAreExecutive'
<1>1. NeverUnderReports' BY DEF CounterInv, NeverUnderReports, TakenOff, books
<1>2. CopiesAreHigh' BY DEF CounterInv, CopiesAreHigh, TakenOff, Call, books
<1>3. GroupsAreExecutive'
  BY DEF CounterInv, GroupsAreExecutive, Single, Call, books
<1> QED BY <1>1, <1>2, <1>3

LEMMA StepCounter ==
  ASSUME CounterInv, [Next]_vars
  PROVE  CounterInv'
<1>0. TypeOK /\ TypeOK' BY StepType DEF CounterInv
<1>1. ASSUME NEW r \in Request,
             View(r) \/ Start(r) \/ Refuse(r) \/ PassOver(r) \/ Accept(r)
               \/ Copied(r) \/ CopyFails(r) \/ BeginAdd(r) \/ EndAdd(r) \/ AddFails(r)
      PROVE  CounterInv'
  <2>1. UNCHANGED <<available, books, copy>>
    BY <1>1 DEF View, Start, Refuse, PassOver, Accept, Copied, CopyFails, BeginAdd, EndAdd,
                AddFails
  <2>2. ASSUME NEW s \in Request,
               pc'[s] \in {"iterate", "append", "store", "read", "write"}
        PROVE  /\ pc'[s] = "write" => pc[s] = "write"
               /\ at'[s] = at[s]
               /\ \/ pc[s] \in {"iterate", "append", "store", "read", "write"}
                  \/ Single(s) \/ Call(s).class = "ejecutivo"
    <3>1. CASE NextCall(r)
      BY <1>0, <2>2, <3>1 DEF NextCall, Answer, TypeOK
    <3>2. CASE Answer(r, "error")
      BY <1>0, <2>2, <3>2 DEF Answer, TypeOK
    <3>3. CASE ~NextCall(r) /\ ~Answer(r, "error")
      BY <1>0, <1>1, <2>2, <3>3
         DEF View, Start, Refuse, PassOver, Accept, Copied, CopyFails, BeginAdd, EndAdd,
             AddFails, TypeOK
    <3> QED BY <3>1, <3>2, <3>3
  <2> QED BY <1>0, <2>1, <2>2, CountersUntouched DEF CounterInv
<1>2. ASSUME NEW r \in Request, ReadCounter(r) PROVE CounterInv'
  <2>1. UNCHANGED <<available, sold, groups, at>> BY <1>2 DEF ReadCounter, books
  <2>2. NeverUnderReports' BY <2>1 DEF CounterInv, NeverUnderReports, TakenOff
  <2>3. ASSUME NEW s \in Request, pc'[s] = "write"
        PROVE  copy'[s] >= Seats[Call(s).flight][Call(s).class]
                             - TakenOff(Call(s).flight, Call(s).class)
    <3>1. CASE s = r
      <4>1. copy'[s] = available[Call(s).flight][Call(s).class]
        BY <1>0, <1>2, <3>1 DEF ReadCounter, TypeOK
      <4> QED BY <1>0, <4>1, CallFacts DEF CounterInv, NeverUnderReports
    <3>2. CASE s # r
      BY <1>0, <1>2, <2>3, <3>2 DEF ReadCounter, CounterInv, CopiesAreHigh, TypeOK
    <3> QED BY <3>1, <3>2
  <2>4. CopiesAreHigh' BY <2>1, <2>3 DEF CopiesAreHigh, Call, TakenOff
  <2>5. GroupsAreExecutive'
    BY <1>0, <1>2, <2>1
       DEF ReadCounter, CounterInv, GroupsAreExecutive, Single, Call, TypeOK
  <2> QED BY <1>0, <2>2, <2>4, <2>5 DEF CounterInv
<1>3. ASSUME NEW r \in Request, WriteCounter(r) PROVE CounterInv'
  <2> DEFINE f == Call(r).flight
             c == Call(r).class
             n == SeatsOfCall(r)
  <2>1. f \in Flight /\ c \in Class /\ n \in Nat BY <1>0, CallFacts
  <2>2. copy[r] \in Int BY <1>0 DEF TypeOK
  <2>3. copy[r] >= Seats[f][c] - TakenOff(f, c)
    BY <1>3 DEF WriteCounter, CounterInv, CopiesAreHigh
  <2>4. /\ available' = [available EXCEPT ![f][c] = copy[r] - n]
        /\ EnterSeats(r)
        /\ pc' = [pc EXCEPT ![r] = "own"] /\ UNCHANGED <<at, copy>>
    BY <1>3 DEF WriteCounter
  <2>5. ASSUME NEW g \in Flight, NEW d \in Class
        PROVE  /\ TakenOff(g, d)' \in Nat /\ TakenOff(g, d) \in Nat /\ Seats[g][d] \in Nat
               /\ TakenOff(g, d)' >= TakenOff(g, d)
               /\ available'[g][d] >= Seats[g][d] - TakenOff(g, d)'
    <3>1. TakenOff(g, d) \in Nat /\ available[g][d] \in Int /\ Seats[g][d] \in Nat
      BY <1>0, ReservationsAssumption DEF TypeOK, TakenOff
    <3>2. TakenOff(g, d)' = TakenOff(g, d) + IF g = f /\ d = c THEN n ELSE 0
      BY <1>0, <2>4, EnteredSeats
    <3> HIDE DEF n
    <3>3. CASE g = f /\ d = c
      <4>1. available'[g][d] = copy[r] - n
        BY <1>0, <2>1, <2>4, <3>3 DEF TypeOK
      <4> QED BY <2>1, <2>2, <2>3, <3>1, <3>2, <3>3, <4>1
    <3>4. CASE ~(g = f /\ d = c)
      <4>1. available'[g][d] = available[g][d]
        BY <1>0, <2>1, <2>4, <3>4 DEF TypeOK
      <4> QED BY <3>1, <3>2, <3>4, <4>1 DEF CounterInv, NeverUnderReports
    <3> QED BY <3>3, <3>4
  <2>6. NeverUnderReports'
    <3> SUFFICES ASSUME NEW g \in Flight, NEW d \in Class
                 PROVE  (available[g][d] >= Seats[g][d] - TakenOff(g, d))'
      BY DEF NeverUnderReports
    <3> QED BY <2>5
  <2>7. ASSUME NEW s \in Request, pc'[s] = "write"
        PROVE  copy'[s] >= Seats[Call(s).flight][Call(s).class]
                             - TakenOff(Call(s).flight, Call(s).class)'
    <3>1. pc[s] = "write" /\ copy'[s] = copy[s] /\ UNCHANGED Call(s)
      BY <1>0, <2>4, <2>7 DEF TypeOK, Call
    <3>2. copy[s] >= Seats[Call(s).flight][Call(s).class]
                       - TakenOff(Call(s).flight, Call(s).class)
      BY <3>1 DEF CounterInv, CopiesAreHigh
    <3>3. Call(s).flight \in Flight /\ Call(s).class \in Class /\ copy[s] \in Int
      BY <1>0, CallFacts DEF TypeOK
    <3>4. PICK g \in Flight, d \in Class : g = Call(s).flight /\ d = Call(s).class
      BY <3>3
    <3>5. TakenOff(Call(s).flight, Call(s).class)' = TakenOff(g, d)'
      BY <3>1, <3>4 DEF TakenOff
    <3>6. /\ TakenOff(g, d)' \in Nat /\ TakenOff(g, d) \in Nat /\ Seats[g][d] \in Nat
          /\ TakenOff(g, d)' >= TakenOff(g, d)
      BY <2>5
    <3> QED BY <3>1, <3>2, <3>3, <3>4, <3>5, <3>6
  <2>8. CopiesAreHigh' BY <2>4, <2>7 DEF CopiesAreHigh, Call, TakenOff
  <2>9. GroupsAreExecutive'
    <3>1. Single(r) \/ c = "ejecutivo"
      BY <1>3 DEF WriteCounter, CounterInv, GroupsAreExecutive
    <3>2. ASSUME NEW g \in Flight PROVE groups'[g]["turista"] = 0
      <4>1. groups[g]["turista"] = 0 BY DEF CounterInv, GroupsAreExecutive
      <4>2. groups'[g]["turista"] = groups[g]["turista"]
        BY <1>0, <2>1, <2>4, <3>1, <4>1 DEF EnterSeats, TypeOK
      <4> QED BY <4>1, <4>2
    <3>3. \A s \in Request :
            pc'[s] \in {"iterate", "append", "store", "read", "write"} => pc'[s] = pc[s]
      BY <1>0, <2>4 DEF TypeOK
    <3> QED BY <2>4, <3>2, <3>3 DEF CounterInv, GroupsAreExecutive, Single, Call
  <2> QED BY <1>0, <2>6, <2>8, <2>9 DEF CounterInv
<1>4. CASE UNCHANGED vars
  <2>1. UNCHANGED <<available, books, copy, pc, at>> BY <1>4 DEF vars
  <2> QED BY <1>0, <2>1, CountersUntouched DEF CounterInv, GroupsAreExecutive
<1> QED BY <1>1, <1>2, <1>3, <1>4 DEF Next, Step, Rest

THEOREM CounterInvariance == Spec => []CounterInv
<1>1. Init => CounterInv BY InitType, InitCounter DEF CounterInv
<1>2. CounterInv /\ [Next]_vars => CounterInv' BY StepCounter
<1> QED BY <1>1, <1>2, PTL DEF Spec

\* Every variable keeps its type: at never passes the last call of a request.
THEOREM TypeCorrect == Spec => []TypeOK
<1>1. CounterInv => TypeOK BY DEF CounterInv
<1> QED BY <1>1, CounterInvariance, PTL

\* However many requests update asientosTuristaDisponibles and
\* asientosEjecutivoDisponibles at once, the counters show no fewer seats than the
\* seats less what has been taken off them.
THEOREM CountersAreHigh == Spec => []NeverUnderReports
<1>1. CounterInv => NeverUnderReports BY DEF CounterInv
<1> QED BY <1>1, CounterInvariance, PTL

\* AsientosInsuficientesException is thrown in tourist class only when the seats
\* without a passenger are too few; in executive class it may be thrown while there
\* are enough, but fewer than the request asks for and one for every group booked.
THEOREM RefusalsAreRight == Spec => SoldOutIsTrue
<1>1. ASSUME CounterInv, NEW r \in Request, Refuse(r), Call(r).ok
      PROVE  LET f == Call(r).flight
                 c == Call(r).class
                 left == Seats[f][c] - sold[f][c]
             IN  IF c = "turista" THEN left < Call(r).persons
                 ELSE left < Call(r).persons + groups[f][c]
  <2> DEFINE f == Call(r).flight
             c == Call(r).class
  <2>1. TypeOK BY <1>1 DEF CounterInv
  <2>2. SoldOut(r) BY <1>1 DEF Refuse
  <2>3. f \in Flight /\ c \in Class /\ Call(r).persons \in Nat \ {0}
    BY <2>1, CallFacts
  <2>4. available[f][c] >= Seats[f][c] - (sold[f][c] + groups[f][c])
    BY <1>1, <2>3 DEF CounterInv, NeverUnderReports, TakenOff
  <2>5. /\ available[f][c] \in Int /\ Seats[f][c] \in Nat
        /\ sold[f][c] \in Nat /\ groups[f][c] \in Nat
    BY <2>1, <2>3, ReservationsAssumption DEF TypeOK
  <2>6. available[f][c] < Call(r).persons
    BY <2>2, <2>3, <2>5 DEF SoldOut, Single
  <2>7. c = "turista" => groups[f][c] = 0
    BY <1>1, <2>3 DEF CounterInv, GroupsAreExecutive
  <2> HIDE DEF f, c
  <2>8. /\ Seats[f][c] - sold[f][c] < Call(r).persons + groups[f][c]
        /\ c = "turista" => Seats[f][c] - sold[f][c] < Call(r).persons
    BY <2>3, <2>4, <2>5, <2>6, <2>7
  <2> QED BY <2>8 DEF f, c
<1>2. CounterInv /\ [Next]_vars =>
        [\A r \in Request :
           (Refuse(r) /\ Call(r).ok) =>
             LET f == Call(r).flight
                 c == Call(r).class
                 left == Seats[f][c] - sold[f][c]
             IN  IF c = "turista" THEN left < Call(r).persons
                 ELSE left < Call(r).persons + groups[f][c]]_vars
  BY <1>1
<1> QED BY <1>2, CounterInvariance, PTL DEF Spec, SoldOutIsTrue

(***************************************************************************)
(* The lists. A reservation is in a list only once its call has come to    *)
(* the flight's list, and a call fails after that only in a race for the   *)
(* account; nobody else writes to the account of a client with one window, *)
(* so what is put there stays.                                             *)
(***************************************************************************)
Made == {"read", "write", "own", "link"}

\* where r may stand when its i-th reservation is in list l
MayShow(l, r, i) ==
  \/ i < at[r]
  \/ i = at[r] /\ answer[r] = "confirmed"
  \/ i = at[r] /\ l = Calls(r)[i].flight /\ pc[r] \in Made
  \/ /\ i = at[r] /\ l = Calls(r)[i].flight
     /\ answer[r] = "error" /\ (r \in Form => ~OnlyOneFor(r))

ListsHoldThePast ==
  \A l \in Flight \cup Client, r \in Request : \A i \in DOMAIN Calls(r) :
    <<r, i>> \in list[l] => MayShow(l, r, i)

AnsweredAtEnd == \A r \in Request : answer[r] # "none" => pc[r] = "answered"

AccountIsOwn ==
  \A r \in Form :
    (OnlyOneFor(r) /\ pc[r] = "link") => seen[r] = list[Booking[r].client]

AccountIsKept ==
  \A r \in Form :
    OnlyOneFor(r) =>
      \A i \in Booked(r) :
        (i < at[r] \/ answer[r] = "confirmed") => <<r, i>> \in list[Booking[r].client]

ListInv == TypeOK /\ ListsHoldThePast /\ AnsweredAtEnd /\ AccountIsOwn /\ AccountIsKept

LEMMA InitList == Init => ListInv
<1> SUFFICES ASSUME Init PROVE ListInv OBVIOUS
<1>1. ListsHoldThePast /\ AnsweredAtEnd /\ AccountIsOwn
  BY DEF Init, ListsHoldThePast, AnsweredAtEnd, AccountIsOwn, Request
<1>2. AccountIsKept
  <2> SUFFICES ASSUME NEW r \in Form, NEW i \in Booked(r)
               PROVE  ~(i < at[r] \/ answer[r] = "confirmed")
    BY DEF AccountIsKept
  <2>1. i \in 1 .. Len(Calls(r)) BY CallsAreBookings DEF Booked, Request
  <2>2. at[r] = 1 /\ answer[r] = "none" BY DEF Init, Request
  <2> QED BY <2>1, <2>2, CallsAreBookings DEF Request
<1> QED BY <1>1, <1>2, InitType DEF ListInv

\* Nobody but r adds to the account of r's client.
LEMMA AccountTarget ==
  ASSUME TypeOK, NEW r \in Form, OnlyOneFor(r), NEW s \in Request,
         pc[s] \in {"append", "store", "own", "link"},
         Target(s) = Booking[r].client
  PROVE  s = r /\ pc[s] \in {"own", "link"}
<1>1. Booking[r].client \in Client BY ReservationsAssumption DEF BookingType
<1>2. pc[s] \in {"own", "link"}
  BY <1>1, CallFacts, ReservationsAssumption DEF Target
<1>3. Call(s).client = Booking[r].client BY <1>2 DEF Target
<1>4. at[s] \in DOMAIN Calls(s) BY DEF TypeOK
<1>5. s = r BY <1>3, <1>4 DEF OnlyOneFor, Call
<1> QED BY <1>2, <1>5

LEMMA OwnTarget ==
  ASSUME TypeOK, NEW r \in Form, pc[r] \in {"own", "link"}
  PROVE  Target(r) = Booking[r].client
<1>1. at[r] \in DOMAIN Calls(r) BY DEF TypeOK, Request
<1> QED BY <1>1, FormClient DEF Target, Call

\* A call that ends without a trace: the lists are as they were, and if the call
\* was one that makes a reservation it has ended with an error.
LEMMA EndWithoutTrace ==
  ASSUME ListInv, TypeOK', NEW r \in Request, UNCHANGED <<list, seen>>,
         pc[r] \in {"check", "iterate"},
         \/ Answer(r, "error")
         \/ NextCall(r) /\ (r \in Form => at[r] \notin Booked(r))
  PROVE  ListInv'
<1>0. TypeOK BY DEF ListInv
<1>1. at[r] \in 1 .. Len(Calls(r)) /\ Len(Calls(r)) \in Nat /\ answer[r] = "none"
  BY <1>0, CallFacts DEF ListInv, AnsweredAtEnd, TypeOK
<1>2. \A s \in Request : s # r => pc'[s] = pc[s] /\ at'[s] = at[s] /\ answer'[s] = answer[s]
  BY <1>0 DEF NextCall, Answer, TypeOK
<1>3. \/ pc'[r] = "check" /\ at'[r] = at[r] + 1 /\ answer'[r] = "none"
         /\ (r \in Form => at[r] \notin Booked(r))
      \/ /\ pc'[r] = "answered" /\ at'[r] = at[r]
         /\ \/ answer'[r] = "error"
            \/ /\ answer'[r] = "confirmed" /\ at[r] = Len(Calls(r))
               /\ (r \in Form => at[r] \notin Booked(r))
  BY <1>0, <1>1 DEF NextCall, Answer, TypeOK
<1>4. ListsHoldThePast'
  <2> SUFFICES ASSUME NEW l \in Flight \cup Client, NEW s \in Request,
                      NEW i \in DOMAIN Calls(s), <<s, i>> \in list[l]
               PROVE  MayShow(l, s, i)'
    BY DEF ListsHoldThePast
  <2>1. MayShow(l, s, i)
    BY DEF ListInv, ListsHoldThePast
  <2>2. i \in Nat /\ at[s] \in Nat BY <1>0, CallFacts, CallsAreBookings
  <2>3. CASE s = r
    <3>1. i < at[r] BY <1>1, <2>1, <2>3 DEF MayShow, Made
    <3> QED BY <1>1, <1>3, <2>2, <2>3, <3>1 DEF MayShow
  <2> QED BY <1>2, <2>1, <2>3 DEF MayShow
<1>5. AnsweredAtEnd'
  BY <1>2, <1>3 DEF AnsweredAtEnd, ListInv
<1>6. AccountIsOwn'
  BY <1>2, <1>3 DEF AccountIsOwn, ListInv, Request
<1>7. AccountIsKept'
  <2> SUFFICES ASSUME NEW s \in Form, OnlyOneFor(s), NEW i \in Booked(s),
                      i < at'[s] \/ answer'[s] = "confirmed"
               PROVE  <<s, i>> \in list[Booking[s].client]
    BY DEF AccountIsKept
  <2>1. (i < at[s] \/ answer[s] = "confirmed") => <<s, i>> \in list[Booking[s].client]
    BY DEF ListInv, AccountIsKept
  <2>2. i \in 1 .. Len(Calls(s)) /\ at[s] \in Nat
    BY <1>0, CallFacts, CallsAreBookings DEF Booked, Request
  <2>3. CASE s = r BY <1>1, <1>3, <2>1, <2>2, <2>3
  <2> QED BY <1>2, <2>1, <2>3 DEF Request
<1> QED BY <1>4, <1>5, <1>6, <1>7 DEF ListInv

\* A step within a call that leaves the lists alone.
LEMMA MoveOn ==
  ASSUME ListInv, TypeOK', NEW r \in Request, NEW p \in Working \cup {"form"},
         UNCHANGED <<list, seen, at, answer>>, pc' = [pc EXCEPT ![r] = p],
         pc[r] # "answered", p # "link", pc[r] \in Made => p \in Made
  PROVE  ListInv'
<1>0. TypeOK BY DEF ListInv
<1>1. answer[r] = "none"
  BY <1>0 DEF ListInv, AnsweredAtEnd, TypeOK
<1>2. pc'[r] = p /\ \A s \in Request : s # r => pc'[s] = pc[s]
  BY <1>0 DEF TypeOK
<1>3. ListsHoldThePast'
  BY <1>1, <1>2 DEF ListInv, ListsHoldThePast, MayShow
<1>4. AnsweredAtEnd'
  BY <1>1, <1>2 DEF ListInv, AnsweredAtEnd
<1>5. AccountIsOwn'
  BY <1>2 DEF ListInv, AccountIsOwn, Request
<1>6. AccountIsKept'
  BY DEF ListInv, AccountIsKept
<1> QED BY <1>3, <1>4, <1>5, <1>6 DEF ListInv

LEMMA BeginAddList ==
  ASSUME ListInv, TypeOK', NEW r \in Request, BeginAdd(r)
  PROVE  ListInv'
<1>0. TypeOK BY DEF ListInv
<1>1. /\ pc[r] \in {"append", "own"} /\ UNCHANGED <<list, at, answer>>
      /\ pc' = [pc EXCEPT ![r] = IF @ = "append" THEN "store" ELSE "link"]
      /\ seen' = [seen EXCEPT ![r] = list[Target(r)]]
  BY DEF BeginAdd
<1>2. answer[r] = "none"
  BY <1>0, <1>1 DEF ListInv, AnsweredAtEnd, TypeOK
<1>3. /\ pc'[r] = IF pc[r] = "append" THEN "store" ELSE "link"
      /\ \A s \in Request : s # r => pc'[s] = pc[s] /\ seen'[s] = seen[s]
      /\ seen'[r] = list[Target(r)]
  BY <1>0, <1>1 DEF TypeOK
<1>4. ListsHoldThePast'
  BY <1>1, <1>2, <1>3 DEF ListInv, ListsHoldThePast, MayShow, Made
<1>5. AnsweredAtEnd'
  BY <1>1, <1>2, <1>3 DEF ListInv, AnsweredAtEnd
<1>6. AccountIsOwn'
  BY <1>0, <1>1, <1>3, OwnTarget DEF ListInv, AccountIsOwn, Request
<1>7. AccountIsKept'
  BY <1>1 DEF ListInv, AccountIsKept
<1> QED BY <1>4, <1>5, <1>6, <1>7 DEF ListInv

LEMMA EndAddList ==
  ASSUME ListInv, TypeOK', NEW r \in Request, EndAdd(r)
  PROVE  ListInv'
<1>0. TypeOK BY DEF ListInv
<1>1. PICK lost \in MayLose(r) :
        list' = [list EXCEPT ![Target(r)] = (@ \cup {This(r)}) \ lost]
  BY DEF EndAdd
<1>2. /\ pc[r] \in {"store", "link"} /\ seen' = [seen EXCEPT ![r] = {}]
      /\ Target(r) \in Flight \cup Client
      /\ at[r] \in 1 .. Len(Calls(r)) /\ Len(Calls(r)) \in Nat
  BY <1>0, CallFacts DEF EndAdd
<1>3. answer[r] = "none"
  BY <1>0, <1>2 DEF ListInv, AnsweredAtEnd, TypeOK
<1>4. /\ \A s \in Request : s # r =>
            pc'[s] = pc[s] /\ at'[s] = at[s] /\ answer'[s] = answer[s] /\ seen'[s] = seen[s]
      /\ \/ pc[r] = "store" /\ pc'[r] = "read" /\ at'[r] = at[r] /\ answer'[r] = "none"
         \/ pc[r] = "link" /\ pc'[r] = "check" /\ at'[r] = at[r] + 1 /\ answer'[r] = "none"
         \/ /\ pc[r] = "link" /\ pc'[r] = "answered" /\ at'[r] = at[r]
            /\ answer'[r] = "confirmed" /\ at[r] = Len(Calls(r))
  BY <1>0, <1>2, <1>3 DEF EndAdd, NextCall, Answer, TypeOK
<1>5. \A l \in Flight \cup Client :
        /\ list'[l] \subseteq list[l] \cup {This(r)}
        /\ l # Target(r) => list'[l] = list[l]
  BY <1>0, <1>1 DEF TypeOK
<1>6. ListsHoldThePast'
  <2> SUFFICES ASSUME NEW l \in Flight \cup Client, NEW s \in Request,
                      NEW i \in DOMAIN Calls(s), <<s, i>> \in list'[l]
               PROVE  MayShow(l, s, i)'
    BY DEF ListsHoldThePast
  <2>1. <<s, i>> \in list[l] \/ (s = r /\ i = at[r] /\ l = Target(r)) BY <1>5 DEF This
  <2>2. <<s, i>> \in list[l] => MayShow(l, s, i)
    BY DEF ListInv, ListsHoldThePast
  <2>3. i \in Nat /\ at[s] \in Nat BY <1>0, CallFacts, CallsAreBookings
  <2>4. CASE s = r
    <3>1. i < at[r] \/ (i = at[r] /\ (pc[r] = "store" => l = Calls(r)[i].flight))
      BY <1>2, <1>3, <2>1, <2>2, <2>4 DEF MayShow, Made, Target, Call
    <3> QED BY <1>2, <1>4, <2>3, <2>4, <3>1 DEF MayShow, Made
  <2> QED BY <1>4, <2>1, <2>2, <2>4 DEF MayShow
<1>7. AnsweredAtEnd'
  BY <1>4 DEF ListInv, AnsweredAtEnd
<1>8. ASSUME NEW s \in Form, OnlyOneFor(s), s # r
      PROVE  list'[Booking[s].client] = list[Booking[s].client]
  <2>1. Booking[s].client \in Flight \cup Client
    BY ReservationsAssumption DEF BookingType
  <2>2. Target(r) # Booking[s].client BY <1>0, <1>2, <1>8, AccountTarget
  <2> QED BY <1>5, <2>1, <2>2
<1>9. AccountIsOwn'
  <2> SUFFICES ASSUME NEW s \in Form, OnlyOneFor(s), pc'[s] = "link"
               PROVE  seen'[s] = list'[Booking[s].client]
    BY DEF AccountIsOwn
  <2>1. s # r BY <1>4
  <2> QED BY <1>4, <1>8, <2>1 DEF ListInv, AccountIsOwn, Request
<1>10. ASSUME r \in Form, OnlyOneFor(r)
       PROVE  /\ list[Booking[r].client] \subseteq list'[Booking[r].client]
              /\ pc[r] = "link" => This(r) \in list'[Booking[r].client]
  <2>1. Booking[r].client \in Client BY <1>10, ReservationsAssumption DEF BookingType
  <2>2. CASE pc[r] = "store"
    <3>1. Target(r) # Booking[r].client
      BY <1>0, <1>2, <1>10, <2>2, AccountTarget
    <3> QED BY <1>5, <2>1, <2>2, <3>1
  <2>3. CASE pc[r] = "link"
    <3>1. Target(r) = Booking[r].client BY <1>0, <1>10, <2>3, OwnTarget
    <3>2. seen[r] = list[Target(r)] BY <1>10, <2>3, <3>1 DEF ListInv, AccountIsOwn
    <3>3. lost = {} BY <1>1, <3>2 DEF MayLose
    <3>4. list'[Target(r)] = list[Target(r)] \cup {This(r)}
      BY <1>0, <1>1, <1>2, <3>3 DEF TypeOK
    <3> QED BY <3>1, <3>4
  <2> QED BY <1>2, <2>2, <2>3
<1>11. AccountIsKept'
  <2> SUFFICES ASSUME NEW s \in Form, OnlyOneFor(s), NEW i \in Booked(s),
                      i < at'[s] \/ answer'[s] = "confirmed"
               PROVE  <<s, i>> \in list'[Booking[s].client]
    BY DEF AccountIsKept
  <2>1. (i < at[s] \/ answer[s] = "confirmed") => <<s, i>> \in list[Booking[s].client]
    BY DEF ListInv, AccountIsKept
  <2>2. i \in 1 .. Len(Calls(s)) /\ at[s] \in Nat
    BY <1>0, CallFacts, CallsAreBookings DEF Booked, Request
  <2>3. CASE s = r
    <3>1. CASE i < at[s] BY <1>10, <2>1, <2>3, <3>1
    <3>2. CASE ~(i < at[s])
      <4>1. i = at[r] /\ pc[r] = "link" BY <1>2, <1>4, <2>2, <2>3, <3>2
      <4> QED BY <1>10, <2>3, <4>1 DEF This
    <3> QED BY <3>1, <3>2
  <2>4. CASE s # r
    BY <1>4, <1>8, <2>1, <2>4 DEF Request
  <2> QED BY <2>3, <2>4
<1> QED BY <1>6, <1>7, <1>9, <1>11 DEF ListInv

\* An add that fails leaves the lists as they were: the account's, when it isn't
\* the only request of its client, after the flight's has the reservation.
LEMMA AddFailsList ==
  ASSUME ListInv, TypeOK', NEW r \in Request, AddFails(r)
  PROVE  ListInv'
<1>0. TypeOK BY DEF ListInv
<1>1. /\ pc[r] \in {"store", "link"} /\ list[Target(r)] \ seen[r] # {}
      /\ Answer(r, "error") /\ seen' = [seen EXCEPT ![r] = {}] /\ UNCHANGED list
  BY DEF AddFails
<1>2. answer[r] = "none"
  BY <1>0, <1>1 DEF ListInv, AnsweredAtEnd, TypeOK
<1>3. /\ \A s \in Request : s # r =>
            pc'[s] = pc[s] /\ answer'[s] = answer[s] /\ seen'[s] = seen[s]
      /\ pc'[r] = "answered" /\ answer'[r] = "error" /\ UNCHANGED at
  BY <1>0, <1>1 DEF Answer, TypeOK
<1>4. ASSUME r \in Form, OnlyOneFor(r) PROVE pc[r] = "store"
  <2>1. SUFFICES ASSUME pc[r] = "link" PROVE FALSE BY <1>1
  <2>2. Target(r) = Booking[r].client BY <1>0, <1>4, <2>1, OwnTarget
  <2>3. seen[r] = list[Target(r)] BY <1>4, <2>1, <2>2 DEF ListInv, AccountIsOwn
  <2> QED BY <1>1, <2>3
<1>5. ListsHoldThePast'
  <2> SUFFICES ASSUME NEW l \in Flight \cup Client, NEW s \in Request,
                      NEW i \in DOMAIN Calls(s), <<s, i>> \in list[l]
               PROVE  MayShow(l, s, i)'
    BY <1>1 DEF ListsHoldThePast
  <2>1. MayShow(l, s, i) BY DEF ListInv, ListsHoldThePast
  <2>2. CASE s = r
    <3>1. \/ i < at[r]
          \/ i = at[r] /\ l = Calls(r)[i].flight /\ (r \in Form => ~OnlyOneFor(r))
      BY <1>1, <1>2, <1>4, <2>1, <2>2 DEF MayShow, Made
    <3> QED BY <1>3, <2>2, <3>1 DEF MayShow
  <2> QED BY <1>3, <2>1, <2>2 DEF MayShow
<1>6. AnsweredAtEnd'
  BY <1>3 DEF AnsweredAtEnd, ListInv
<1>7. AccountIsOwn'
  BY <1>1, <1>3 DEF AccountIsOwn, ListInv, Request
<1>8. AccountIsKept'
  BY <1>1, <1>2, <1>3 DEF AccountIsKept, ListInv, Request
<1> QED BY <1>5, <1>6, <1>7, <1>8 DEF ListInv

LEMMA StepList ==
  ASSUME ListInv, [Next]_vars
  PROVE  ListInv'
<1>0. TypeOK /\ TypeOK' BY StepType DEF ListInv
<1>1. ASSUME NEW r \in Request, View(r) PROVE ListInv'
  BY <1>0, <1>1, MoveOn DEF View, Made
<1>2. ASSUME NEW r \in Request, Start(r) PROVE ListInv'
  <2>1. pc[r] \in {"form", "fresh"} BY <1>2 DEF Start
  <2> QED BY <1>0, <1>2, <2>1, MoveOn DEF Start, Working, Made
<1>3. ASSUME NEW r \in Request, Refuse(r) PROVE ListInv'
  <2>1. r \in Form => Answer(r, "error") BY <1>3 DEF Refuse
  <2>2. r \notin Form => NextCall(r) BY <1>3 DEF Refuse
  <2>3. pc[r] = "check" /\ UNCHANGED <<list, seen>> BY <1>3 DEF Refuse
  <2> QED BY <1>0, <2>1, <2>2, <2>3, EndWithoutTrace
<1>4. ASSUME NEW r \in Request, PassOver(r) PROVE ListInv'
  <2>1. at[r] \notin Booked(r) BY <1>4 DEF PassOver, Booked, Single, Call
  <2>2. pc[r] = "check" /\ NextCall(r) /\ UNCHANGED <<list, seen>> BY <1>4 DEF PassOver
  <2> QED BY <1>0, <2>1, <2>2, EndWithoutTrace
<1>5. ASSUME NEW r \in Request, Accept(r) PROVE ListInv'
  <2> DEFINE p == IF Single(r) THEN "iterate" ELSE "append"
  <2>1. p \in Working /\ p # "link" BY DEF Working
  <2>2. pc[r] = "check" /\ pc' = [pc EXCEPT ![r] = p] /\ UNCHANGED <<list, seen, at, answer>>
    BY <1>5 DEF Accept
  <2> HIDE DEF p
  <2> QED BY <1>0, <2>1, <2>2, MoveOn DEF Made
<1>6. ASSUME NEW r \in Request, Copied(r) PROVE ListInv'
  BY <1>0, <1>6, MoveOn DEF Copied, Working, Made
<1>7. ASSUME NEW r \in Request, CopyFails(r) PROVE ListInv'
  <2>1. pc[r] = "iterate" /\ Answer(r, "error") /\ UNCHANGED <<list, seen>>
    BY <1>7 DEF CopyFails
  <2> QED BY <1>0, <2>1, EndWithoutTrace
<1>8. ASSUME NEW r \in Request, BeginAdd(r) PROVE ListInv'
  BY <1>0, <1>8, BeginAddList
<1>9. ASSUME NEW r \in Request, EndAdd(r) PROVE ListInv'
  BY <1>0, <1>9, EndAddList
<1>10. ASSUME NEW r \in Request, ReadCounter(r) PROVE ListInv'
  BY <1>0, <1>10, MoveOn DEF ReadCounter, Working, Made
<1>11. ASSUME NEW r \in Request, WriteCounter(r) PROVE ListInv'
  BY <1>0, <1>11, MoveOn DEF WriteCounter, Working, Made
<1>12. ASSUME NEW r \in Request, AddFails(r) PROVE ListInv'
  BY <1>0, <1>12, AddFailsList
<1>13. CASE UNCHANGED vars
  BY <1>0, <1>13
     DEF vars, ListInv, ListsHoldThePast, MayShow, AnsweredAtEnd, AccountIsOwn, AccountIsKept
<1> QED
  BY <1>1, <1>2, <1>3, <1>4, <1>5, <1>6, <1>7, <1>8, <1>9, <1>10, <1>11, <1>12, <1>13
     DEF Next, Step, Rest

THEOREM ListInvariance == Spec => []ListInv
<1>1. Init => ListInv BY InitList
<1>2. ListInv /\ [Next]_vars => ListInv' BY StepList
<1> QED BY <1>1, <1>2, PTL DEF Spec

\* A confirmed form of the only window of its client has all its reservations in
\* the account, whatever other clients' adds have done to the flight's list.
THEOREM OwnersKeepTheirs == Spec => []OwnerKeepsIt
<1>1. ListInv => OwnerKeepsIt BY DEF ListInv, AccountIsKept, OwnerKeepsIt
<1> QED BY <1>1, ListInvariance, PTL

\* An error page is about one call: the account shows the calls before it, and no
\* list shows that call, but for the flight's when several windows of the client
\* were racing for the account.
THEOREM ErrorsAreAtACall == Spec => []ErrorIsAtACall
<1>1. ASSUME ListInv PROVE ErrorIsAtACall
  <2> SUFFICES ASSUME NEW r \in Form, answer[r] = "error"
               PROVE  /\ \A l \in Flight \cup Client, i \in DOMAIN Calls(r) :
                           <<r, i>> \in list[l] =>
                             \/ i < at[r]
                             \/ i = at[r] /\ l = Booking[r].flight /\ ~OnlyOneFor(r)
                      /\ OnlyOneFor(r) =>
                           \A i \in Booked(r) :
                             i < at[r] => <<r, i>> \in list[Booking[r].client]
    BY DEF ErrorIsAtACall
  <2>1. r \in Request /\ pc[r] = "answered" BY <1>1 DEF ListInv, AnsweredAtEnd, Request
  <2>2. ASSUME NEW l \in Flight \cup Client, NEW i \in DOMAIN Calls(r), <<r, i>> \in list[l]
        PROVE  i < at[r] \/ (i = at[r] /\ l = Booking[r].flight /\ ~OnlyOneFor(r))
    <3>1. MayShow(l, r, i) BY <1>1, <2>1, <2>2 DEF ListInv, ListsHoldThePast
    <3>2. Calls(r)[i].flight = Booking[r].flight BY FormClient
    <3> QED BY <2>1, <3>1, <3>2 DEF MayShow, Made
  <2> QED BY <1>1, <2>2 DEF ListInv, AccountIsKept
<1> QED BY <1>1, ListInvariance, PTL
=============================================================================
