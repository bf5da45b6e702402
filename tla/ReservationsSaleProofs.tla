----------------------- MODULE ReservationsSaleProofs -----------------------
(***************************************************************************)
(* One request at a time, the tourist seats of every flight are sold as    *)
(* SeatSale says. The test of the seats, the change of the list and the    *)
(* change of the counter are steps apart; the proof shows that with nobody *)
(* else at work what the test has found still holds when the counter is    *)
(* written, which is where the abstract Sell happens.                      *)
(***************************************************************************)
EXTENDS ReservationsProofs, Recursion

Busy == {"iterate", "append", "store", "read", "write", "own", "link"}

OneAtATime == \A r, s \in Request : pc[r] \in Working /\ pc[s] \in Working => r = s

\* the list of a flight has reservations of that flight only
FlightLists == \A g \in Flight : \A b \in list[g] : Place(b) = g

NoDebt == \A g \in Flight : available[g]["turista"] >= 0

\* what holds of a request while it is served alone
AtWork(r) ==
  /\ pc[r] \in {"store", "link"} => seen[r] = list[Target(r)]
  /\ pc[r] \in {"read", "write"} => This(r) \in list[Call(r).flight]
  /\ pc[r] = "write" => copy[r] = available[Call(r).flight][Call(r).class]
  /\ (pc[r] \in Busy /\ Call(r).class = "turista") =>
       /\ Single(r)
       /\ pc[r] \in {"own", "link"} \/ available[Call(r).flight]["turista"] > 0

SerialInv ==
  /\ ListInv
  /\ OneAtATime
  /\ FlightLists
  /\ NoDebt
  /\ \A r \in Request : AtWork(r)

LEMMA InitSerial == Init => SerialInv
<1> SUFFICES ASSUME Init PROVE SerialInv OBVIOUS
<1>1. OneAtATime /\ FlightLists
  BY DEF Init, OneAtATime, FlightLists, Working
<1>2. NoDebt BY ReservationsAssumption DEF Init, NoDebt, Class
<1>3. \A r \in Request : AtWork(r) BY DEF Init, AtWork, Busy
<1> QED BY <1>1, <1>2, <1>3, InitList DEF SerialInv

LEMMA BystanderNext == ASSUME NEW r \in Request, pc'[r] \notin Busy PROVE AtWork(r)'
BY DEF AtWork, Busy

\* A request starts when nobody is being served.
LEMMA StartAlone ==
  ASSUME MAX_ACTIVE = 1, TypeOK, NEW r \in Request, Start(r), NEW s \in Request
  PROVE  pc[s] \notin Working
<1>1. Active \subseteq Request /\ IsFiniteSet(Request)
  BY ReservationsAssumption DEF Active
<1>2. IsFiniteSet(Active) BY <1>1, FS_Subset
<1>3. Cardinality(Active) \in Nat BY <1>2, FS_CardinalityType
<1>4. Cardinality(Active) = 0 BY <1>3 DEF Start
<1>5. Active = {} BY <1>2, <1>4, FS_EmptySet
<1> QED BY <1>5 DEF Active

\* After a step of r nobody else is being served, or the step was to look at a form.
LEMMA Alone ==
  ASSUME MAX_ACTIVE = 1, TypeOK, OneAtATime, NEW r \in Request, Step(r)
  PROVE  /\ \A s \in Request \ {r} : pc'[s] = pc[s] /\ (~View(r) => pc[s] \notin Working)
         /\ OneAtATime'
<1>1. \A s \in Request \ {r} : pc'[s] = pc[s]
  BY DEF Step, View, Start, Refuse, PassOver, Accept, Copied, CopyFails, BeginAdd, EndAdd,
         AddFails, ReadCounter, WriteCounter, NextCall, Answer, TypeOK
<1>2. CASE View(r)
  <2>1. pc'[r] = "form" BY <1>2 DEF View, TypeOK
  <2> QED BY <1>1, <1>2, <2>1 DEF OneAtATime, Working
<1>3. CASE Start(r)
  BY <1>1, <1>3, StartAlone DEF OneAtATime
<1>4. CASE ~View(r) /\ ~Start(r)
  <2>1. pc[r] \in Working
    BY <1>4 DEF Step, Refuse, PassOver, Accept, Copied, CopyFails, BeginAdd, EndAdd,
                AddFails, ReadCounter, WriteCounter, Working
  <2> QED BY <1>1, <1>4, <2>1 DEF OneAtATime
<1> QED BY <1>2, <1>3, <1>4 DEF Step

\* So what a step has to keep is what holds of the request that takes it.
LEMMA StepIsLocal ==
  ASSUME MAX_ACTIVE = 1, SerialInv, [Next]_vars, NEW r \in Request, Step(r),
         FlightLists', NoDebt', AtWork(r)'
  PROVE  SerialInv'
<1>1. ListInv' BY StepList DEF SerialInv
<1>2. TypeOK BY DEF SerialInv, ListInv
<1>3. OneAtATime' BY <1>2, Alone DEF SerialInv
<1>4. ASSUME NEW s \in Request PROVE AtWork(s)'
  <2>1. CASE s = r BY <2>1
  <2>2. CASE s # r /\ View(r)
    <3>1. AtWork(s) BY DEF SerialInv
    <3>2. pc'[s] = pc[s] BY <1>2, <2>2, Alone DEF SerialInv
    <3> QED BY <2>2, <3>1, <3>2 DEF View, AtWork, Target, Call, This, Single
  <2>3. CASE s # r /\ ~View(r)
    <3>1. pc'[s] = pc[s] /\ pc[s] \notin Working BY <1>2, <2>3, Alone DEF SerialInv
    <3> QED BY <3>1, BystanderNext DEF Working, Busy
  <2> QED BY <2>1, <2>2, <2>3
<1> QED BY <1>1, <1>3, <1>4 DEF SerialInv

\* Alone, no add fails: nobody has added to the list since it began.
LEMMA NoAddFailsAlone ==
  ASSUME NEW r \in Request, AtWork(r)
  PROVE  ~AddFails(r)
BY DEF AtWork, AddFails

LEMMA StepSerial ==
  ASSUME MAX_ACTIVE = 1, SerialInv, [Next]_vars
  PROVE  SerialInv'
<1>0. TypeOK /\ TypeOK' BY StepType DEF SerialInv, ListInv
<1>1. ASSUME NEW r \in Request,
             View(r) \/ Start(r) \/ Refuse(r) \/ PassOver(r) \/ CopyFails(r)
      PROVE  SerialInv'
  <2>1. UNCHANGED <<available, list>>
    BY <1>1 DEF View, Start, Refuse, PassOver, CopyFails
  <2>2. pc'[r] \in {"form", "check", "answered"}
    BY <1>0, <1>1 DEF View, Start, Refuse, PassOver, CopyFails, NextCall, Answer, TypeOK
  <2>3. AtWork(r)' BY <2>2, BystanderNext DEF Busy
  <2>4. FlightLists' /\ NoDebt' BY <2>1 DEF SerialInv, FlightLists, NoDebt
  <2> QED BY <1>1, <2>3, <2>4, StepIsLocal DEF Step
<1>2. ASSUME NEW r \in Request, Accept(r) PROVE SerialInv'
  <2>1. UNCHANGED <<available, list, at>> /\ pc'[r] \in {"iterate", "append"}
    BY <1>0, <1>2 DEF Accept, TypeOK
  <2>2. Call(r).class = "turista" => Single(r) /\ available[Call(r).flight]["turista"] # 0
    BY <1>2 DEF Accept, SoldOut
  <2>3. available[Call(r).flight]["turista"] >= 0
        /\ available[Call(r).flight]["turista"] \in Int
    BY <1>0, CallFacts DEF SerialInv, NoDebt, TypeOK, Class
  <2>4. AtWork(r)' BY <2>1, <2>2, <2>3 DEF AtWork, Call, Single
  <2>5. FlightLists' /\ NoDebt' BY <2>1 DEF SerialInv, FlightLists, NoDebt
  <2> QED BY <1>2, <2>4, <2>5, StepIsLocal DEF Step
<1>3. ASSUME NEW r \in Request, Copied(r) PROVE SerialInv'
  <2>1. /\ UNCHANGED <<available, list, at>> /\ pc'[r] = "append" /\ pc[r] = "iterate"
    BY <1>0, <1>3 DEF Copied, TypeOK
  <2>2. AtWork(r)' BY <2>1 DEF SerialInv, AtWork, Call, Single, Busy
  <2>3. FlightLists' /\ NoDebt' BY <2>1 DEF SerialInv, FlightLists, NoDebt
  <2> QED BY <1>3, <2>2, <2>3, StepIsLocal DEF Step
<1>4. ASSUME NEW r \in Request, BeginAdd(r) PROVE SerialInv'
  <2>1. /\ UNCHANGED <<available, list, at>> /\ pc[r] \in {"append", "own"}
        /\ pc'[r] = IF pc[r] = "append" THEN "store" ELSE "link"
        /\ seen'[r] = list[Target(r)]
    BY <1>0, <1>4 DEF BeginAdd, TypeOK
  <2>2. Target(r)' = Target(r) BY <2>1 DEF Target, Call
  <2>3. AtWork(r)' BY <2>1, <2>2 DEF SerialInv, AtWork, Call, Single, Busy
  <2>4. FlightLists' /\ NoDebt' BY <2>1 DEF SerialInv, FlightLists, NoDebt
  <2> QED BY <1>4, <2>3, <2>4, StepIsLocal DEF Step
<1>5. ASSUME NEW r \in Request, EndAdd(r) PROVE SerialInv'
  <2>1. pc[r] \in {"store", "link"} /\ UNCHANGED available BY <1>5 DEF EndAdd
  <2>2. seen[r] = list[Target(r)] BY <2>1 DEF SerialInv, AtWork
  <2>3. MayLose(r) = {{}} BY <2>2 DEF MayLose
  <2>4. list' = [list EXCEPT ![Target(r)] = @ \cup {This(r)}]
    BY <1>5, <2>3 DEF EndAdd
  <2>5. Target(r) \in Flight \cup Client BY <1>0, CallFacts
  <2>6. Target(r) \in Flight => Place(This(r)) = Target(r)
    BY <1>0, <2>1, CallFacts, ReservationsAssumption DEF Target, Place, This, Call
  <2>7. FlightLists'
    BY <1>0, <2>4, <2>5, <2>6 DEF SerialInv, FlightLists, TypeOK, Place
  <2>8. NoDebt' BY <2>1 DEF SerialInv, NoDebt
  <2>9. CASE pc[r] = "store"
    <3>1. pc'[r] = "read" /\ at' = at BY <1>0, <1>5, <2>9 DEF EndAdd, TypeOK
    <3>2. Target(r) = Call(r).flight BY <2>9 DEF Target
    <3>3. This(r) \in list'[Call(r).flight] BY <1>0, <2>4, <2>5, <3>2 DEF TypeOK
    <3>4. AtWork(r)' BY <2>1, <2>9, <3>1, <3>3 DEF SerialInv, AtWork, Call, Single, Busy, This
    <3> QED BY <1>5, <2>7, <2>8, <3>4, StepIsLocal DEF Step
  <2>10. CASE pc[r] = "link"
    <3>1. pc'[r] \in {"check", "answered"}
      BY <1>0, <1>5, <2>10 DEF EndAdd, NextCall, Answer, TypeOK
    <3>2. AtWork(r)' BY <3>1, BystanderNext DEF Busy
    <3> QED BY <1>5, <2>7, <2>8, <3>2, StepIsLocal DEF Step
  <2> QED BY <2>1, <2>9, <2>10
<1>6. ASSUME NEW r \in Request, ReadCounter(r) PROVE SerialInv'
  <2>1. /\ UNCHANGED <<available, list, at>> /\ pc[r] = "read" /\ pc'[r] = "write"
        /\ copy'[r] = available[Call(r).flight][Call(r).class]
    BY <1>0, <1>6 DEF ReadCounter, TypeOK
  <2>2. AtWork(r)' BY <2>1 DEF SerialInv, AtWork, Call, Single, Busy, This
  <2>3. FlightLists' /\ NoDebt' BY <2>1 DEF SerialInv, FlightLists, NoDebt
  <2> QED BY <1>6, <2>2, <2>3, StepIsLocal DEF Step
<1>7. ASSUME NEW r \in Request, WriteCounter(r) PROVE SerialInv'
  <2> DEFINE f == Call(r).flight
             c == Call(r).class
  <2>1. /\ UNCHANGED <<list, at>> /\ pc[r] = "write" /\ pc'[r] = "own"
        /\ available' = [available EXCEPT ![f][c] = copy[r] - SeatsOfCall(r)]
    BY <1>0, <1>7 DEF WriteCounter, TypeOK
  <2>2. AtWork(r)' BY <2>1 DEF SerialInv, AtWork, Call, Single, Busy
  <2>3. FlightLists' BY <2>1 DEF SerialInv, FlightLists
  <2>4. f \in Flight /\ c \in Class BY <1>0, CallFacts
  <2>5. c = "turista" =>
          copy[r] = available[f]["turista"] /\ copy[r] > 0 /\ SeatsOfCall(r) = 1
    BY <2>1 DEF SerialInv, AtWork, Busy, SeatsOfCall
  <2>6. ASSUME NEW g \in Flight PROVE available'[g]["turista"] >= 0
    <3>1. available[g]["turista"] >= 0 BY DEF SerialInv, NoDebt
    <3>2. CASE g = f /\ c = "turista"
      <4>1. available'[g]["turista"] = copy[r] - 1
        BY <1>0, <2>1, <2>4, <2>5, <3>2 DEF TypeOK
      <4>2. copy[r] \in Int BY <1>0 DEF TypeOK
      <4> QED BY <2>5, <3>2, <4>1, <4>2
    <3>3. CASE ~(g = f /\ c = "turista")
      <4>1. available'[g]["turista"] = available[g]["turista"]
        BY <1>0, <2>1, <2>4, <3>3 DEF TypeOK
      <4> QED BY <3>1, <4>1
    <3> QED BY <3>2, <3>3
  <2>7. NoDebt' BY <2>6 DEF NoDebt
  <2> QED BY <1>7, <2>2, <2>3, <2>7, StepIsLocal DEF Step
<1>8. CASE UNCHANGED vars
  <2>1. ListInv' BY StepList DEF SerialInv
  <2> QED BY <1>8, <2>1
          DEF vars, SerialInv, OneAtATime, FlightLists, NoDebt, AtWork, Target, Call, This, Single
<1>9. \A r \in Request : ~AddFails(r) BY NoAddFailsAlone DEF SerialInv
<1> QED BY <1>1, <1>2, <1>3, <1>4, <1>5, <1>6, <1>7, <1>8, <1>9 DEF Next, Step, Rest

(***************************************************************************)
(* What a step does to the books of one class of one flight: nothing, or   *)
(* it writes the counter and so gives a reservation its seats.             *)
(***************************************************************************)
\* the reservations of a class that hold their seats: Held, for any class
HeldIn(g, c) ==
  {b \in list[g] : /\ Calls(b[1])[b[2]].class = c
                   /\ ~(pc[b[1]] \in {"read", "write"} /\ at[b[1]] = b[2])}

Seated(r, g, c) ==
  /\ r \in Request /\ pc[r] = "write" /\ Call(r).flight = g /\ Call(r).class = c
  /\ This(r) \notin HeldIn(g, c)
  /\ HeldIn(g, c)' = HeldIn(g, c) \cup {This(r)}
  /\ available'[g][c] = available[g][c] - SeatsOfCall(r)

BookKept(g, c) == HeldIn(g, c)' = HeldIn(g, c) /\ available'[g][c] = available[g][c]

NobodySeated == \A g \in Flight, c \in Class : BookKept(g, c)

OneSeated(r) ==
  \A g \in Flight, c \in Class :
    IF g = Call(r).flight /\ c = Call(r).class THEN Seated(r, g, c) ELSE BookKept(g, c)

\* A step that changes no list of a flight, no counter and nobody's place between
\* the list and the counter seats nobody.
LEMMA Stutter ==
  ASSUME TypeOK, UNCHANGED available,
         \A g \in Flight : list'[g] = list[g],
         \A s \in Request :
           /\ pc'[s] \in {"read", "write"} <=> pc[s] \in {"read", "write"}
           /\ pc[s] \in {"read", "write"} => at'[s] = at[s]
  PROVE  NobodySeated
<1>1. ASSUME NEW g \in Flight, NEW c \in Class PROVE HeldIn(g, c)' = HeldIn(g, c)
  <2>1. ASSUME NEW b \in list[g] PROVE b[1] \in Request
    BY DEF TypeOK, Reservation
  <2> QED BY <2>1 DEF HeldIn
<1> QED BY <1>1 DEF NobodySeated, BookKept

LEMMA NextCallPlace ==
  ASSUME TypeOK, NEW r \in Request, NextCall(r) \/ Answer(r, "error"),
         pc[r] \notin {"read", "write"}, NEW s \in Request
  PROVE  /\ pc'[s] \in {"read", "write"} <=> pc[s] \in {"read", "write"}
         /\ pc[s] \in {"read", "write"} => at'[s] = at[s]
BY DEF NextCall, Answer, TypeOK

\* No list holds the call that a request is about to put into one.
LEMMA NotYetListed ==
  ASSUME TypeOK, ListInv, NEW r \in Request, pc[r] = "store", NEW g \in Flight
  PROVE  This(r) \notin list[g]
<1>1. answer[r] = "none" BY DEF ListInv, AnsweredAtEnd, TypeOK
<1>2. at[r] \in DOMAIN Calls(r) /\ ~(at[r] < at[r]) BY CallFacts DEF TypeOK
<1> QED BY <1>1, <1>2 DEF ListInv, ListsHoldThePast, MayShow, This, Made

\* Alone, the end of an add puts the reservation into the list and loses nothing.
LEMMA AddedAlone ==
  ASSUME TypeOK, NEW r \in Request, AtWork(r), EndAdd(r)
  PROVE  list' = [list EXCEPT ![Target(r)] = @ \cup {This(r)}]
<1>1. pc[r] \in {"store", "link"} BY DEF EndAdd
<1>2. seen[r] = list[Target(r)] BY <1>1 DEF AtWork
<1>3. MayLose(r) = {{}} BY <1>2 DEF MayLose
<1> QED BY <1>3 DEF EndAdd

LEMMA StepSeats ==
  ASSUME MAX_ACTIVE = 1, SerialInv, [Next]_vars
  PROVE  NobodySeated \/ \E r \in Request : OneSeated(r)
<1>0. TypeOK /\ ListInv BY DEF SerialInv, ListInv
<1>1. ASSUME NEW r \in Request, View(r) \/ Start(r) \/ Accept(r) \/ Copied(r)
                                \/ BeginAdd(r) \/ ReadCounter(r)
      PROVE  NobodySeated
  <2>1. UNCHANGED <<available, list, at>>
    BY <1>1 DEF View, Start, Accept, Copied, BeginAdd, ReadCounter
  <2>2. ASSUME NEW s \in Request
        PROVE  pc'[s] \in {"read", "write"} <=> pc[s] \in {"read", "write"}
    BY <1>0, <1>1 DEF View, Start, Accept, Copied, BeginAdd, ReadCounter, TypeOK
  <2> QED BY <1>0, <2>1, <2>2, Stutter
<1>2. ASSUME NEW r \in Request, Refuse(r) \/ PassOver(r) \/ CopyFails(r)
      PROVE  NobodySeated
  <2>1. /\ UNCHANGED <<available, list>> /\ pc[r] \notin {"read", "write"}
        /\ NextCall(r) \/ Answer(r, "error")
    BY <1>2 DEF Refuse, PassOver, CopyFails
  <2> QED BY <1>0, <2>1, NextCallPlace, Stutter
<1>3. ASSUME NEW r \in Request, EndAdd(r)
      PROVE  NobodySeated
  <2>1. pc[r] \in {"store", "link"} /\ UNCHANGED available BY <1>3 DEF EndAdd
  <2>4. list' = [list EXCEPT ![Target(r)] = @ \cup {This(r)}]
    BY <1>0, <1>3, AddedAlone DEF SerialInv
  <2>5. CASE pc[r] = "link"
    <3>1. Target(r) \notin Flight
      BY <1>0, <2>5, CallFacts, ReservationsAssumption DEF Target
    <3>2. \A g \in Flight : list'[g] = list[g] BY <1>0, <2>4, <3>1 DEF TypeOK
    <3>3. NextCall(r) BY <1>3, <2>5 DEF EndAdd
    <3> QED BY <1>0, <2>1, <2>5, <3>2, <3>3, NextCallPlace, Stutter
  <2>6. CASE pc[r] = "store"
    <3>1. at' = at /\ pc' = [pc EXCEPT ![r] = "read"] BY <1>3, <2>6 DEF EndAdd
    <3>2. ASSUME NEW g \in Flight, NEW c \in Class PROVE HeldIn(g, c)' = HeldIn(g, c)
      <4>1. list'[g] = list[g] \/ list'[g] = list[g] \cup {This(r)}
        BY <1>0, <2>4 DEF TypeOK
      <4>2. This(r) \notin list[g] BY <1>0, <2>6, NotYetListed
      <4>3. ASSUME NEW b \in list'[g] PROVE b[1] \in Request /\ b = <<b[1], b[2]>>
        <5>1. b \in Reservation BY <1>0, <4>1, <4>3, CallFacts DEF TypeOK
        <5>2. PICK s \in Request : b \in {s} \X DOMAIN Calls(s) BY <5>1 DEF Reservation
        <5> QED BY <5>2
      <4>4. pc'[r] = "read" /\ \A s \in Request : s # r => pc'[s] = pc[s]
        BY <1>0, <3>1 DEF TypeOK
      <4>5. ASSUME NEW b PROVE b \in HeldIn(g, c)' <=> b \in HeldIn(g, c)
        <5>1. CASE b = This(r)
          <6>1. b[1] = r /\ b[2] = at[r] BY <5>1 DEF This
          <6> QED BY <3>1, <4>2, <4>4, <5>1, <6>1 DEF HeldIn
        <5>2. CASE b # This(r) /\ b \in list[g]
          <6>1. b \in list'[g] BY <4>1, <5>2
          <6>2. b[1] \in Request /\ (b[1] = r => b[2] # at[r])
            BY <4>3, <5>2, <6>1 DEF This
          <6> QED BY <2>6, <3>1, <4>4, <5>2, <6>1, <6>2 DEF HeldIn
        <5>3. CASE b # This(r) /\ b \notin list[g]
          <6>1. b \notin list'[g] BY <4>1, <5>3
          <6> QED BY <5>3, <6>1 DEF HeldIn
        <5> QED BY <5>1, <5>2, <5>3
      <4> QED BY <4>5 DEF HeldIn
    <3> QED BY <2>1, <3>2 DEF NobodySeated, BookKept
  <2> QED BY <2>1, <2>5, <2>6
<1>4. ASSUME NEW r \in Request, WriteCounter(r)
      PROVE  OneSeated(r)
  <2> DEFINE f == Call(r).flight
             d == Call(r).class
  <2>1. /\ UNCHANGED <<list, at>> /\ pc[r] = "write" /\ pc' = [pc EXCEPT ![r] = "own"]
        /\ available' = [available EXCEPT ![f][d] = copy[r] - SeatsOfCall(r)]
    BY <1>4 DEF WriteCounter
  <2>2. f \in Flight /\ d \in Class BY <1>0, CallFacts
  <2>3. This(r) \in list[f] /\ copy[r] = available[f][d]
    BY <2>1 DEF SerialInv, AtWork
  <2>4. \A g \in Flight : This(r) \in list[g] => g = f
    BY <2>3 DEF SerialInv, FlightLists, Place, This, Call
  <2>5. This(r) \in Reservation /\ This(r)[1] = r /\ This(r)[2] = at[r]
        /\ Calls(This(r)[1])[This(r)[2]].class = d
    BY <1>0, CallFacts DEF This, Call
  <2>6. pc'[r] = "own" /\ \A s \in Request : s # r => pc'[s] = pc[s]
    BY <1>0, <2>1 DEF TypeOK
  <2>7. ASSUME NEW g \in Flight, NEW c \in Class, NEW b, b # This(r)
        PROVE  b \in HeldIn(g, c)' <=> b \in HeldIn(g, c)
    <3>1. CASE b \in list[g]
      <4>1. b[1] \in Request /\ (b[1] = r => b[2] # at[r])
        BY <1>0, <2>7, <3>1 DEF TypeOK, Reservation, This
      <4> QED BY <2>1, <2>6, <3>1, <4>1 DEF HeldIn
    <3>2. CASE b \notin list[g] BY <2>1, <3>2 DEF HeldIn
    <3> QED BY <3>1, <3>2
  <2>8. ASSUME NEW g \in Flight, NEW c \in Class
        PROVE  /\ This(r) \notin HeldIn(g, c)
               /\ This(r) \in HeldIn(g, c)' <=> g = f /\ c = d
    BY <2>1, <2>3, <2>4, <2>5, <2>6 DEF HeldIn
  <2>9. ASSUME NEW g \in Flight, NEW c \in Class
        PROVE  IF g = f /\ c = d THEN Seated(r, g, c) ELSE BookKept(g, c)
    <3>1. CASE g = f /\ c = d
      <4>1. \A b : b \in HeldIn(g, c)' <=> b \in HeldIn(g, c) \cup {This(r)}
        BY <2>7, <2>8, <3>1
      <4>2. HeldIn(g, c)' = HeldIn(g, c) \cup {This(r)}
        BY <4>1 DEF HeldIn
      <4>3. available'[g][c] = available[g][c] - SeatsOfCall(r)
        BY <1>0, <2>1, <2>2, <2>3, <3>1 DEF TypeOK
      <4> QED BY <2>1, <2>8, <3>1, <4>2, <4>3 DEF Seated
    <3>2. CASE ~(g = f /\ c = d)
      <4>1. \A b : b \in HeldIn(g, c)' <=> b \in HeldIn(g, c)
        BY <2>7, <2>8, <3>2
      <4>2. HeldIn(g, c)' = HeldIn(g, c)
        BY <4>1 DEF HeldIn
      <4>3. available'[g][c] = available[g][c]
        BY <1>0, <2>1, <2>2, <3>2 DEF TypeOK
      <4> QED BY <3>2, <4>2, <4>3 DEF BookKept
    <3> QED BY <3>1, <3>2
  <2> QED BY <2>9 DEF OneSeated
<1>5. CASE UNCHANGED vars
  BY <1>5 DEF vars, NobodySeated, BookKept, HeldIn
<1>6. \A r \in Request : ~AddFails(r) BY NoAddFailsAlone DEF SerialInv
<1> QED BY <1>1, <1>2, <1>3, <1>4, <1>5, <1>6 DEF Next, Step, Rest

(***************************************************************************)
(* The step that sells.                                                    *)
(***************************************************************************)
LEMMA StepSells ==
  ASSUME MAX_ACTIVE = 1, SerialInv, [Next]_vars
  PROVE  [Sale!Next]_<<[g \in Flight |-> available[g]["turista"]],
                       [g \in Flight |-> Held(g)]>>
<1>0. TypeOK BY DEF SerialInv, ListInv
<1>1. "turista" \in Class BY DEF Class
<1>2. \A g \in Flight : Held(g) = HeldIn(g, "turista") /\ Held(g)' = HeldIn(g, "turista")'
  BY DEF Held, HeldIn
<1>3. ASSUME \A g \in Flight : BookKept(g, "turista")
      PROVE  UNCHANGED <<[g \in Flight |-> available[g]["turista"]],
                         [g \in Flight |-> Held(g)]>>
  BY <1>2, <1>3 DEF BookKept
<1>4. ASSUME NEW r \in Request, OneSeated(r), Call(r).class = "turista"
      PROVE  Sale!Next
  <2>1. PICK f \in Flight : f = Call(r).flight BY <1>0, CallFacts
  <2>2. Seated(r, f, "turista") /\ \A g \in Flight : g # f => BookKept(g, "turista")
    BY <1>1, <1>4, <2>1 DEF OneSeated
  <2>3. available[f]["turista"] > 0 /\ SeatsOfCall(r) = 1
    BY <1>4, <2>1, <2>2 DEF SerialInv, AtWork, Busy, SeatsOfCall, Seated
  <2>4. [g \in Flight |-> available'[g]["turista"]]
          = [[g \in Flight |-> available[g]["turista"]] EXCEPT ![f] = @ - 1]
    BY <2>1, <2>2, <2>3 DEF Seated, BookKept
  <2>5. [g \in Flight |-> Held(g)]'
          = [[g \in Flight |-> Held(g)] EXCEPT ![f] = @ \cup {This(r)}]
    <3>1. ASSUME NEW g \in Flight
          PROVE  Held(g)' = IF g = f THEN Held(g) \cup {This(r)} ELSE Held(g)
      <4>1. Held(g) = HeldIn(g, "turista") /\ Held(g)' = HeldIn(g, "turista")' BY <1>2
      <4>2. HeldIn(f, "turista")' = HeldIn(f, "turista") \cup {This(r)}
        BY <2>2 DEF Seated
      <4>3. g # f => HeldIn(g, "turista")' = HeldIn(g, "turista")
        BY <2>2 DEF BookKept
      <4> QED BY <4>1, <4>2, <4>3
    <3> QED BY <2>1, <3>1
  <2>6. ASSUME NEW g \in Flight PROVE This(r) \notin Held(g)
    <3>1. CASE g = f BY <1>2, <2>2, <3>1 DEF Seated
    <3>2. CASE g # f
      <4>1. Place(This(r)) = f BY <2>1 DEF Place, This, Call
      <4> QED BY <3>2, <4>1 DEF SerialInv, FlightLists, Held
    <3> QED BY <3>1, <3>2
  <2>7. /\ [g \in Flight |-> available[g]["turista"]][f] > 0
        /\ \A g \in Flight : This(r) \notin [h \in Flight |-> Held(h)][g]
    BY <2>1, <2>3, <2>6
  <2>8. PICK g \in Flight, b \in Reservation : g = f /\ b = This(r)
    BY <1>0, <2>1, CallFacts
  <2>9. Sale!Sell(g, b)
    BY <2>4, <2>5, <2>7, <2>8 DEF Sale!Sell
  <2> QED BY <2>8, <2>9 DEF Sale!Next
<1>5. ASSUME NEW r \in Request, OneSeated(r), Call(r).class # "turista"
      PROVE  \A g \in Flight : BookKept(g, "turista")
  BY <1>1, <1>5 DEF OneSeated
<1> QED BY <1>1, <1>3, <1>4, <1>5, StepSeats DEF NobodySeated

\* With one request at a time a tourist seat is sold to one reservation and only
\* while there is one: ingresarDatosVuelo and ingresarNombres never oversell the
\* class, whatever forms and visits there are and in whatever order they come.
THEOREM TouristSale ==
  ASSUME MAX_ACTIVE = 1
  PROVE  Spec => TouristSeatsAreSoldOnce
<1>1. Init => Sale!Init
  BY DEF Init, Sale!Init, Held
<1>2. Init => SerialInv BY InitSerial
<1>3. SerialInv /\ [Next]_vars => SerialInv' BY StepSerial
<1>4. SerialInv /\ [Next]_vars =>
        [Sale!Next]_<<[f \in Flight |-> available[f]["turista"]],
                      [f \in Flight |-> Held(f)]>>
  BY StepSells
<1>5. Spec => []SerialInv
  BY <1>2, <1>3, PTL DEF Spec
<1>6. Spec => [][Sale!Next]_<<[f \in Flight |-> available[f]["turista"]],
                      [f \in Flight |-> Held(f)]>>
  BY <1>4, <1>5, PTL DEF Spec
<1>7. Spec => Sale!Init
  BY <1>1, PTL DEF Spec
<1>8. Spec => Sale!Spec
  BY <1>6, <1>7, PTL DEF Sale!Spec
<1> QED BY <1>8 DEF TouristSeatsAreSoldOnce

-----------------------------------------------------------------------------
(***************************************************************************)
(* The books. A reservation is entered in the list of the flight, then     *)
(* charged to the counter, then entered in the account of the client; one  *)
(* request at a time, only the reservation being made can be between these *)
(* entries.                                                                *)
(***************************************************************************)
Entered == {"read", "write", "own", "link"}

Underway(b) == pc[b[1]] \in Entered /\ at[b[1]] = b[2]

Accounts ==
  /\ \A g \in Flight : \A b \in list[g] : b \in list[Owner(b)] \/ Underway(b)
  /\ \A k \in Client : \A b \in list[k] : b \in list[Place(b)]
  /\ \A r \in Request : pc[r] \in Entered => This(r) \in list[Call(r).flight]

\* the seats that the reservations of S took off
Taken(S) == [b \in S |-> SeatsTaken(b)]

Counters ==
  \A g \in Flight, c \in Class :
    Total(HeldIn(g, c), Taken(HeldIn(g, c)), Seats[g][c] - available[g][c])

Books == SerialInv /\ Accounts /\ Counters

\* what BooksBalance adds up, with MapThenSumSet written out
Sum(S) ==
  LET iter[s \in SUBSET S] ==
        IF s = {} THEN 0
        ELSE LET x == CHOOSE x \in s : TRUE
             IN  SeatsTaken(x) + iter[s \ {x}]
  IN  iter[S]

LEMMA ReservationFacts ==
  ASSUME NEW b \in Reservation
  PROVE  /\ b[1] \in Request /\ b[2] \in DOMAIN Calls(b[1]) /\ b = <<b[1], b[2]>>
         /\ Place(b) \in Flight /\ Owner(b) \in Client
         /\ SeatsTaken(b) \in Nat
<1>1. b[1] \in Request /\ b[2] \in DOMAIN Calls(b[1]) /\ b = <<b[1], b[2]>>
  <2>1. PICK s \in Request : b \in {s} \X DOMAIN Calls(s) BY DEF Reservation
  <2> QED BY <2>1
<1>2. Calls(b[1])[b[2]] \in BookingType BY <1>1, CallsAreBookings, ElementOfSeq
<1> QED BY <1>1, <1>2 DEF BookingType, Place, Owner, SeatsTaken, Persons

LEMMA ReservationsAreFew == IsFiniteSet(Reservation)
<1>1. ASSUME NEW r \in Request PROVE IsFiniteSet({r} \X DOMAIN Calls(r))
  <2>1. IsFiniteSet({r}) BY FS_Singleton
  <2>2. IsFiniteSet(1 .. Len(Calls(r))) BY CallsAreBookings, FS_Interval
  <2>3. IsFiniteSet(DOMAIN Calls(r)) BY <2>2, CallsAreBookings
  <2> QED BY <2>1, <2>3, FS_Product
<1> DEFINE Family == {{r} \X DOMAIN Calls(r) : r \in Request}
<1>2. IsFiniteSet(Family)
  <2> DEFINE calls == [r \in Request |-> {r} \X DOMAIN Calls(r)]
  <2>1. IsFiniteSet(Request) BY ReservationsAssumption
  <2>2. calls \in Surjection(Request, Family) BY DEF Surjection
  <2> HIDE DEF calls, Family
  <2> QED BY <2>1, <2>2, FS_Surjection
<1>3. \A S \in Family : IsFiniteSet(S) BY <1>1
<1> HIDE DEF Family
<1>4. IsFiniteSet(UNION Family) BY <1>2, <1>3, FS_UNION
<1> QED BY <1>4 DEF Family, Reservation

LEMMA SumOfSeats ==
  ASSUME NEW S \in SUBSET Reservation
  PROVE  Total(S, Taken(S), Sum(S))
<1> DEFINE f == Taken(S)
           iter[s \in SUBSET S] ==
             IF s = {} THEN 0
             ELSE LET x == CHOOSE x \in s : TRUE
                  IN  SeatsTaken(x) + iter[s \ {x}]
<1>0. IsFiniteSet(S) BY ReservationsAreFew, FS_Subset
<1>1. f \in [S -> Nat] BY ReservationFacts DEF Taken
<1>2. Sum(S) = iter[S]
  BY DEF Sum
<1>3. PICK g : Totals(S, f, g)
  BY <1>0, <1>1, TotalsExist
<1>4. \A s \in SUBSET S : s # {} => f[Some(s)] = SeatsTaken(CHOOSE x \in s : TRUE)
  BY SomeIsElement DEF Some, Taken
<1>5. g = [s \in SUBSET S |-> IF s = {} THEN 0
                              ELSE LET x == CHOOSE x \in s : TRUE
                                   IN  SeatsTaken(x) + g[s \ {x}]]
  <2>1. \A s \in SUBSET S : g[s] = IF s = {} THEN 0
                                   ELSE LET x == CHOOSE x \in s : TRUE
                                        IN  SeatsTaken(x) + g[s \ {x}]
    <3> HIDE DEF f
    <3> QED
      BY <1>3, <1>4 DEF Totals, Some
  <2>2. g = [s \in SUBSET S |-> g[s]]
    BY <1>3 DEF Totals
  <2> QED
    BY <2>1, <2>2
<1>6. iter = [s \in SUBSET S |-> IF s = {} THEN 0
                                 ELSE LET x == CHOOSE x \in s : TRUE
                                      IN  SeatsTaken(x) + iter[s \ {x}]]
  BY <1>5
<1> HIDE DEF iter
<1>7. iter = [s \in SUBSET S |-> IF s = {} THEN 0 ELSE f[Some(s)] + iter[s \ {Some(s)}]]
  <2>1. \A s \in SUBSET S : iter[s] = IF s = {} THEN 0 ELSE f[Some(s)] + iter[s \ {Some(s)}]
    <3> HIDE DEF f
    <3> QED
      BY <1>4, <1>6 DEF Some
  <2>2. iter = [s \in SUBSET S |-> iter[s]]
    BY <1>6
  <2> QED
    BY <2>1, <2>2
<1>8. Totals(S, f, iter)
  <2> HIDE DEF f
  <2> QED
    BY <1>0, <1>1, <1>7, DefinedTotals
<1> QED
  BY <1>2, <1>8 DEF Total

LEMMA InitBooks == Init => Books
<1> SUFFICES ASSUME Init PROVE Books OBVIOUS
<1>1. Accounts
  BY ReservationsAssumption DEF Init, Accounts, Entered
<1>2. Counters
  <2> SUFFICES ASSUME NEW g \in Flight, NEW c \in Class
               PROVE  Total(HeldIn(g, c), Taken(HeldIn(g, c)), Seats[g][c] - available[g][c])
    BY DEF Counters
  <2>1. HeldIn(g, c) = {} BY DEF Init, HeldIn
  <2>2. Seats[g][c] - available[g][c] = 0 BY ReservationsAssumption DEF Init
  <2> QED BY <2>1, <2>2, TotalOfNone
<1> QED BY <1>1, <1>2, InitSerial DEF Books

LEMMA CountersKept ==
  ASSUME MAX_ACTIVE = 1, SerialInv, Counters, [Next]_vars
  PROVE  Counters'
<1> SUFFICES ASSUME NEW g \in Flight, NEW c \in Class
             PROVE  Total(HeldIn(g, c), Taken(HeldIn(g, c)), Seats[g][c] - available[g][c])'
  BY DEF Counters
<1>0. TypeOK BY DEF SerialInv, ListInv
<1>1. HeldIn(g, c) \subseteq Reservation BY <1>0 DEF HeldIn, TypeOK
<1>2. Total(HeldIn(g, c), Taken(HeldIn(g, c)), Seats[g][c] - available[g][c])
  BY DEF Counters
<1>3. CASE BookKept(g, c)
  <2>1. Taken(HeldIn(g, c))' = Taken(HeldIn(g, c)) BY <1>3 DEF BookKept, Taken
  <2> QED BY <1>2, <1>3, <2>1 DEF BookKept
<1>4. ASSUME NEW r \in Request, Seated(r, g, c)
      PROVE  Total(HeldIn(g, c), Taken(HeldIn(g, c)), Seats[g][c] - available[g][c])'
  <2> DEFINE S == HeldIn(g, c)
             n == Seats[g][c] - available[g][c]
  <2>1. PICK x : x = This(r) OBVIOUS
  <2>2. x \in Reservation /\ x \notin S /\ SeatsTaken(x) \in Nat
    BY <1>0, <1>4, <2>1, CallFacts, ReservationFacts DEF Seated
  <2>3. SeatsTaken(x) = SeatsOfCall(r)
    BY <2>1 DEF SeatsTaken, Persons, SeatsOfCall, Single, Call, This
  <2>4. HeldIn(g, c)' = S \cup {x} BY <1>4, <2>1 DEF Seated
  <2>5. IsFiniteSet(S) BY <1>1, ReservationsAreFew, FS_Subset
  <2>6. Taken(S) \in [S -> Nat] /\ Taken(S \cup {x}) \in [S \cup {x} -> Nat]
    BY <1>1, <2>2, ReservationFacts DEF Taken
  <2>7. Taken(S \cup {x})[x] = SeatsTaken(x) /\ \A b \in S : Taken(S \cup {x})[b] = Taken(S)[b]
    BY DEF Taken
  <2>8. Taken(HeldIn(g, c))' = Taken(S \cup {x}) BY <2>4 DEF Taken
  <2>9. (Seats[g][c] - available[g][c])' = SeatsTaken(x) + n
    <3>1. available[g][c] \in Int /\ Seats[g][c] \in Nat
      BY <1>0, ReservationsAssumption DEF TypeOK
    <3>2. available'[g][c] = available[g][c] - SeatsTaken(x)
      BY <1>4, <2>3 DEF Seated
    <3> QED BY <2>2, <3>1, <3>2
  <2>10. Total(S \cup {x}, Taken(S \cup {x}), SeatsTaken(x) + n)
    <3> HIDE DEF S, n
    <3> QED BY <1>2, <2>2, <2>5, <2>6, <2>7, TotalWithOneMore DEF S, n
  <2> HIDE DEF S, n
  <2> QED BY <2>4, <2>8, <2>9, <2>10
<1>5. ASSUME NEW r \in Request, OneSeated(r)
      PROVE  BookKept(g, c) \/ Seated(r, g, c)
  BY <1>5 DEF OneSeated
<1> QED BY <1>3, <1>4, <1>5, StepSeats DEF NobodySeated

\* A step that changes no list and takes nobody into a reservation or out of it.
LEMMA AccountsUntouched ==
  ASSUME TypeOK, Accounts, UNCHANGED list,
         \A s \in Request :
           /\ pc'[s] \in Entered <=> pc[s] \in Entered
           /\ pc[s] \in Entered => at'[s] = at[s]
  PROVE  Accounts'
<1>1. ASSUME NEW l \in Flight \cup Client, NEW b \in list[l]
      PROVE  Underway(b)' <=> Underway(b)
  <2>1. b[1] \in Request BY ReservationFacts DEF TypeOK
  <2> QED BY <2>1 DEF Underway
<1>2. \A s \in Request : pc'[s] \in Entered => This(s)' = This(s) /\ Call(s)' = Call(s)
  BY DEF This, Call
<1> QED BY <1>1, <1>2 DEF Accounts

\* The end of an add enters the reservation in the list of the flight, or in the
\* account of the client.
LEMMA EndAddAccounts ==
  ASSUME MAX_ACTIVE = 1, SerialInv, Accounts, NEW r \in Request, EndAdd(r)
  PROVE  Accounts'
<1>0. TypeOK BY DEF SerialInv, ListInv
<1>1. list' = [list EXCEPT ![Target(r)] = @ \cup {This(r)}]
  BY <1>0, AddedAlone DEF SerialInv
<1>2. PICK x \in Reservation : x = This(r) /\ x[1] = r /\ x[2] = at[r]
  BY <1>0, CallFacts DEF This
<1>3. Place(x) = Call(r).flight /\ Owner(x) = Call(r).client
  BY <1>2 DEF Place, Owner, Call, This
<1>4. PICK t \in Flight \cup Client : t = Target(r)
  BY <1>0, CallFacts
<1>5. \A l \in Flight \cup Client :
        list'[l] = IF l = t THEN list[l] \cup {x} ELSE list[l]
  BY <1>0, <1>1, <1>2, <1>4 DEF TypeOK
<1>6. \A s \in Request : s # r => pc'[s] = pc[s] /\ at'[s] = at[s]
  BY <1>0 DEF EndAdd, NextCall, Answer, TypeOK
<1>7. ASSUME NEW l \in Flight \cup Client, NEW b \in list[l], b[1] # r
      PROVE  Underway(b)' <=> Underway(b)
  <2>1. b[1] \in Request BY <1>0, ReservationFacts DEF TypeOK
  <2> QED BY <1>6, <1>7, <2>1 DEF Underway
<1>8. CASE pc[r] = "store"
  <2>1. t = Place(x) /\ t \in Flight
    BY <1>0, <1>3, <1>4, <1>8, CallFacts DEF Target
  <2>2. pc'[r] = "read" /\ at'[r] = at[r] BY <1>0, <1>8 DEF EndAdd, TypeOK
  <2>3. Underway(x)' BY <1>2, <2>2 DEF Underway, Entered
  <2>4. ASSUME NEW g \in Flight, NEW b \in list'[g]
        PROVE  b \in list'[Owner(b)] \/ Underway(b)'
    <3>1. CASE b = x BY <2>3, <3>1
    <3>2. CASE b # x
      <4>1. b \in list[g] /\ b \in Reservation BY <1>0, <1>5, <2>4, <3>2 DEF TypeOK
      <4>2. Owner(b) \in Client BY <4>1, ReservationFacts
      <4>3. b \in list[Owner(b)] \/ Underway(b) BY <4>1 DEF Accounts
      <4>4. Underway(b) => b[1] # r BY <1>8 DEF Underway, Entered
      <4> QED BY <1>5, <1>7, <4>1, <4>2, <4>3, <4>4
    <3> QED BY <3>1, <3>2
  <2>5. ASSUME NEW k \in Client, NEW b \in list'[k]
        PROVE  b \in list'[Place(b)]
    <3>1. b \in list[k] BY <1>5, <2>1, ReservationsAssumption
    <3>2. b \in Reservation BY <1>0, <3>1 DEF TypeOK
    <3>3. b \in list[Place(b)] /\ Place(b) \in Flight BY <3>1, <3>2, ReservationFacts DEF Accounts
    <3> QED BY <1>5, <3>3
  <2>6. ASSUME NEW s \in Request, pc'[s] \in Entered
        PROVE  This(s)' \in list'[Call(s)'.flight]
    <3>1. CASE s = r
      <4>1. This(s)' = x /\ Call(s)'.flight = Place(x)
        BY <1>2, <1>3, <2>2, <3>1 DEF This, Call
      <4> QED BY <1>5, <2>1, <4>1
    <3>2. CASE s # r
      <4>1. pc[s] \in Entered /\ This(s)' = This(s) /\ Call(s)' = Call(s)
        BY <1>6, <2>6, <3>2 DEF This, Call
      <4>2. This(s) \in list[Call(s).flight] /\ Call(s).flight \in Flight
        BY <1>0, <4>1, CallFacts DEF Accounts
      <4> QED BY <1>5, <4>1, <4>2
    <3> QED BY <3>1, <3>2
  <2> QED BY <2>4, <2>5, <2>6 DEF Accounts
<1>9. CASE pc[r] = "link"
  <2>1. t = Owner(x) /\ t \in Client
    BY <1>0, <1>3, <1>4, <1>9, CallFacts DEF Target
  <2>2. pc'[r] \notin Entered
    BY <1>0, <1>9 DEF EndAdd, NextCall, Answer, TypeOK, Entered
  <2>3. x \in list[Place(x)] BY <1>2, <1>3, <1>9 DEF Accounts, Entered
  <2>4. ASSUME NEW g \in Flight, NEW b \in list'[g]
        PROVE  b \in list'[Owner(b)] \/ Underway(b)'
    <3>1. b \in list[g] BY <1>5, <2>1, ReservationsAssumption
    <3>2. CASE b = x BY <1>5, <2>1, <3>2
    <3>3. CASE b # x
      <4>1. b \in Reservation BY <1>0, <3>1 DEF TypeOK
      <4>2. Owner(b) \in Client /\ b = <<b[1], b[2]>> BY <4>1, ReservationFacts
      <4>3. b \in list[Owner(b)] \/ Underway(b) BY <3>1 DEF Accounts
      <4>4. Underway(b) => b[1] # r BY <1>2, <3>3, <4>2 DEF Underway, This
      <4> QED BY <1>5, <1>7, <3>1, <4>2, <4>3, <4>4
    <3> QED BY <3>2, <3>3
  <2>5. ASSUME NEW k \in Client, NEW b \in list'[k]
        PROVE  b \in list'[Place(b)]
    <3>1. CASE b = x
      <4>1. Place(x) \in Flight BY ReservationFacts
      <4> QED BY <1>5, <2>3, <3>1, <4>1
    <3>2. CASE b # x
      <4>1. b \in list[k] BY <1>5, <3>2
      <4>2. b \in Reservation BY <1>0, <4>1 DEF TypeOK
      <4>3. b \in list[Place(b)] /\ Place(b) \in Flight BY <4>1, <4>2, ReservationFacts DEF Accounts
      <4> QED BY <1>5, <4>3
    <3> QED BY <3>1, <3>2
  <2>6. ASSUME NEW s \in Request, pc'[s] \in Entered
        PROVE  This(s)' \in list'[Call(s)'.flight]
    <3>1. s # r BY <2>2, <2>6
    <3>2. pc[s] \in Entered /\ This(s)' = This(s) /\ Call(s)' = Call(s)
      BY <1>6, <2>6, <3>1 DEF This, Call
    <3>3. This(s) \in list[Call(s).flight] /\ Call(s).flight \in Flight
      BY <1>0, <3>2, CallFacts DEF Accounts
    <3> QED BY <1>5, <3>2, <3>3
  <2> QED BY <2>4, <2>5, <2>6 DEF Accounts
<1> QED BY <1>8, <1>9 DEF EndAdd

LEMMA AccountsKept ==
  ASSUME MAX_ACTIVE = 1, SerialInv, Accounts, [Next]_vars
  PROVE  Accounts'
<1>0. TypeOK BY DEF SerialInv, ListInv
<1>1. ASSUME NEW r \in Request, View(r) \/ Start(r) \/ Accept(r) \/ Copied(r)
                                \/ BeginAdd(r) \/ ReadCounter(r) \/ WriteCounter(r)
      PROVE  Accounts'
  <2>1. UNCHANGED <<list, at>>
    BY <1>1 DEF View, Start, Accept, Copied, BeginAdd, ReadCounter, WriteCounter
  <2>2. ASSUME NEW s \in Request
        PROVE  pc'[s] \in Entered <=> pc[s] \in Entered
    BY <1>0, <1>1
       DEF View, Start, Accept, Copied, BeginAdd, ReadCounter, WriteCounter, TypeOK, Entered
  <2> QED BY <1>0, <2>1, <2>2, AccountsUntouched
<1>2. ASSUME NEW r \in Request, Refuse(r) \/ PassOver(r) \/ CopyFails(r)
      PROVE  Accounts'
  <2>1. /\ UNCHANGED list /\ pc[r] \notin Entered
        /\ NextCall(r) \/ Answer(r, "error")
    BY <1>2 DEF Refuse, PassOver, CopyFails, Entered
  <2>2. ASSUME NEW s \in Request
        PROVE  /\ pc'[s] \in Entered <=> pc[s] \in Entered
               /\ pc[s] \in Entered => at'[s] = at[s]
    BY <1>0, <2>1 DEF NextCall, Answer, TypeOK, Entered
  <2> QED BY <1>0, <2>1, <2>2, AccountsUntouched
<1>3. CASE UNCHANGED vars
  BY <1>0, <1>3, AccountsUntouched DEF vars
<1>4. \A r \in Request : ~AddFails(r) BY NoAddFailsAlone DEF SerialInv
<1> QED BY <1>1, <1>2, <1>3, <1>4, EndAddAccounts DEF Next, Step, Rest

\* With one request at a time the books balance whenever nobody is being served:
\* asientosTuristaDisponibles and asientosEjecutivoDisponibles of every flight are
\* its seats less what the reservations in its list took off, and the clients'
\* accounts together hold the reservations of the flights, no more and no fewer.
THEOREM SerialBooks ==
  ASSUME MAX_ACTIVE = 1
  PROVE  Spec => []BooksBalance
<1>1. Init => Books BY InitBooks
<1>2. Books /\ [Next]_vars => Books'
  BY StepSerial, AccountsKept, CountersKept DEF Books
<1>3. Books => BooksBalance
  <2>0. ASSUME Active = {} =>
                 /\ \A f \in Flight, c \in Class :
                      available[f][c] =
                        Seats[f][c] - Sum({b \in list[f] : Calls(b[1])[b[2]].class = c})
                 /\ UNION {list[f] : f \in Flight} = UNION {list[k] : k \in Client}
        PROVE  BooksBalance
    BY <2>0 DEF BooksBalance, MapThenSumSet, MapThenFoldSet, Sum
  <2> SUFFICES ASSUME Books, Active = {}
               PROVE  /\ \A f \in Flight, c \in Class :
                           available[f][c] =
                             Seats[f][c] - Sum({b \in list[f] : Calls(b[1])[b[2]].class = c})
                      /\ UNION {list[f] : f \in Flight} = UNION {list[k] : k \in Client}
    BY <2>0
  <2>1. TypeOK BY DEF Books, SerialInv, ListInv
  <2>2. \A r \in Request : pc[r] \notin Working BY DEF Active
  <2>3. ASSUME NEW l \in Flight \cup Client, NEW b \in list[l]
        PROVE  /\ b[1] \in Request /\ Place(b) \in Flight /\ Owner(b) \in Client
               /\ pc[b[1]] \notin {"read", "write"} /\ ~Underway(b)
    <3>1. b \in Reservation BY <2>1 DEF TypeOK
    <3> QED BY <2>2, <3>1, ReservationFacts DEF Working, Underway, Entered
  <2>4. ASSUME NEW f \in Flight, NEW c \in Class
        PROVE  available[f][c] =
                 Seats[f][c] - Sum({b \in list[f] : Calls(b[1])[b[2]].class = c})
    <3> DEFINE S == HeldIn(f, c)
               n == Seats[f][c] - available[f][c]
    <3>1. {b \in list[f] : Calls(b[1])[b[2]].class = c} = S BY <2>3 DEF HeldIn
    <3>2. S \in SUBSET Reservation BY <2>1 DEF HeldIn, TypeOK
    <3>3. IsFiniteSet(S) BY <3>2, ReservationsAreFew, FS_Subset
    <3>4. Taken(S) \in [S -> Nat] BY <3>2, ReservationFacts DEF Taken
    <3>5. Total(S, Taken(S), n) BY DEF Books, Counters
    <3>6. Total(S, Taken(S), Sum(S)) BY <3>2, SumOfSeats
    <3>7. n = Sum(S)
      <4> HIDE DEF S, n
      <4> QED BY <3>3, <3>4, <3>5, <3>6, TotalIsOne
    <3>8. available[f][c] \in Int /\ Seats[f][c] \in Nat
      BY <2>1, ReservationsAssumption DEF TypeOK
    <3>9. available[f][c] = Seats[f][c] - Sum(S) BY <3>7, <3>8
    <3> QED BY <3>1, <3>9
  <2>5. \A f \in Flight : \A b \in list[f] : b \in list[Owner(b)] /\ Owner(b) \in Client
    BY <2>3 DEF Books, Accounts
  <2>6. \A k \in Client : \A b \in list[k] : b \in list[Place(b)] /\ Place(b) \in Flight
    BY <2>3 DEF Books, Accounts
  <2>7. UNION {list[f] : f \in Flight} = UNION {list[k] : k \in Client}
    BY <2>5, <2>6
  <2> QED BY <2>4, <2>7
<1> QED BY <1>1, <1>2, <1>3, PTL DEF Spec
=============================================================================
