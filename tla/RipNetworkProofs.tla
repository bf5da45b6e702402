-------------------------- MODULE RipNetworkProofs --------------------------
(***************************************************************************)
(* Proofs about RipNetwork, for every set of routers, links and networks,  *)
(* and every bound: the invariants TypeOK, NoUnderestimate and             *)
(* DirectStays; NeverCounts, on networks without a cycle; RoutesDescend.   *)
(***************************************************************************)
EXTENDS RipNetwork, SequenceTheorems, TLAPS

USE DEF Cost

(***************************************************************************)
(* The rows.                                                               *)
(***************************************************************************)
LEMMA MaxAgeType == MAX_AGE \in Nat
BY RipAssumption DEF MAX_AGE

LEMMA RowTypes ==
  /\ NoRow \in Row
  /\ DirectRow \in Row
  /\ \A n \in Router, m \in 1 .. INFINITY - 1 : Learned(n, m) \in Row
  /\ \A row \in Row : Poisoned(row) \in Row /\ Aged(row) \in Row
<1>1. NoRow \in Row /\ DirectRow \in Row
  BY RipAssumption, MaxAgeType DEF Row, NoRow, DirectRow
<1>2. ASSUME NEW n \in Router, NEW m \in 1 .. INFINITY - 1
      PROVE  Learned(n, m) \in Row
  BY RipAssumption, MaxAgeType DEF Row, Learned
<1>3. ASSUME NEW row \in Row
      PROVE  Poisoned(row) \in Row /\ Aged(row) \in Row
  <2> DEFINE age == IF row.age < MAX_AGE THEN row.age + 1 ELSE row.age
  <2>1. row \in [valid : BOOLEAN, metric : 0 .. INFINITY, from : Router \cup {Nobody},
                 age : 0 .. MAX_AGE]
    BY DEF Row
  <2>2. age \in 0 .. MAX_AGE
    BY <2>1, MaxAgeType
  <2>3. Poisoned(row) = [valid |-> FALSE, metric |-> INFINITY, from |-> row.from, age |-> 0]
    BY DEF Poisoned
  <2>4. Aged(row) = [valid |-> row.valid, metric |-> row.metric, from |-> row.from, age |-> age]
    BY <2>1 DEF Aged
  <2>5. row.valid => row.metric \in 1 .. INFINITY - 1
    BY DEF Row
  <2>6. Poisoned(row) \in Row
    BY <2>1, <2>3, RipAssumption, MaxAgeType DEF Row
  <2> HIDE DEF age
  <2>7. Aged(row) \in Row
    BY <2>1, <2>2, <2>4, <2>5 DEF Row
  <2> QED BY <2>6, <2>7
<1> QED BY <1>1, <1>2, <1>3

\* What sr_rip_update_route makes of a row: a row, never nearer than both the row
\* and the advertisement allow, and a direct route stays as it is.
LEMMA UpdateRouteFacts ==
  ASSUME NEW row \in Row, NEW n \in Router, NEW adv \in 1 .. INFINITY
  PROVE  /\ UpdateRoute(row, n, adv) \in Row
         /\ \A least \in Nat :
              /\ row.valid => row.metric >= least
              /\ adv >= INFINITY \/ adv + Cost >= least
              /\ UpdateRoute(row, n, adv).valid
              => UpdateRoute(row, n, adv).metric >= least
         /\ row.valid /\ row.from = Nobody /\ row.metric = Cost
              => UpdateRoute(row, n, adv) = row
<1>1. CASE adv + Cost >= INFINITY
  <2>1. UpdateRoute(row, n, adv) = IF row.valid /\ row.from = n THEN Poisoned(row) ELSE row
    BY <1>1, RipAssumption DEF UpdateRoute
  <2>2. Poisoned(row) \in Row /\ ~Poisoned(row).valid
    BY RowTypes DEF Poisoned, Row
  <2>3. n # Nobody
    BY RipAssumption
  <2> QED BY <2>1, <2>2, <2>3
<1>2. CASE ~(adv + Cost >= INFINITY)
  <2>1. UpdateRoute(row, n, adv) =
          IF ~row.valid \/ row.from = n \/ adv + Cost < row.metric
          THEN Learned(n, adv + Cost) ELSE row
    BY <1>2, RipAssumption DEF UpdateRoute
  <2>2. adv + Cost \in 1 .. INFINITY - 1
    BY <1>2, RipAssumption
  <2>3. Learned(n, adv + Cost) \in Row /\ Learned(n, adv + Cost).metric = adv + Cost
    BY <2>2, RowTypes DEF Learned
  <2>4. n # Nobody /\ ~(adv + Cost < Cost) /\ ~(adv >= INFINITY)
    BY <1>2, RipAssumption
  <2> QED BY <2>1, <2>3, <2>4
<1> QED BY <1>1, <1>2

\* A row that becomes invalid or disappears was learned, and was invalid to disappear.
LEMMA TimerFacts ==
  ASSUME NEW row \in Row
  PROVE  /\ TimedOut(row) => row.from # Nobody /\ Poisoned(row) \in Row /\ ~Poisoned(row).valid
         /\ Collected(row) => ~row.valid
         /\ ~NoRow.valid
         /\ Aged(row).valid = row.valid /\ Aged(row).metric = row.metric
         /\ Aged(row).from = row.from
BY RowTypes DEF TimedOut, Collected, Poisoned, NoRow, Aged, Row

(***************************************************************************)
(* The frames under way tell no lies: what r says of a network is never    *)
(* less than the distance of r.                                            *)
(***************************************************************************)
Messages == Request \cup Response

Honest(r) ==
  {msg \in Messages :
     msg.kind = "response" =>
       \A d \in Dest : msg.metric[d] \in {0, INFINITY} \/ msg.metric[d] >= Dist[d][r]}

HonestFrames(f) ==
  /\ f \in [Link -> Seq(Messages)]
  /\ \A l \in Link : f[l] \in Seq(Honest(l[1]))

\* what the table t of router r may say
HonestTable(t, r) ==
  /\ t \in [Dest -> Row]
  /\ \A d \in Dest : t[d].valid => t[d].metric >= Dist[d][r]

LEMMA LinkTypes ==
  \A l \in Link : l[1] \in Router /\ l[2] \in Router /\ l = <<l[1], l[2]>>
BY NetworkAssumption

LEMMA HonestMessages == \A r : Honest(r) \subseteq Messages
BY DEF Honest

LEMMA PushSeq ==
  ASSUME NEW S, NEW q \in Seq(S), NEW msg \in S
  PROVE  Push(q, msg) \in Seq(S)
<1>1. CASE Len(q) < MAX_FLIGHT
  BY <1>1 DEF Push
<1>2. CASE ~(Len(q) < MAX_FLIGHT)
  <2>1. q # <<>>
    BY <1>2, NetworkAssumption, EmptySeq
  <2>2. Tail(q) \in Seq(S)
    BY <2>1, HeadTailProperties
  <2> QED BY <1>2, <2>2 DEF Push
<1> QED BY <1>1, <1>2

LEMMA OvertakeSeq ==
  ASSUME NEW S, NEW q \in Seq(S), Len(q) > 1
  PROVE  <<q[2], q[1]>> \o SubSeq(q, 3, Len(q)) \in Seq(S)
<1>1. Len(q) \in Nat /\ \A i \in 1 .. Len(q) : q[i] \in S
  BY LenProperties, ElementOfSeq
<1>2. <<q[2], q[1]>> \in Seq(S)
  BY <1>1
<1>3. SubSeq(q, 3, Len(q)) \in Seq(S)
  BY <1>1, SubSeqProperties
<1> QED BY <1>2, <1>3, ConcatProperties

\* a frame that is received, or lost, leaves honest frames behind
LEMMA TakenFacts ==
  ASSUME NEW f, HonestFrames(f), NEW l \in Link, f[l] # <<>>
  PROVE  HonestFrames(Taken(f, l)) /\ Head(f[l]) \in Honest(l[1])
<1>1. \A S : f[l] \in Seq(S) => Head(f[l]) \in S /\ Tail(f[l]) \in Seq(S)
  BY HeadTailProperties
<1>2. f[l] \in Seq(Messages) /\ f[l] \in Seq(Honest(l[1]))
  BY DEF HonestFrames
<1>3. Taken(f, l) = [k \in Link |-> IF k = l THEN Tail(f[l]) ELSE f[k]]
  BY DEF Taken, HonestFrames
<1> QED BY <1>1, <1>2, <1>3 DEF HonestFrames

\* what sr_rip_send_response says of an honest table is honest
LEMMA ResponseFacts ==
  ASSUME NEW r \in Router, NEW n \in Router, NEW t, HonestTable(t, r)
  PROVE  ResponseTo(t, n) \in Honest(r)
<1> DEFINE m == [d \in Dest |-> IF Present(t[d]) THEN AdvertisedMetric(t[d], n) ELSE 0]
<1>1. ASSUME NEW d \in Dest
      PROVE  m[d] \in 0 .. INFINITY /\ (m[d] \in {0, INFINITY} \/ m[d] >= Dist[d][r])
  <2>1. t[d] \in Row /\ (t[d].valid => t[d].metric >= Dist[d][r])
    BY DEF HonestTable
  <2>2. t[d].metric \in 0 .. INFINITY
    BY <2>1 DEF Row
  <2> QED BY <2>1, <2>2, RipAssumption DEF AdvertisedMetric
<1>2. m \in [Dest -> 0 .. INFINITY]
  BY <1>1
<1>3. ResponseTo(t, n) = [kind |-> "response", metric |-> m]
  BY DEF ResponseTo
<1>4. ResponseTo(t, n) \in Messages
  BY <1>2, <1>3 DEF Messages, Response
<1> HIDE DEF m
<1> QED BY <1>1, <1>3, <1>4 DEF Honest

LEMMA SendTableFacts ==
  ASSUME NEW f, HonestFrames(f), NEW r \in Router, NEW to, NEW t, HonestTable(t, r)
  PROVE  HonestFrames(SendTable(f, r, to, t))
<1> DEFINE g == SendTable(f, r, to, t)
<1>1. ASSUME NEW l \in Link
      PROVE  g[l] \in Seq(Messages) /\ g[l] \in Seq(Honest(l[1]))
  <2>1. f[l] \in Seq(Messages) /\ f[l] \in Seq(Honest(l[1]))
    BY DEF HonestFrames
  <2>2. g[l] = IF l[1] = r /\ l[2] \in to /\ \E d \in Dest : Present(t[d])
               THEN Push(f[l], ResponseTo(t, l[2])) ELSE f[l]
    BY DEF SendTable
  <2>3. ASSUME l[1] = r PROVE ResponseTo(t, l[2]) \in Honest(l[1])
    BY <2>3, LinkTypes, ResponseFacts
  <2>4. ASSUME l[1] = r PROVE Push(f[l], ResponseTo(t, l[2])) \in Seq(Honest(l[1]))
    BY <2>1, <2>3, <2>4, PushSeq
  <2>5. ASSUME l[1] = r PROVE Push(f[l], ResponseTo(t, l[2])) \in Seq(Messages)
    BY <2>1, <2>3, <2>5, PushSeq, HonestMessages
  <2> QED BY <2>1, <2>2, <2>4, <2>5
<1>2. g = [l \in Link |-> g[l]]
  BY DEF SendTable
<1>3. ASSUME NEW h, h = g PROVE HonestFrames(h)
  <2> HIDE DEF g
  <2> QED BY <1>1, <1>2, <1>3 DEF HonestFrames
<1> QED BY <1>3

(***************************************************************************)
(* The inductive invariant.                                                *)
(***************************************************************************)
DirectRows(t, r) ==
  \A d \in Dest : r \in Attached[d] =>
    t[d].valid /\ t[d].from = Nobody /\ t[d].metric = Cost

TableOK(t, r, s) ==
  /\ HonestTable(t, r)
  /\ s \in {"connected", "asked"} => DirectRows(t, r)

Inv ==
  /\ status \in [Router -> Status]
  /\ table \in [Router -> [Dest -> Row]]
  /\ \A r \in Router : TableOK(table[r], r, status[r])
  /\ HonestFrames(frames)
  /\ silent \subseteq Router
  /\ crashes \in Nat
  /\ faults \in Nat

LEMMA InvImplies == Inv => TypeOK /\ NoUnderestimate /\ DirectStays
<1> SUFFICES ASSUME Inv PROVE TypeOK /\ NoUnderestimate /\ DirectStays
  OBVIOUS
<1>1. TypeOK
  BY DEF Inv, TypeOK, HonestFrames, Messages
<1>2. NoUnderestimate
  BY DEF Inv, NoUnderestimate, TableOK, HonestTable
<1>3. DirectStays
  BY NetworkAssumption DEF Inv, DirectStays, TableOK, DirectRows
<1> QED BY <1>1, <1>2, <1>3

LEMMA EmptyTable == \A r : HonestTable([d \in Dest |-> NoRow], r)
BY RowTypes DEF HonestTable, NoRow

\* router r gets the table new and the status s
LEMMA TableStep ==
  ASSUME Inv, NEW r \in Router, NEW new, NEW s \in Status, TableOK(new, r, s),
         table' = [table EXCEPT ![r] = new],
         status' = [status EXCEPT ![r] = s]
  PROVE  /\ status' \in [Router -> Status]
         /\ table' \in [Router -> [Dest -> Row]]
         /\ \A q \in Router : TableOK(table'[q], q, status'[q])
<1>1. new \in [Dest -> Row]
  BY DEF TableOK, HonestTable
<1> QED BY <1>1 DEF Inv

\* of which the status often stays
LEMMA TableStepOnly ==
  ASSUME Inv, NEW r \in Router, NEW new, TableOK(new, r, status[r]),
         table' = [table EXCEPT ![r] = new], status' = status
  PROVE  /\ status' \in [Router -> Status]
         /\ table' \in [Router -> [Dest -> Row]]
         /\ \A q \in Router : TableOK(table'[q], q, status'[q])
<1>1. new \in [Dest -> Row]
  BY DEF TableOK, HonestTable
<1> QED BY <1>1 DEF Inv

LEMMA InitInv == Init => Inv
<1> SUFFICES ASSUME Init PROVE Inv
  OBVIOUS
<1>1. status \in [Router -> Status] /\ table \in [Router -> [Dest -> Row]]
  BY RowTypes DEF Init, Status
<1>2. ASSUME NEW r \in Router PROVE TableOK(table[r], r, status[r])
  BY EmptyTable DEF Init, TableOK
<1>3. HonestFrames(frames)
  BY EmptySeq DEF Init, HonestFrames
<1> QED BY <1>1, <1>2, <1>3 DEF Init, Inv

\* The entries of an honest response leave an honest table, direct routes included.
LEMMA UpdatedFacts ==
  ASSUME NEW r \in Router, NEW n \in Router, <<n, r>> \in Link, NEW t, NEW s,
         TableOK(t, r, s), NEW msg \in Honest(n), msg.kind = "response"
  PROVE  TableOK(Updated(t, n, msg), r, s)
<1> DEFINE new == Updated(t, n, msg)
<1>1. ASSUME NEW d \in Dest
      PROVE  /\ new[d] \in Row
             /\ new[d].valid => new[d].metric >= Dist[d][r]
             /\ t[d].valid /\ t[d].from = Nobody /\ t[d].metric = Cost => new[d] = t[d]
  <2>1. t[d] \in Row /\ (t[d].valid => t[d].metric >= Dist[d][r])
    BY DEF TableOK, HonestTable
  <2>2. msg.metric[d] \in 0 .. INFINITY
    BY DEF Honest, Messages, Request, Response
  <2>3. msg.metric[d] \in {0, INFINITY} \/ msg.metric[d] >= Dist[d][n]
    BY DEF Honest
  <2>4. Dist[d][r] \in Nat /\ Dist[d][n] \in Nat /\ Dist[d][r] <= Dist[d][n] + Cost
    BY DistAssumption, NetworkAssumption
  <2>5. new[d] = IF msg.metric[d] = 0 THEN t[d] ELSE UpdateRoute(t[d], n, msg.metric[d])
    BY DEF Updated
  <2>6. CASE msg.metric[d] = 0
    BY <2>1, <2>5, <2>6
  <2>7. CASE msg.metric[d] # 0
    <3>1. msg.metric[d] \in 1 .. INFINITY
      BY <2>2, <2>7, RipAssumption
    <3>2. msg.metric[d] >= INFINITY \/ msg.metric[d] + Cost >= Dist[d][r]
      BY <2>3, <2>4, <3>1, RipAssumption
    <3>3. new[d] = UpdateRoute(t[d], n, msg.metric[d])
      BY <2>5, <2>7
    <3> HIDE DEF new
    <3> QED BY <2>1, <2>4, <3>1, <3>2, <3>3, UpdateRouteFacts
  <2> QED BY <2>6, <2>7
<1>2. new = [d \in Dest |-> new[d]]
  BY DEF Updated
<1>3. ASSUME NEW u, u = new PROVE TableOK(u, r, s)
  <2> HIDE DEF new
  <2>1. HonestTable(u, r)
    BY <1>1, <1>2, <1>3 DEF HonestTable
  <2>2. ASSUME DirectRows(t, r) PROVE DirectRows(u, r)
    BY <1>1, <1>3, <2>2 DEF DirectRows
  <2> QED BY <2>1, <2>2 DEF TableOK
<1> QED BY <1>3

(***************************************************************************)
(* One step per action.                                                    *)
(***************************************************************************)
LEMMA StepInv == Inv /\ [Next]_vars => Inv'
<1> SUFFICES ASSUME Inv, [Next]_vars PROVE Inv'
  OBVIOUS
<1> USE DEF Inv
<1>1. ASSUME NEW r \in Router, Connect(r) PROVE Inv'
  <2> DEFINE new == [d \in Dest |-> IF r \in Attached[d] THEN DirectRow ELSE table[r][d]]
  <2>1. TableOK(new, r, "connected")
    <3>1. ASSUME NEW d \in Dest
          PROVE  /\ new[d] \in Row
                 /\ new[d].valid => new[d].metric >= Dist[d][r]
                 /\ r \in Attached[d] => new[d] = DirectRow
      <4>1. CASE r \in Attached[d]
        <5>1. Dist[d][r] \in Nat /\ Dist[d][r] <= Cost
          BY <4>1, DistAssumption
        <5> QED BY <4>1, <5>1, RowTypes DEF DirectRow
      <4>2. CASE r \notin Attached[d]
        BY <4>2 DEF TableOK, HonestTable
      <4> QED BY <4>1, <4>2
    <3>2. HonestTable(new, r)
      BY <3>1 DEF HonestTable
    <3>3. DirectRows(new, r)
      BY <3>1 DEF DirectRows, DirectRow
    <3> QED BY <3>2, <3>3 DEF TableOK
  <2>2. table' = [table EXCEPT ![r] = new] /\ status' = [status EXCEPT ![r] = "connected"]
    BY <1>1 DEF Connect
  <2> HIDE DEF new
  <2>3. "connected" \in Status
    BY DEF Status
  <2> QED BY <2>1, <2>2, <2>3, <1>1, TableStep DEF Connect
<1>2. ASSUME NEW r \in Router, Ask(r) PROVE Inv'
  <2>1. ASSUME NEW l \in Link
        PROVE  frames'[l] \in Seq(Messages) /\ frames'[l] \in Seq(Honest(l[1]))
    <3>1. frames[l] \in Seq(Messages) /\ frames[l] \in Seq(Honest(l[1]))
      BY DEF HonestFrames
    <3>2. ASK \in Messages /\ ASK \in Honest(l[1])
      BY DEF ASK, Messages, Request, Honest
    <3>3. frames'[l] = Push(frames[l], ASK) \/ frames'[l] = frames[l]
      BY <1>2 DEF Ask
    <3> QED BY <3>1, <3>2, <3>3, PushSeq
  <2>2. frames' = [l \in Link |-> frames'[l]]
    BY <1>2 DEF Ask
  <2>3. HonestFrames(frames')
    BY <2>1, <2>2 DEF HonestFrames
  <2>4. TableOK(table[r], r, "asked")
    BY <1>2 DEF Ask, TableOK
  <2>5. table' = [table EXCEPT ![r] = table[r]] /\ status' = [status EXCEPT ![r] = "asked"]
    BY <1>2 DEF Ask
  <2>6. "asked" \in Status
    BY DEF Status
  <2> QED BY <2>3, <2>4, <2>5, <2>6, <1>2, TableStep DEF Ask
<1>3. ASSUME NEW r \in Router, Advertise(r) PROVE Inv'
  <2>1. HonestFrames(frames')
    BY <1>3, SendTableFacts DEF Advertise, TableOK
  <2> QED BY <1>3, <2>1 DEF Advertise
<1>4. ASSUME NEW n \in Router, NEW r \in Router, HandleRequest(n, r) PROVE Inv'
  <2>1. HonestFrames(Taken(frames, <<n, r>>))
    BY <1>4, TakenFacts DEF HandleRequest
  <2>2. HonestFrames(frames')
    BY <1>4, <2>1, SendTableFacts DEF HandleRequest, TableOK
  <2> QED BY <1>4, <2>2 DEF HandleRequest
<1>5. ASSUME NEW n \in Router, NEW r \in Router, HandleResponse(n, r) PROVE Inv'
  <2> DEFINE msg == Head(frames[<<n, r>>])
             new == Updated(table[r], n, msg)
             rest == Taken(frames, <<n, r>>)
  <2>1. HonestFrames(rest) /\ msg \in Honest(n) /\ msg.kind = "response"
    BY <1>5, TakenFacts DEF HandleResponse
  <2>2. TableOK(new, r, status[r])
    BY <1>5, <2>1, UpdatedFacts DEF HandleResponse
  <2>3. frames' = rest \/ frames' = SendTable(rest, r, Neighbours(r), new)
    BY <1>5 DEF HandleResponse
  <2>4. table' = [table EXCEPT ![r] = new]
    BY <1>5 DEF HandleResponse
  <2>5. UNCHANGED <<status, silent, crashes, faults>>
    BY <1>5 DEF HandleResponse
  <2> HIDE DEF new, rest, msg
  <2>6. HonestFrames(frames')
    BY <2>1, <2>2, <2>3, SendTableFacts DEF TableOK
  <2> QED BY <2>2, <2>4, <2>5, <2>6, TableStepOnly
<1>6. ASSUME NEW r \in Router, TimeoutPass(r) PROVE Inv'
  <2> DEFINE new == [d \in Dest |-> IF TimedOut(table[r][d]) THEN Poisoned(table[r][d])
                                    ELSE table[r][d]]
  <2>1. TableOK(new, r, status[r])
    BY TimerFacts DEF TableOK, HonestTable, DirectRows
  <2>2. frames' = SendTable(frames, r, Neighbours(r), new)
    BY <1>6 DEF TimeoutPass
  <2>3. table' = [table EXCEPT ![r] = new]
    BY <1>6 DEF TimeoutPass
  <2> HIDE DEF new
  <2>4. HonestFrames(frames')
    BY <2>1, <2>2, SendTableFacts DEF TableOK
  <2> QED BY <1>6, <2>1, <2>3, <2>4, TableStepOnly DEF TimeoutPass
<1>7. ASSUME NEW r \in Router, GarbagePass(r) PROVE Inv'
  <2> DEFINE new == [d \in Dest |-> IF Collected(table[r][d]) THEN NoRow ELSE table[r][d]]
  <2>1. TableOK(new, r, status[r])
    BY TimerFacts, RowTypes DEF TableOK, HonestTable, DirectRows
  <2>2. table' = [table EXCEPT ![r] = new]
    BY <1>7 DEF GarbagePass
  <2> HIDE DEF new
  <2> QED BY <1>7, <2>1, <2>2, TableStepOnly DEF GarbagePass
<1>8. ASSUME NEW n \in Router, NEW r \in Router, Unheard(n, r) PROVE Inv'
  BY <1>8, TakenFacts DEF Unheard
<1>9. ASSUME NEW l \in Link, Lose(l) PROVE Inv'
  BY <1>9, TakenFacts DEF Lose
<1>10. ASSUME NEW l \in Link, Overtake(l) PROVE Inv'
  <2>1. \A S : frames[l] \in Seq(S) => frames'[l] \in Seq(S)
    BY <1>10, OvertakeSeq DEF Overtake, HonestFrames
  <2>2. frames' = [frames EXCEPT ![l] = frames'[l]]
    BY <1>10 DEF Overtake, HonestFrames
  <2>3. HonestFrames(frames')
    BY <2>1, <2>2 DEF HonestFrames
  <2> QED BY <1>10, <2>3 DEF Overtake
<1>11. ASSUME NEW r \in Router, Crash(r) PROVE Inv'
  <2> DEFINE new == [d \in Dest |-> NoRow]
  <2>1. TableOK(new, r, "dead")
    BY EmptyTable DEF TableOK
  <2>2. "dead" \in Status
    BY DEF Status
  <2>3. table' = [table EXCEPT ![r] = new] /\ status' = [status EXCEPT ![r] = "dead"]
    BY <1>11 DEF Crash
  <2>4. UNCHANGED <<frames, silent, faults>> /\ crashes' = crashes + 1
    BY <1>11 DEF Crash
  <2> HIDE DEF new
  <2>5. /\ status' \in [Router -> Status]
        /\ table' \in [Router -> [Dest -> Row]]
        /\ \A q \in Router : TableOK(table'[q], q, status'[q])
    BY <2>1, <2>2, <2>3, TableStep
  <2> QED BY <2>4, <2>5
<1>12. ASSUME NEW r \in Router, Restart(r) PROVE Inv'
  <2>1. TableOK(table[r], r, "started")
    BY DEF TableOK
  <2>2. "started" \in Status
    BY DEF Status
  <2>3. table' = [table EXCEPT ![r] = table[r]] /\ status' = [status EXCEPT ![r] = "started"]
    BY <1>12 DEF Restart
  <2>4. UNCHANGED <<frames, silent, crashes, faults>>
    BY <1>12 DEF Restart
  <2>5. /\ status' \in [Router -> Status]
        /\ table' \in [Router -> [Dest -> Row]]
        /\ \A q \in Router : TableOK(table'[q], q, status'[q])
    BY <2>1, <2>2, <2>3, TableStep
  <2> QED BY <2>4, <2>5
<1>13. ASSUME Tick PROVE Inv'
  <2>1. ASSUME NEW r \in Router PROVE TableOK(table'[r], r, status'[r])
    <3>1. \A d \in Dest : table'[r][d] \in {table[r][d], Aged(table[r][d])}
      BY <1>13 DEF Tick
    <3>2. table'[r] = [d \in Dest |-> table'[r][d]]
      BY <1>13 DEF Tick
    <3>3. ASSUME NEW d \in Dest
          PROVE  /\ table'[r][d] \in Row
                 /\ table'[r][d].valid = table[r][d].valid
                 /\ table'[r][d].metric = table[r][d].metric
                 /\ table'[r][d].from = table[r][d].from
      <4>1. table[r][d] \in Row
        OBVIOUS
      <4>2. /\ Aged(table[r][d]).valid = table[r][d].valid
            /\ Aged(table[r][d]).metric = table[r][d].metric
            /\ Aged(table[r][d]).from = table[r][d].from
            /\ Aged(table[r][d]) \in Row
        BY <4>1, TimerFacts, RowTypes
      <4> QED BY <3>1, <4>1, <4>2
    <3>4. HonestTable(table'[r], r)
      BY <3>2, <3>3 DEF TableOK, HonestTable
    <3>5. DirectRows(table[r], r) => DirectRows(table'[r], r)
      BY <3>3 DEF DirectRows
    <3> QED BY <1>13, <3>4, <3>5 DEF Tick, TableOK
  <2>2. table' \in [Router -> [Dest -> Row]]
    BY <1>13, <2>1 DEF Tick, TableOK, HonestTable
  <2> QED BY <1>13, <2>1, <2>2 DEF Tick
<1>14. CASE UNCHANGED vars
  BY <1>14 DEF vars
<1> QED
  BY <1>1, <1>2, <1>3, <1>4, <1>5, <1>6, <1>7, <1>8, <1>9, <1>10, <1>11, <1>12, <1>13, <1>14
     DEF Next, RouterStep

THEOREM Invariance == Spec => []Inv
BY InitInv, StepInv, PTL DEF Spec

(***************************************************************************)
(* The properties.                                                         *)
(***************************************************************************)
\* Every variable keeps its type: valid rows of sr->routing_table have a metric
\* below INFINITY, and no thread of sr_rip.c makes a row of any other shape.
THEOREM TypeCorrect == Spec => []TypeOK
BY Invariance, InvImplies, PTL

\* However many routers there are and however they are linked, no routing table
\* promises a network at less than its distance: sr_rip_update_route never loses
\* the cost of a link, whatever is lost, overtaken, timed out or restarted.
THEOREM NeverTooNear == Spec => []NoUnderestimate
BY Invariance, InvImplies, PTL

\* The routes sr_rip_periodic_advertisement installed for a router's own interfaces
\* are never replaced, expired or collected while the process lives.
THEOREM DirectRoutesStay == Spec => []DirectStays
BY Invariance, InvImplies, PTL

(***************************************************************************)
(* Where links make no cycle a finite metric comes from the only neighbour *)
(* that is nearer, and poisoned reverse keeps it from going back there.    *)
(***************************************************************************)
\* What sr_rip_update_route makes of an advertisement: the row afterwards is not
\* from that neighbour when the network is out of reach by him, else it has the
\* metric he gives, or is as it was and not from him.
LEMMA UpdateRouteCases ==
  ASSUME NEW row \in Row, NEW n \in Router, NEW adv \in 1 .. INFINITY, NEW new,
         new = UpdateRoute(row, n, adv)
  PROVE  \/ adv + Cost >= INFINITY /\ ~new.valid /\ new.from = n
         \/ adv + Cost < INFINITY /\ new.valid /\ new.from = n /\ new.metric = adv + Cost
         \/ new = row /\ ~(row.valid /\ row.from = n)
<1>1. CASE adv + Cost >= INFINITY
  <2>1. new = IF row.valid /\ row.from = n THEN Poisoned(row) ELSE row
    BY <1>1, RipAssumption DEF UpdateRoute
  <2> QED BY <1>1, <2>1 DEF Poisoned
<1>2. CASE ~(adv + Cost >= INFINITY)
  <2>1. new = IF ~row.valid \/ row.from = n \/ adv + Cost < row.metric
              THEN Learned(n, adv + Cost) ELSE row
    BY <1>2, RipAssumption DEF UpdateRoute
  <2>2. adv + Cost < INFINITY
    BY <1>2, RipAssumption
  <2> QED BY <2>1, <2>2 DEF Learned
<1> QED BY <1>1, <1>2

TrueRow(row, r, d) ==
  row.valid =>
    /\ row.metric = Dist[d][r]
    /\ \/ row.from = Nobody /\ r \in Attached[d]
       \/ row.from \in Neighbours(r) /\ Dist[d][row.from] < Dist[d][r]

TrueTable(t, r) == \A d \in Dest : TrueRow(t[d], r, d)

\* what may be said on link l: the distance, to a router that is farther away
True(l) ==
  {msg \in Messages :
     msg.kind = "response" =>
       \A d \in Dest :
         \/ msg.metric[d] \in {0, INFINITY}
         \/ msg.metric[d] = Dist[d][l[1]] /\ Dist[d][l[1]] < Dist[d][l[2]]}

TrueFrames(f) == \A l \in Link : f[l] \in Seq(True(l))

TreeInv ==
  /\ \A r \in Router : TrueTable(table[r], r)
  /\ TrueFrames(frames)

LEMMA LinkDistance ==
  ASSUME NEW r \in Router, NEW n \in Neighbours(r), NEW d \in Dest
  PROVE  /\ n \in Router /\ <<r, n>> \in Link /\ <<n, r>> \in Link /\ r \in Neighbours(n)
         /\ Dist[d][r] \in Nat \ {0} /\ Dist[d][n] \in Nat \ {0}
         /\ Dist[d][r] <= Dist[d][n] + Cost /\ Dist[d][n] <= Dist[d][r] + Cost
BY NetworkAssumption, DistAssumption DEF Neighbours

LEMMA TrueTaken ==
  ASSUME NEW f, HonestFrames(f), TrueFrames(f), NEW l \in Link, f[l] # <<>>
  PROVE  TrueFrames(Taken(f, l)) /\ Head(f[l]) \in True(l)
<1>1. Head(f[l]) \in True(l) /\ Tail(f[l]) \in Seq(True(l))
  BY HeadTailProperties DEF TrueFrames
<1>2. Taken(f, l) = [k \in Link |-> IF k = l THEN Tail(f[l]) ELSE f[k]]
  BY DEF Taken, HonestFrames
<1> QED BY <1>1, <1>2 DEF TrueFrames

\* poisoned reverse: a true table says the distance only to routers farther away
LEMMA TrueResponse ==
  ASSUME NoCycle, NEW r \in Router, NEW n \in Neighbours(r), NEW t, HonestTable(t, r),
         TrueTable(t, r)
  PROVE  ResponseTo(t, n) \in True(<<r, n>>)
<1> DEFINE m == [d \in Dest |-> IF Present(t[d]) THEN AdvertisedMetric(t[d], n) ELSE 0]
<1>1. ResponseTo(t, n) = [kind |-> "response", metric |-> m]
  BY DEF ResponseTo
<1>2. ResponseTo(t, n) \in Messages
  <2>1. n \in Router
    BY DEF Neighbours
  <2> QED BY <2>1, ResponseFacts, HonestMessages
<1>3. ASSUME NEW d \in Dest
      PROVE  m[d] \in {0, INFINITY} \/ (m[d] = Dist[d][r] /\ Dist[d][r] < Dist[d][n])
  <2>1. CASE ~Present(t[d]) \/ ~t[d].valid \/ t[d].from = n
    BY <2>1 DEF AdvertisedMetric
  <2>2. CASE Present(t[d]) /\ t[d].valid /\ t[d].from # n
    <3>1. m[d] = Dist[d][r]
      BY <2>2 DEF AdvertisedMetric, TrueTable, TrueRow
    <3>2. ~(Dist[d][n] < Dist[d][r])
      <4>1. CASE t[d].from = Nobody /\ r \in Attached[d]
        <5>1. Dist[d][r] <= Cost
          BY <4>1, DistAssumption
        <5>2. Dist[d][r] \in Nat \ {0} /\ Dist[d][n] \in Nat \ {0}
          BY LinkDistance
        <5> QED BY <5>1, <5>2
      <4>2. CASE t[d].from \in Neighbours(r) /\ Dist[d][t[d].from] < Dist[d][r]
        BY <2>2, <4>2 DEF NoCycle
      <4> QED BY <2>2, <4>1, <4>2 DEF TrueTable, TrueRow
    <3>3. Dist[d][n] # Dist[d][r] /\ Dist[d][n] \in Nat /\ Dist[d][r] \in Nat
      BY LinkDistance DEF NoCycle
    <3> QED BY <3>1, <3>2, <3>3
  <2> QED BY <2>1, <2>2
<1> HIDE DEF m
<1> QED BY <1>1, <1>2, <1>3 DEF True

LEMMA TrueSend ==
  ASSUME NoCycle, NEW f, HonestFrames(f), TrueFrames(f), NEW r \in Router, NEW to,
         NEW t, HonestTable(t, r), TrueTable(t, r)
  PROVE  TrueFrames(SendTable(f, r, to, t))
<1> SUFFICES ASSUME NEW l \in Link
             PROVE  SendTable(f, r, to, t)[l] \in Seq(True(l))
  BY DEF TrueFrames
<1>1. f[l] \in Seq(True(l))
  BY DEF TrueFrames
<1>2. SendTable(f, r, to, t)[l] =
        IF l[1] = r /\ l[2] \in to /\ \E d \in Dest : Present(t[d])
        THEN Push(f[l], ResponseTo(t, l[2])) ELSE f[l]
  BY DEF SendTable
<1>3. ASSUME l[1] = r PROVE ResponseTo(t, l[2]) \in True(l)
  <2>1. l = <<r, l[2]>> /\ l[2] \in Neighbours(r)
    BY <1>3, LinkTypes DEF Neighbours
  <2> QED BY <2>1, TrueResponse
<1> QED BY <1>1, <1>2, <1>3, PushSeq

LEMMA TrueUpdate ==
  ASSUME NoCycle, NEW r \in Router, NEW n \in Router, <<n, r>> \in Link, NEW t,
         HonestTable(t, r), TrueTable(t, r), NEW msg \in True(<<n, r>>), msg.kind = "response"
  PROVE  TrueTable(Updated(t, n, msg), r)
<1> SUFFICES ASSUME NEW d \in Dest
             PROVE  TrueRow(Updated(t, n, msg)[d], r, d)
  BY DEF TrueTable
<1>1. t[d] \in Row /\ TrueRow(t[d], r, d)
  BY DEF HonestTable, TrueTable
<1>2. msg.metric[d] \in 0 .. INFINITY
  BY DEF True, Messages, Request, Response
<1>3. msg.metric[d] \in {0, INFINITY}
        \/ (msg.metric[d] = Dist[d][n] /\ Dist[d][n] < Dist[d][r])
  BY DEF True
<1>4. n \in Neighbours(r)
  BY NetworkAssumption DEF Neighbours
<1>5. Updated(t, n, msg)[d] = IF msg.metric[d] = 0 THEN t[d]
                              ELSE UpdateRoute(t[d], n, msg.metric[d])
  BY DEF Updated
<1>6. CASE msg.metric[d] = 0
  BY <1>1, <1>5, <1>6
<1>7. CASE msg.metric[d] # 0
  <2> DEFINE new == UpdateRoute(t[d], n, msg.metric[d])
  <2>1. msg.metric[d] \in 1 .. INFINITY
    BY <1>2, <1>7, RipAssumption
  <2>2. ~new.valid \/ new = t[d]
          \/ (msg.metric[d] + Cost < INFINITY /\ new.from = n
              /\ new.metric = msg.metric[d] + Cost)
    <3> HIDE DEF new
    <3> QED BY <1>1, <2>1, UpdateRouteCases DEF new
  <2> HIDE DEF new
  <2>3. ASSUME msg.metric[d] + Cost < INFINITY, new.from = n,
               new.metric = msg.metric[d] + Cost
        PROVE  TrueRow(new, r, d)
    <3>1. msg.metric[d] = Dist[d][n] /\ Dist[d][n] < Dist[d][r]
      BY <1>3, <1>7, <2>1, <2>3, RipAssumption
    <3>2. /\ Dist[d][r] \in Nat \ {0} /\ Dist[d][n] \in Nat \ {0}
          /\ Dist[d][r] <= Dist[d][n] + Cost
      BY <1>4, LinkDistance
    <3>3. Dist[d][n] + Cost = Dist[d][r]
      BY <3>1, <3>2
    <3>4. new.metric = Dist[d][r]
      BY <2>3, <3>1, <3>3
    <3> QED BY <1>4, <2>3, <3>1, <3>4 DEF TrueRow
  <2>4. TrueRow(new, r, d)
    <3>1. ~new.valid => TrueRow(new, r, d)
      BY DEF TrueRow
    <3> QED BY <1>1, <2>2, <2>3, <3>1
  <2> QED BY <1>5, <1>7, <2>4 DEF new
<1> QED BY <1>6, <1>7

LEMMA StepTree ==
  ASSUME NoCycle, Inv, TreeInv, [Next]_vars
  PROVE  TreeInv'
<1>0. /\ HonestFrames(frames) /\ TrueFrames(frames)
      /\ \A r \in Router : HonestTable(table[r], r) /\ TrueTable(table[r], r)
      /\ table \in [Router -> [Dest -> Row]]
  BY DEF Inv, TableOK, TreeInv
<1>a. ASSUME NEW r \in Router, NEW new, TrueTable(new, r), table' = [table EXCEPT ![r] = new]
      PROVE  \A q \in Router : TrueTable(table'[q], q)
  BY <1>0, <1>a
<1>1. ASSUME NEW r \in Router, Connect(r) PROVE TreeInv'
  <2> DEFINE new == [d \in Dest |-> IF r \in Attached[d] THEN DirectRow ELSE table[r][d]]
  <2>1. TrueTable(new, r)
    <3> SUFFICES ASSUME NEW d \in Dest
                 PROVE  TrueRow(new[d], r, d)
      BY DEF TrueTable
    <3>1. CASE r \in Attached[d]
      <4>1. Dist[d][r] \in Nat \ {0} /\ Dist[d][r] <= Cost
        BY <3>1, DistAssumption
      <4> QED BY <3>1, <4>1 DEF TrueRow, DirectRow
    <3>2. CASE r \notin Attached[d]
      BY <1>0, <3>2 DEF TrueTable
    <3> QED BY <3>1, <3>2
  <2>2. table' = [table EXCEPT ![r] = new] /\ UNCHANGED frames
    BY <1>1 DEF Connect
  <2> HIDE DEF new
  <2> QED BY <1>0, <1>a, <2>1, <2>2 DEF TreeInv
<1>2. ASSUME NEW r \in Router, Ask(r) PROVE TreeInv'
  <2>1. ASSUME NEW l \in Link
        PROVE  frames'[l] \in Seq(True(l))
    <3>1. frames[l] \in Seq(True(l))
      BY <1>0 DEF TrueFrames
    <3>2. ASK \in True(l)
      BY DEF ASK, Messages, Request, True
    <3>3. frames'[l] = Push(frames[l], ASK) \/ frames'[l] = frames[l]
      BY <1>2 DEF Ask
    <3> QED BY <3>1, <3>2, <3>3, PushSeq
  <2> QED BY <1>0, <1>2, <2>1 DEF Ask, TreeInv, TrueFrames
<1>3. ASSUME NEW r \in Router, Advertise(r) PROVE TreeInv'
  <2>1. TrueFrames(frames')
    BY <1>0, <1>3, TrueSend DEF Advertise
  <2> QED BY <1>0, <1>3, <2>1 DEF Advertise, TreeInv
<1>4. ASSUME NEW n \in Router, NEW r \in Router, HandleRequest(n, r) PROVE TreeInv'
  <2>1. HonestFrames(Taken(frames, <<n, r>>)) /\ TrueFrames(Taken(frames, <<n, r>>))
    BY <1>0, <1>4, TakenFacts, TrueTaken DEF HandleRequest
  <2>2. TrueFrames(frames')
    BY <1>0, <1>4, <2>1, TrueSend DEF HandleRequest
  <2> QED BY <1>0, <1>4, <2>2 DEF HandleRequest, TreeInv
<1>5. ASSUME NEW n \in Router, NEW r \in Router, HandleResponse(n, r) PROVE TreeInv'
  <2> DEFINE msg == Head(frames[<<n, r>>])
             new == Updated(table[r], n, msg)
             rest == Taken(frames, <<n, r>>)
  <2>1. HonestFrames(rest) /\ TrueFrames(rest)
    BY <1>0, <1>5, TakenFacts, TrueTaken DEF HandleResponse
  <2>2. <<n, r>> \in Link /\ msg.kind = "response"
    BY <1>5 DEF HandleResponse
  <2>3. msg \in Honest(n) /\ msg \in True(<<n, r>>)
    BY <1>0, <1>5, TakenFacts, TrueTaken DEF HandleResponse
  <2>4. frames' = rest \/ frames' = SendTable(rest, r, Neighbours(r), new)
    BY <1>5 DEF HandleResponse
  <2>5. table' = [table EXCEPT ![r] = new]
    BY <1>5 DEF HandleResponse
  <2>6. TableOK(table[r], r, status[r])
    BY DEF Inv
  <2> HIDE DEF msg, rest
  <2>7. TrueTable(new, r) /\ HonestTable(new, r)
    <3>1. TrueTable(new, r)
      BY <1>0, <2>2, <2>3, TrueUpdate
    <3>2. TableOK(new, r, status[r])
      BY <2>2, <2>3, <2>6, UpdatedFacts
    <3> QED BY <3>1, <3>2 DEF TableOK
  <2> HIDE DEF new
  <2>8. TrueFrames(frames')
    BY <2>1, <2>4, <2>7, TrueSend
  <2> QED BY <1>a, <2>5, <2>7, <2>8 DEF TreeInv
<1>6. ASSUME NEW r \in Router, TimeoutPass(r) PROVE TreeInv'
  <2> DEFINE new == [d \in Dest |-> IF TimedOut(table[r][d]) THEN Poisoned(table[r][d])
                                    ELSE table[r][d]]
  <2>1. HonestTable(new, r)
    BY <1>0, TimerFacts DEF HonestTable
  <2>2. TrueTable(new, r)
    BY <1>0, TimerFacts DEF HonestTable, TrueTable, TrueRow
  <2>3. frames' = SendTable(frames, r, Neighbours(r), new)
    BY <1>6 DEF TimeoutPass
  <2>4. table' = [table EXCEPT ![r] = new]
    BY <1>6 DEF TimeoutPass
  <2> HIDE DEF new
  <2>5. TrueFrames(frames')
    BY <1>0, <2>1, <2>2, <2>3, TrueSend
  <2> QED BY <1>a, <2>2, <2>4, <2>5 DEF TreeInv
<1>7. ASSUME NEW r \in Router, GarbagePass(r) PROVE TreeInv'
  <2> DEFINE new == [d \in Dest |-> IF Collected(table[r][d]) THEN NoRow ELSE table[r][d]]
  <2>1. TrueTable(new, r)
    BY <1>0 DEF TrueTable, TrueRow, NoRow
  <2>2. table' = [table EXCEPT ![r] = new] /\ UNCHANGED frames
    BY <1>7 DEF GarbagePass
  <2> HIDE DEF new
  <2> QED BY <1>0, <1>a, <2>1, <2>2 DEF TreeInv
<1>8. ASSUME NEW n \in Router, NEW r \in Router, Unheard(n, r) PROVE TreeInv'
  <2>1. TrueFrames(frames')
    BY <1>0, <1>8, TrueTaken DEF Unheard
  <2> QED BY <1>0, <1>8, <2>1 DEF Unheard, TreeInv
<1>9. ASSUME NEW l \in Link, Lose(l) PROVE TreeInv'
  <2>1. TrueFrames(frames')
    BY <1>0, <1>9, TrueTaken DEF Lose
  <2> QED BY <1>0, <1>9, <2>1 DEF Lose, TreeInv
<1>10. ASSUME NEW l \in Link, Overtake(l) PROVE TreeInv'
  <2>1. \A S : frames[l] \in Seq(S) => frames'[l] \in Seq(S)
    BY <1>0, <1>10, OvertakeSeq DEF Overtake, HonestFrames
  <2>2. frames' = [frames EXCEPT ![l] = frames'[l]]
    BY <1>0, <1>10 DEF Overtake, HonestFrames
  <2>3. TrueFrames(frames')
    BY <1>0, <2>1, <2>2 DEF TrueFrames, HonestFrames
  <2> QED BY <1>0, <1>10, <2>3 DEF Overtake, TreeInv
<1>11. ASSUME NEW r \in Router, Crash(r) PROVE TreeInv'
  <2> DEFINE new == [d \in Dest |-> NoRow]
  <2>1. TrueTable(new, r)
    BY DEF TrueTable, TrueRow, NoRow
  <2>2. table' = [table EXCEPT ![r] = new] /\ UNCHANGED frames
    BY <1>11 DEF Crash
  <2> HIDE DEF new
  <2> QED BY <1>0, <1>a, <2>1, <2>2 DEF TreeInv
<1>12. ASSUME NEW r \in Router, Restart(r) PROVE TreeInv'
  BY <1>0, <1>12 DEF Restart, TreeInv
<1>13. ASSUME Tick PROVE TreeInv'
  <2>1. ASSUME NEW r \in Router, NEW d \in Dest
        PROVE  TrueRow(table'[r][d], r, d)
    <3>1. table[r][d] \in Row /\ TrueRow(table[r][d], r, d)
      BY <1>0 DEF TrueTable
    <3>2. table'[r][d] \in {table[r][d], Aged(table[r][d])}
      BY <1>13 DEF Tick
    <3> QED BY <3>1, <3>2, TimerFacts DEF TrueRow
  <2> QED BY <1>0, <1>13, <2>1 DEF Tick, TreeInv, TrueTable
<1>14. CASE UNCHANGED vars
  BY <1>0, <1>14 DEF vars, TreeInv
<1> QED
  BY <1>1, <1>2, <1>3, <1>4, <1>5, <1>6, <1>7, <1>8, <1>9, <1>10, <1>11, <1>12, <1>13, <1>14
     DEF Next, RouterStep

\* On links that make no cycle sr_rip_send_response's poisoned reverse is enough: a
\* valid row has the metric of the only way there is, and no router ever counts to
\* infinity, whatever frames are lost or overtaken and whatever routers die.
THEOREM NoCounting ==
  ASSUME NoCycle
  PROVE  Spec => []NeverCounts
<1>1. Init => TreeInv
  <2> SUFFICES ASSUME Init PROVE TreeInv
    OBVIOUS
  <2>1. \A r \in Router : TrueTable(table[r], r)
    BY DEF Init, TrueTable, TrueRow, NoRow
  <2>2. TrueFrames(frames)
    BY EmptySeq DEF Init, TrueFrames
  <2> QED BY <2>1, <2>2 DEF TreeInv
<1>2. Inv /\ TreeInv /\ [Next]_vars => TreeInv'
  BY StepTree
<1>3. TreeInv => NeverCounts
  BY DEF TreeInv, TrueTable, TrueRow, NeverCounts
<1> QED BY <1>1, <1>2, <1>3, Invariance, PTL DEF Spec

(***************************************************************************)
(* Triggered updates. What the last response under way from n to r says is *)
(* what the table of n holds; when none is under way, r has heard it. A    *)
(* direct route is no exception that matters, although its installation    *)
(* is not advertised: nothing learned from n is as near as that.           *)
(***************************************************************************)
\* q[i] is the last response in q
LastWord(q, i) ==
  /\ i \in 1 .. Len(q) /\ q[i].kind = "response"
  /\ \A j \in 1 .. Len(q) : j > i => q[j].kind # "response"

NoWord(q) == \A i \in 1 .. Len(q) : q[i].kind # "response"

EndsAsking(q) == Len(q) > 0 /\ q[Len(q)].kind = "request"

\* direct routes have the cost of the interface, learned ones come over a link
SoundRow(row, r) ==
  /\ Present(row) /\ row.from = Nobody => row.valid /\ row.metric = Cost
  /\ row.valid /\ row.from # Nobody => row.from \in Neighbours(r) /\ Cost + Cost <= row.metric

SoundTable(t, r) == \A d \in Dest : SoundRow(t[d], r)

\* t and s are the table and the status of n, q the frames under way to r, and u the
\* table of r
Told(n, r, t, s, q, u) ==
  \A d \in Dest : Present(t[d]) =>
    /\ t[d].from # Nobody =>
         /\ \A i \in Nat : LastWord(q, i) => q[i].metric[d] = AdvertisedMetric(t[d], r)
         /\ s # "asked" => ~EndsAsking(q)
    /\ NoWord(q) /\ u[d].valid /\ u[d].from = n =>
         AdvertisedMetric(t[d], r) + Cost <= u[d].metric

AllTold ==
  \A n, r \in Router :
    <<n, r>> \in Link => Told(n, r, table[n], status[n], frames[<<n, r>>], table[r])

DescentInv ==
  /\ \A r \in Router : SoundTable(table[r], r)
  /\ \A r \in Router : status[r] = "dead" => \A d \in Dest : table[r][d] = NoRow
  /\ faults = 0 => AllTold

LEMMA TailWords ==
  ASSUME NEW q \in Seq(Messages), q # <<>>
  PROVE  /\ \A i \in Nat : LastWord(Tail(q), i) => LastWord(q, i + 1) /\ Tail(q)[i] = q[i + 1]
         /\ NoWord(Tail(q)) => NoWord(q) \/ LastWord(q, 1)
         /\ EndsAsking(Tail(q)) => EndsAsking(q)
         /\ Len(q) \in Nat /\ Len(q) > 0
<1>1. Len(q) \in Nat /\ Len(q) > 0
  BY EmptySeq, LenProperties
<1>2. Tail(q) \in Seq(Messages) /\ Len(Tail(q)) = Len(q) - 1
        /\ \A i \in 1 .. Len(q) - 1 : Tail(q)[i] = q[i + 1]
  BY HeadTailProperties
<1> DEFINE k == Len(q)
           u == Tail(q)
<1>3. ASSUME NEW i \in Nat, LastWord(u, i)
      PROVE  LastWord(q, i + 1) /\ u[i] = q[i + 1]
  <2>1. i \in 1 .. k - 1 /\ u[i].kind = "response" /\ u[i] = q[i + 1]
    BY <1>2, <1>3 DEF LastWord
  <2>2. ASSUME NEW j \in 1 .. k, j > i + 1
        PROVE  q[j].kind # "response"
    <3>1. j - 1 \in 1 .. k - 1 /\ j - 1 > i /\ (j - 1) + 1 = j
      BY <1>1, <2>2
    <3> QED BY <1>2, <1>3, <3>1 DEF LastWord
  <2> QED BY <1>1, <2>1, <2>2 DEF LastWord
<1>4. ASSUME NoWord(u)
      PROVE  NoWord(q) \/ LastWord(q, 1)
  <2>1. ASSUME NEW j \in 1 .. k, j > 1
        PROVE  q[j].kind # "response"
    <3>1. j - 1 \in 1 .. k - 1 /\ (j - 1) + 1 = j
      BY <1>1, <2>1
    <3> QED BY <1>2, <1>4, <3>1 DEF NoWord
  <2> QED BY <1>1, <2>1 DEF NoWord, LastWord
<1>5. ASSUME EndsAsking(u)
      PROVE  EndsAsking(q)
  <2>1. k - 1 > 0 /\ u[k - 1].kind = "request"
    BY <1>2, <1>5 DEF EndsAsking
  <2>2. u[k - 1] = q[(k - 1) + 1] /\ (k - 1) + 1 = k
    BY <1>1, <1>2, <2>1
  <2> QED BY <1>1, <2>1, <2>2 DEF EndsAsking
<1> QED BY <1>1, <1>3, <1>4, <1>5

LEMMA AppendWords ==
  ASSUME NEW q \in Seq(Messages), NEW msg \in Messages
  PROVE  /\ msg.kind = "response" =>
              /\ \A i \in Nat : LastWord(Append(q, msg), i) => Append(q, msg)[i] = msg
              /\ ~NoWord(Append(q, msg)) /\ ~EndsAsking(Append(q, msg))
         /\ msg.kind = "request" =>
              /\ \A i \in Nat :
                   LastWord(Append(q, msg), i) => LastWord(q, i) /\ Append(q, msg)[i] = q[i]
              /\ NoWord(Append(q, msg)) => NoWord(q)
<1> DEFINE u == Append(q, msg)
           k == Len(q)
<1>1. k \in Nat /\ Len(u) = k + 1 /\ u[k + 1] = msg /\ \A i \in 1 .. k : u[i] = q[i]
  BY AppendProperties, LenProperties
<1> HIDE DEF u
<1>2. ASSUME msg.kind = "response"
      PROVE  /\ \A i \in Nat : LastWord(u, i) => u[i] = msg
             /\ ~NoWord(u) /\ ~EndsAsking(u)
  <2>1. k + 1 \in 1 .. Len(u) /\ u[k + 1].kind = "response"
    BY <1>1, <1>2
  <2>2. ASSUME NEW i \in Nat, LastWord(u, i) PROVE u[i] = msg
    <3>1. i \in 1 .. k + 1 /\ ~(k + 1 > i)
      BY <1>1, <2>1, <2>2 DEF LastWord
    <3>2. i = k + 1
      BY <1>1, <3>1
    <3> QED BY <1>1, <3>2
  <2> QED BY <1>1, <2>1, <2>2 DEF NoWord, EndsAsking
<1>3. ASSUME msg.kind = "request"
      PROVE  /\ \A i \in Nat : LastWord(u, i) => LastWord(q, i) /\ u[i] = q[i]
             /\ NoWord(u) => NoWord(q)
  <2>1. u[k + 1].kind # "response"
    BY <1>1, <1>3
  <2>2. ASSUME NEW i \in Nat, LastWord(u, i) PROVE LastWord(q, i) /\ u[i] = q[i]
    <3>1. i \in 1 .. k + 1 /\ i # k + 1
      BY <1>1, <2>1, <2>2 DEF LastWord
    <3>2. i \in 1 .. k
      BY <1>1, <3>1
    <3> QED BY <1>1, <2>2, <3>2 DEF LastWord
  <2>3. NoWord(u) => NoWord(q)
    BY <1>1 DEF NoWord
  <2> QED BY <2>2, <2>3
<1> QED BY <1>2, <1>3 DEF u

LEMMA RoomMade ==
  ASSUME NEW q \in Seq(Messages), NEW u,
         u = IF Len(q) < MAX_FLIGHT THEN q ELSE Tail(q)
  PROVE  u \in Seq(Messages)
<1>1. CASE Len(q) < MAX_FLIGHT
  BY <1>1
<1>2. CASE ~(Len(q) < MAX_FLIGHT)
  <2>1. q # <<>>
    BY <1>2, NetworkAssumption, EmptySeq
  <2> QED BY <1>2, <2>1, HeadTailProperties
<1> QED BY <1>1, <1>2

(***************************************************************************)
(* What a step may do to a link.                                           *)
(***************************************************************************)
\* n sends its table, or has none: then nothing else matters
LEMMA ToldBySending ==
  ASSUME NEW n \in Router, NEW r \in Router, <<n, r>> \in Link, NEW f, HonestFrames(f),
         NEW to, r \in to, NEW t, HonestTable(t, n), NEW s, NEW u
  PROVE  Told(n, r, t, s, SendTable(f, n, to, t)[<<n, r>>], u)
<1>1. CASE \A d \in Dest : ~Present(t[d])
  BY <1>1 DEF Told
<1>2. CASE \E d \in Dest : Present(t[d])
  <2> DEFINE msg == ResponseTo(t, r)
             v == IF Len(f[<<n, r>>]) < MAX_FLIGHT THEN f[<<n, r>>] ELSE Tail(f[<<n, r>>])
             q == Append(v, msg)
  <2>1. SendTable(f, n, to, t)[<<n, r>>] = q
    BY <1>2 DEF SendTable, Push
  <2>2. msg \in Messages /\ msg.kind = "response"
    BY ResponseFacts, HonestMessages DEF ResponseTo
  <2>3. msg.metric = [d \in Dest |-> IF Present(t[d]) THEN AdvertisedMetric(t[d], r) ELSE 0]
    BY DEF ResponseTo
  <2>4. v \in Seq(Messages)
    BY RoomMade DEF HonestFrames
  <2> HIDE DEF msg, v
  <2>5. (\A i \in Nat : LastWord(q, i) => q[i] = msg) /\ ~NoWord(q) /\ ~EndsAsking(q)
    BY <2>2, <2>4, AppendWords
  <2> HIDE DEF q
  <2>6. Told(n, r, t, s, q, u)
    BY <2>3, <2>5 DEF Told
  <2> QED BY <2>1, <2>6
<1> QED BY <1>1, <1>2

\* n tells nobody, but has no row that r would have to be told about
LEMMA ToldBefore ==
  ASSUME NEW n \in Router, NEW r \in Router, NEW t, NEW s, NEW q, NEW u,
         Told(n, r, t, s, q, u), SoundTable(u, r), NEW v, SoundTable(v, n), NEW z,
         \A d \in Dest : Present(v[d]) =>
           \/ v[d].from = Nobody
           \/ /\ Present(t[d]) /\ v[d].from = t[d].from
              /\ v[d].valid = t[d].valid /\ v[d].metric = t[d].metric
              /\ z # "asked" => s # "asked"
  PROVE  Told(n, r, v, z, q, u)
<1> SUFFICES ASSUME NEW d \in Dest, Present(v[d])
             PROVE  /\ v[d].from # Nobody =>
                         /\ \A i \in Nat : LastWord(q, i) => q[i].metric[d] = AdvertisedMetric(v[d], r)
                         /\ z # "asked" => ~EndsAsking(q)
                    /\ NoWord(q) /\ u[d].valid /\ u[d].from = n =>
                         AdvertisedMetric(v[d], r) + Cost <= u[d].metric
  BY DEF Told
<1>1. CASE v[d].from = Nobody
  <2>1. v[d].valid /\ v[d].metric = Cost /\ v[d].from # r
    BY <1>1, RipAssumption DEF SoundTable, SoundRow
  <2>2. AdvertisedMetric(v[d], r) = Cost
    BY <2>1 DEF AdvertisedMetric
  <2>3. u[d].valid /\ u[d].from = n => Cost + Cost <= u[d].metric
    BY RipAssumption DEF SoundTable, SoundRow
  <2> QED BY <1>1, <2>2, <2>3
<1>2. CASE /\ Present(t[d]) /\ v[d].from = t[d].from
           /\ v[d].valid = t[d].valid /\ v[d].metric = t[d].metric
           /\ z # "asked" => s # "asked"
  <2>1. AdvertisedMetric(v[d], r) = AdvertisedMetric(t[d], r)
    BY <1>2 DEF AdvertisedMetric
  <2> QED BY <1>2, <2>1 DEF Told
<1> QED BY <1>1, <1>2

\* r has changed no row that is from n, except that it may have given it up
LEMMA ToldStill ==
  ASSUME NEW n \in Router, NEW r \in Router, NEW t, NEW s, NEW q, NEW u,
         Told(n, r, t, s, q, u), NEW v,
         \A d \in Dest : v[d].valid /\ v[d].from = n =>
           u[d].valid /\ u[d].from = n /\ v[d].metric = u[d].metric
  PROVE  Told(n, r, t, s, q, v)
BY DEF Told

\* a frame that is no response goes
LEMMA ToldBesides ==
  ASSUME NEW n \in Router, NEW r \in Router, NEW t, NEW s, NEW q \in Seq(Messages), NEW u,
         Told(n, r, t, s, q, u), q # <<>>, Head(q).kind # "response"
  PROVE  Told(n, r, t, s, Tail(q), u)
<1>1. Head(q) = q[1]
  BY HeadTailProperties
<1>2. ~LastWord(q, 1)
  BY <1>1 DEF LastWord
<1>3. /\ \A i \in Nat : LastWord(Tail(q), i) => LastWord(q, i + 1) /\ Tail(q)[i] = q[i + 1]
      /\ NoWord(Tail(q)) => NoWord(q)
      /\ EndsAsking(Tail(q)) => EndsAsking(q)
  BY <1>2, TailWords
<1>4. \A i \in Nat : i + 1 \in Nat
  OBVIOUS
<1> QED BY <1>3, <1>4 DEF Told

\* a frame is dropped on the way to a router without a row from n
LEMMA ToldNobody ==
  ASSUME NEW n \in Router, NEW r \in Router, NEW t, NEW s, NEW q \in Seq(Messages), NEW u,
         Told(n, r, t, s, q, u), q # <<>>, \A d \in Dest : ~u[d].valid
  PROVE  Told(n, r, t, s, Tail(q), u)
<1>1. /\ \A i \in Nat : LastWord(Tail(q), i) => LastWord(q, i + 1) /\ Tail(q)[i] = q[i + 1]
      /\ EndsAsking(Tail(q)) => EndsAsking(q)
  BY TailWords
<1>2. \A i \in Nat : i + 1 \in Nat
  OBVIOUS
<1> QED BY <1>1, <1>2 DEF Told

\* r takes a response: if it was the last, r has heard what the table of n holds
LEMMA ToldByResponse ==
  ASSUME NEW n \in Router, NEW r \in Router, <<n, r>> \in Link,
         NEW t, HonestTable(t, n), SoundTable(t, n), NEW s, NEW q \in Seq(Messages),
         NEW u, HonestTable(u, r), SoundTable(u, r), Told(n, r, t, s, q, u),
         q # <<>>, Head(q).kind = "response", NEW v, v = Updated(u, n, Head(q)),
         SoundTable(v, r)
  PROVE  Told(n, r, t, s, Tail(q), v)
<1> SUFFICES ASSUME NEW d \in Dest, Present(t[d])
             PROVE  /\ t[d].from # Nobody =>
                         /\ \A i \in Nat :
                              LastWord(Tail(q), i) => Tail(q)[i].metric[d] = AdvertisedMetric(t[d], r)
                         /\ s # "asked" => ~EndsAsking(Tail(q))
                    /\ NoWord(Tail(q)) /\ v[d].valid /\ v[d].from = n =>
                         AdvertisedMetric(t[d], r) + Cost <= v[d].metric
  BY DEF Told
<1>1. /\ \A i \in Nat : LastWord(Tail(q), i) => LastWord(q, i + 1) /\ Tail(q)[i] = q[i + 1]
      /\ NoWord(Tail(q)) => NoWord(q) \/ LastWord(q, 1)
      /\ EndsAsking(Tail(q)) => EndsAsking(q)
      /\ Len(q) \in Nat /\ Len(q) > 0
  BY TailWords
<1>2. \A i \in Nat : i + 1 \in Nat
  OBVIOUS
<1>3. t[d].from # Nobody =>
        /\ \A i \in Nat :
             LastWord(Tail(q), i) => Tail(q)[i].metric[d] = AdvertisedMetric(t[d], r)
        /\ s # "asked" => ~EndsAsking(Tail(q))
  BY <1>1, <1>2 DEF Told
<1>4. ASSUME NoWord(Tail(q)), v[d].valid, v[d].from = n
      PROVE  AdvertisedMetric(t[d], r) + Cost <= v[d].metric
  <2>1. CASE t[d].from = Nobody
    <3>1. t[d].valid /\ t[d].metric = Cost /\ t[d].from # r
      BY <2>1, RipAssumption DEF SoundTable, SoundRow
    <3>2. AdvertisedMetric(t[d], r) = Cost
      BY <3>1 DEF AdvertisedMetric
    <3>3. Cost + Cost <= v[d].metric
      BY <1>4, RipAssumption DEF SoundTable, SoundRow
    <3> QED BY <3>2, <3>3
  <2>2. CASE t[d].from # Nobody
    <3> DEFINE m == Head(q).metric[d]
    <3>1. 1 \in Nat /\ Head(q) = q[1]
      BY HeadTailProperties
    <3>2. LastWord(q, 1)
      BY <1>1, <1>4, <3>1 DEF NoWord
    <3>3. m = AdvertisedMetric(t[d], r)
      BY <2>2, <3>1, <3>2 DEF Told
    <3>4. t[d] \in Row /\ u[d] \in Row
      BY DEF HonestTable
    <3>5. m \in 1 .. INFINITY
      BY <3>3, <3>4, RipAssumption DEF AdvertisedMetric, Present, Row
    <3>6. v[d] = UpdateRoute(u[d], n, m)
      <4>1. v[d] = IF m = 0 THEN u[d] ELSE UpdateRoute(u[d], n, m)
        BY DEF Updated
      <4>2. m # 0
        BY <3>5
      <4> HIDE DEF m
      <4> QED BY <4>1, <4>2
    <3> HIDE DEF m
    <3>7. \/ m + Cost >= INFINITY /\ ~v[d].valid
          \/ m + Cost < INFINITY /\ v[d].valid /\ v[d].from = n /\ v[d].metric = m + Cost
          \/ v[d] = u[d] /\ ~(u[d].valid /\ u[d].from = n)
      BY <3>4, <3>5, <3>6, UpdateRouteCases
    <3>8. v[d].metric = m + Cost
      BY <1>4, <3>7
    <3> QED BY <3>3, <3>5, <3>8
  <2> QED BY <2>1, <2>2
<1> QED BY <1>3, <1>4

\* n asks: where the request makes room for itself it displaces no last response
LEMMA ToldAndAsked ==
  ASSUME MAX_FLIGHT > 1, NEW n \in Router, NEW r \in Router, NEW t, SoundTable(t, n),
         NEW s, s # "asked", NEW q \in Seq(Messages), NEW u, SoundTable(u, r),
         Told(n, r, t, s, q, u)
  PROVE  Told(n, r, t, "asked", Push(q, ASK), u)
<1> DEFINE v == IF Len(q) < MAX_FLIGHT THEN q ELSE Tail(q)
<1>1. ASK \in Messages /\ ASK.kind = "request"
  BY DEF ASK, Messages, Request
<1>2. v \in Seq(Messages)
  BY RoomMade
<1>3. Push(q, ASK) = Append(v, ASK)
  BY DEF Push
<1>4. /\ \A i \in Nat : LastWord(Push(q, ASK), i) => LastWord(v, i) /\ Push(q, ASK)[i] = v[i]
      /\ NoWord(Push(q, ASK)) => NoWord(v)
  <2>1. PICK w \in Seq(Messages) : w = v
    BY <1>2
  <2>2. PICK a \in Messages : a = ASK
    BY <1>1
  <2>3. /\ \A i \in Nat : LastWord(Append(w, a), i) => LastWord(w, i) /\ Append(w, a)[i] = w[i]
        /\ NoWord(Append(w, a)) => NoWord(w)
    BY <1>1, <2>2, AppendWords
  <2>4. Append(w, a) = Push(q, ASK)
    BY <1>3, <2>1, <2>2
  <2> HIDE DEF v
  <2> QED BY <2>1, <2>3, <2>4
<1> SUFFICES ASSUME NEW d \in Dest, Present(t[d])
             PROVE  /\ t[d].from # Nobody =>
                         \A i \in Nat : LastWord(Push(q, ASK), i) =>
                           Push(q, ASK)[i].metric[d] = AdvertisedMetric(t[d], r)
                    /\ NoWord(Push(q, ASK)) /\ u[d].valid /\ u[d].from = n =>
                         AdvertisedMetric(t[d], r) + Cost <= u[d].metric
  BY DEF Told
<1>5. t[d].from = Nobody =>
        (u[d].valid /\ u[d].from = n => AdvertisedMetric(t[d], r) + Cost <= u[d].metric)
  <2> SUFFICES ASSUME t[d].from = Nobody, u[d].valid, u[d].from = n
               PROVE  AdvertisedMetric(t[d], r) + Cost <= u[d].metric
    OBVIOUS
  <2>1. t[d].valid /\ t[d].metric = Cost /\ t[d].from # r
    BY RipAssumption DEF SoundTable, SoundRow
  <2>2. AdvertisedMetric(t[d], r) = Cost
    BY <2>1 DEF AdvertisedMetric
  <2>3. Cost + Cost <= u[d].metric
    BY RipAssumption DEF SoundTable, SoundRow
  <2> QED BY <2>2, <2>3
<1>6. CASE Len(q) < MAX_FLIGHT
  BY <1>4, <1>6 DEF Told
<1>7. CASE ~(Len(q) < MAX_FLIGHT)
  <2>1. q # <<>> /\ v = Tail(q)
    BY <1>7, NetworkAssumption, EmptySeq
  <2>2. /\ \A i \in Nat : LastWord(v, i) => LastWord(q, i + 1) /\ v[i] = q[i + 1]
        /\ NoWord(v) => NoWord(q) \/ LastWord(q, 1)
        /\ Len(q) \in Nat
    BY <2>1, TailWords
  <2>3. \A i \in Nat : i + 1 \in Nat
    OBVIOUS
  <2> HIDE DEF v
  <2>4. t[d].from # Nobody =>
          \A i \in Nat : LastWord(Push(q, ASK), i) =>
            Push(q, ASK)[i].metric[d] = AdvertisedMetric(t[d], r)
    BY <1>4, <2>2, <2>3 DEF Told
  <2>5. ASSUME LastWord(q, 1) PROVE EndsAsking(q)
    <3>1. Len(q) \in 1 .. Len(q) /\ Len(q) > 1
      BY <1>7, <2>2, NetworkAssumption
    <3>2. q[Len(q)].kind # "response" /\ q[Len(q)] \in Messages
      BY <2>5, <3>1, ElementOfSeq DEF LastWord
    <3>3. q[Len(q)].kind = "request"
      BY <3>2 DEF Messages, Request, Response
    <3> QED BY <3>1, <3>3 DEF EndsAsking
  <2>6. NoWord(Push(q, ASK)) => NoWord(q) \/ t[d].from = Nobody
    BY <1>4, <2>2, <2>5 DEF Told
  <2> QED BY <1>5, <2>4, <2>6 DEF Told
<1> QED BY <1>6, <1>7

(***************************************************************************)
(* The rows stay sound.                                                    *)
(***************************************************************************)
LEMMA SoundUpdate ==
  ASSUME NEW n \in Router, NEW r \in Router, <<n, r>> \in Link, NEW t, HonestTable(t, r),
         SoundTable(t, r), NEW msg \in Messages, msg.kind = "response"
  PROVE  SoundTable(Updated(t, n, msg), r)
<1> SUFFICES ASSUME NEW d \in Dest
             PROVE  SoundRow(Updated(t, n, msg)[d], r)
  BY DEF SoundTable
<1>1. t[d] \in Row /\ SoundRow(t[d], r)
  BY DEF HonestTable, SoundTable
<1>2. msg.metric[d] \in 0 .. INFINITY
  BY DEF Messages, Request, Response
<1>3. n \in Neighbours(r) /\ n # Nobody
  BY NetworkAssumption, RipAssumption DEF Neighbours
<1>4. Updated(t, n, msg)[d] = IF msg.metric[d] = 0 THEN t[d]
                              ELSE UpdateRoute(t[d], n, msg.metric[d])
  BY DEF Updated
<1>5. ASSUME msg.metric[d] # 0, NEW new, new = UpdateRoute(t[d], n, msg.metric[d])
      PROVE  SoundRow(new, r)
  <2>1. msg.metric[d] \in 1 .. INFINITY
    BY <1>2, <1>5, RipAssumption
  <2>2. \/ ~new.valid /\ new.from = n
        \/ new.valid /\ new.from = n /\ new.metric = msg.metric[d] + Cost
        \/ new = t[d]
    BY <1>1, <1>5, <2>1, UpdateRouteCases
  <2>3. Cost + Cost <= msg.metric[d] + Cost
    BY <2>1, RipAssumption
  <2> QED BY <1>1, <1>3, <2>2, <2>3 DEF SoundRow
<1> QED BY <1>1, <1>4, <1>5

LEMMA SoundTimers ==
  ASSUME NEW r, NEW row \in Row, SoundRow(row, r)
  PROVE  /\ TimedOut(row) => SoundRow(Poisoned(row), r)
         /\ SoundRow(NoRow, r) /\ SoundRow(DirectRow, r)
         /\ SoundRow(Aged(row), r)
<1>1. TimedOut(row) => SoundRow(Poisoned(row), r)
  BY DEF TimedOut, SoundRow, Poisoned
<1>2. SoundRow(NoRow, r) /\ SoundRow(DirectRow, r)
  BY DEF SoundRow, NoRow, DirectRow, Present
<1>3. SoundRow(Aged(row), r)
  BY TimerFacts DEF SoundRow, Present
<1> QED BY <1>1, <1>2, <1>3

\* Router x changes its table and what is under way on its links; the rest stays.
LEMMA OneTable ==
  ASSUME Inv, AllTold, NEW x \in Router, NEW new, table' = [table EXCEPT ![x] = new],
         \A n \in Router : n # x => status'[n] = status[n],
         \A n \in Router : <<n, x>> \in Link =>
           Told(n, x, table[n], status[n], frames'[<<n, x>>], new),
         \A r \in Router : <<x, r>> \in Link =>
           Told(x, r, new, status'[x], frames'[<<x, r>>], table[r]),
         \A l \in Link : l[1] # x /\ l[2] # x => frames'[l] = frames[l]
  PROVE  AllTold'
<1> SUFFICES ASSUME NEW n \in Router, NEW r \in Router, <<n, r>> \in Link
             PROVE  Told(n, r, table'[n], status'[n], frames'[<<n, r>>], table'[r])
  BY DEF AllTold
<1>1. n # r
  BY NetworkAssumption
<1>2. \A q \in Router : table'[q] = IF q = x THEN new ELSE table[q]
  BY DEF Inv
<1>3. CASE n = x
  BY <1>1, <1>2, <1>3
<1>4. CASE r = x
  BY <1>1, <1>2, <1>4
<1>5. CASE n # x /\ r # x
  <2>1. frames'[<<n, r>>] = frames[<<n, r>>]
    BY <1>5
  <2> QED BY <1>2, <1>5, <2>1 DEF AllTold
<1> QED BY <1>3, <1>4, <1>5

\* The table b is a, without some of its learned rows, and with the router's own
\* routes; s and t are the router's status before and after.
OnlyDrops(a, b, s, t) ==
  \A d \in Dest :
    /\ Present(b[d]) => \/ b[d].from = Nobody
                        \/ /\ Present(a[d]) /\ b[d].from = a[d].from
                           /\ b[d].valid = a[d].valid /\ b[d].metric = a[d].metric
                           /\ t # "asked" => s # "asked"
    /\ b[d].valid /\ b[d].from # Nobody =>
         a[d].valid /\ b[d].from = a[d].from /\ b[d].metric = a[d].metric

\* x sends nothing and has no row that a neighbour would have to be told about.
LEMMA QuietChange ==
  ASSUME Inv, AllTold, \A r \in Router : SoundTable(table[r], r),
         NEW x \in Router, NEW new, SoundTable(new, x),
         table' = [table EXCEPT ![x] = new], UNCHANGED frames,
         \A n \in Router : n # x => status'[n] = status[n],
         OnlyDrops(table[x], new, status[x], status'[x])
  PROVE  AllTold'
<1>1. ASSUME NEW n \in Router, <<n, x>> \in Link
      PROVE  Told(n, x, table[n], status[n], frames[<<n, x>>], new)
  <2>1. Told(n, x, table[n], status[n], frames[<<n, x>>], table[x])
    BY <1>1 DEF AllTold
  <2>2. n # Nobody
    BY RipAssumption
  <2> QED BY <2>1, <2>2, ToldStill DEF OnlyDrops
<1>2. ASSUME NEW r \in Router, <<x, r>> \in Link
      PROVE  Told(x, r, new, status'[x], frames[<<x, r>>], table[r])
  <2>1. Told(x, r, table[x], status[x], frames[<<x, r>>], table[r])
    BY <1>2 DEF AllTold
  <2> QED BY <2>1, ToldBefore DEF OnlyDrops
<1> QED BY <1>1, <1>2, OneTable

\* x sends its table, new or not, to the routers of to, after taking a frame or not.
LEMMA SendChange ==
  ASSUME Inv, AllTold, NEW x \in Router, NEW new, HonestTable(new, x),
         table' = [table EXCEPT ![x] = new], UNCHANGED status,
         NEW f, HonestFrames(f), \A l \in Link : l[2] # x => f[l] = frames[l],
         NEW to, frames' = SendTable(f, x, to, new),
         Neighbours(x) \subseteq to \/ new = table[x],
         \A n \in Router : <<n, x>> \in Link =>
           Told(n, x, table[n], status[n], f[<<n, x>>], new)
  PROVE  AllTold'
<1>1. \A l \in Link : l[1] # x \/ l[2] \notin to => frames'[l] = f[l]
  BY DEF SendTable
<1>2. ASSUME NEW n \in Router, <<n, x>> \in Link
      PROVE  Told(n, x, table[n], status[n], frames'[<<n, x>>], new)
  <2>1. n # x
    BY <1>2, NetworkAssumption
  <2> QED BY <1>1, <1>2, <2>1
<1>3. ASSUME NEW r \in Router, <<x, r>> \in Link
      PROVE  Told(x, r, new, status'[x], frames'[<<x, r>>], table[r])
  <2>1. CASE r \in to
    BY <1>3, <2>1, ToldBySending
  <2>2. CASE r \notin to
    <3>1. new = table[x]
      BY <1>3, <2>2 DEF Neighbours
    <3>2. r # x
      BY <1>3, NetworkAssumption
    <3>3. frames'[<<x, r>>] = frames[<<x, r>>]
      BY <1>1, <1>3, <2>2, <3>2
    <3> QED BY <1>3, <3>1, <3>3 DEF AllTold
  <2> QED BY <2>1, <2>2
<1>4. \A l \in Link : l[1] # x /\ l[2] # x => frames'[l] = frames[l]
  BY <1>1
<1> QED BY <1>2, <1>3, <1>4, OneTable

\* of DescentInv, what does not depend on the frames
LEMMA SoundStep ==
  ASSUME Inv, DescentInv, NEW x \in Router, NEW new, SoundTable(new, x),
         table' = [table EXCEPT ![x] = new],
         \A n \in Router : n # x => status'[n] = status[n],
         status'[x] = "dead" => \A d \in Dest : new[d] = NoRow
  PROVE  /\ \A r \in Router : SoundTable(table'[r], r)
         /\ \A r \in Router : status'[r] = "dead" => \A d \in Dest : table'[r][d] = NoRow
<1>1. \A q \in Router : table'[q] = IF q = x THEN new ELSE table[q]
  BY DEF Inv
<1> QED BY <1>1 DEF DescentInv

LEMMA StepDescent ==
  ASSUME MAX_FLIGHT > 1, Inv, DescentInv, [Next]_vars
  PROVE  DescentInv'
<1>0. /\ HonestFrames(frames) /\ table \in [Router -> [Dest -> Row]]
      /\ status \in [Router -> Status] /\ faults \in Nat
      /\ \A r \in Router : HonestTable(table[r], r) /\ SoundTable(table[r], r)
  BY DEF Inv, TableOK, DescentInv
<1>a. ASSUME NEW x \in Router, NEW new, SoundTable(new, x), table' = [table EXCEPT ![x] = new],
             \A n \in Router : n # x => status'[n] = status[n],
             status'[x] = "dead" => \A d \in Dest : new[d] = NoRow,
             UNCHANGED faults, AllTold => AllTold'
      PROVE  DescentInv'
  BY <1>a, SoundStep DEF DescentInv
<1>b. ASSUME UNCHANGED table, UNCHANGED status, faults' = faults => (AllTold => AllTold'),
             faults' = faults \/ faults' = faults + 1
      PROVE  DescentInv'
  <2>1. faults' = 0 => faults' = faults
    BY <1>0, <1>b
  <2> QED BY <1>b, <2>1 DEF DescentInv
<1>c. \A x \in Router : table = [table EXCEPT ![x] = table[x]]
  BY <1>0
<1>1. ASSUME NEW x \in Router, Connect(x) PROVE DescentInv'
  <2> DEFINE new == [d \in Dest |-> IF x \in Attached[d] THEN DirectRow ELSE table[x][d]]
  <2>1. table' = [table EXCEPT ![x] = new] /\ UNCHANGED <<frames, faults>>
        /\ status[x] = "started" /\ status' = [status EXCEPT ![x] = "connected"]
    BY <1>1 DEF Connect
  <2>2. SoundTable(new, x)
    BY <1>0, SoundTimers DEF SoundTable, HonestTable
  <2>3. \A d \in Dest : new[d] = table[x][d] \/ (new[d].from = Nobody /\ new[d].valid)
    BY DEF DirectRow
  <2>4. /\ \A n \in Router : n # x => status'[n] = status[n]
        /\ status'[x] = "connected"
    BY <1>0, <2>1
  <2> HIDE DEF new
  <2>5. OnlyDrops(table[x], new, status[x], status'[x])
    BY <2>1, <2>3 DEF OnlyDrops
  <2>6. AllTold => AllTold'
    BY <1>0, <2>1, <2>2, <2>4, <2>5, QuietChange
  <2> QED BY <1>a, <2>1, <2>2, <2>4, <2>6
<1>2. ASSUME NEW x \in Router, Ask(x) PROVE DescentInv'
  <2>1. /\ UNCHANGED <<table, faults>> /\ status[x] = "connected"
        /\ status' = [status EXCEPT ![x] = "asked"]
        /\ \A l \in Link : frames'[l] = IF l[1] = x THEN Push(frames[l], ASK) ELSE frames[l]
    BY <1>2 DEF Ask
  <2>2. /\ \A n \in Router : n # x => status'[n] = status[n]
        /\ status'[x] = "asked"
    BY <1>0, <2>1
  <2>3. ASSUME AllTold PROVE AllTold'
    <3>1. ASSUME NEW n \in Router, <<n, x>> \in Link
          PROVE  Told(n, x, table[n], status[n], frames'[<<n, x>>], table[x])
      <4>1. n # x
        BY <3>1, NetworkAssumption
      <4>2. frames'[<<n, x>>] = frames[<<n, x>>]
        BY <2>1, <3>1, <4>1
      <4> QED BY <2>3, <3>1, <4>2 DEF AllTold
    <3>2. ASSUME NEW r \in Router, <<x, r>> \in Link
          PROVE  Told(x, r, table[x], status'[x], frames'[<<x, r>>], table[r])
      <4>1. frames'[<<x, r>>] = Push(frames[<<x, r>>], ASK)
        BY <2>1, <3>2
      <4>2. frames[<<x, r>>] \in Seq(Messages)
        BY <1>0, <3>2 DEF HonestFrames
      <4>3. Told(x, r, table[x], status[x], frames[<<x, r>>], table[r])
        BY <2>3, <3>2 DEF AllTold
      <4>4. status[x] # "asked"
        BY <2>1
      <4> QED BY <1>0, <2>2, <4>1, <4>2, <4>3, <4>4, ToldAndAsked
    <3>3. \A l \in Link : l[1] # x /\ l[2] # x => frames'[l] = frames[l]
      BY <2>1
    <3>4. table' = [table EXCEPT ![x] = table[x]]
      BY <1>c, <2>1
    <3> QED BY <2>2, <2>3, <3>1, <3>2, <3>3, <3>4, OneTable
  <2>4. table' = [table EXCEPT ![x] = table[x]]
    BY <1>c, <2>1
  <2> QED BY <1>0, <1>a, <2>1, <2>2, <2>3, <2>4
<1>3. ASSUME NEW x \in Router, Advertise(x) PROVE DescentInv'
  <2>1. UNCHANGED <<table, status, faults>>
        /\ frames' = SendTable(frames, x, Neighbours(x), table[x])
    BY <1>3 DEF Advertise
  <2>2. table' = [table EXCEPT ![x] = table[x]]
    BY <1>c, <2>1
  <2>3. AllTold => \A n \in Router : <<n, x>> \in Link =>
          Told(n, x, table[n], status[n], frames[<<n, x>>], table[x])
    BY DEF AllTold
  <2>4. AllTold => AllTold'
    BY <1>0, <2>1, <2>2, <2>3, SendChange
  <2> QED BY <1>b, <2>1, <2>4
<1>4. ASSUME NEW n \in Router, NEW x \in Router, HandleRequest(n, x) PROVE DescentInv'
  <2> DEFINE rest == Taken(frames, <<n, x>>)
  <2>1. /\ UNCHANGED <<table, status, faults>> /\ <<n, x>> \in Link
        /\ frames[<<n, x>>] # <<>> /\ Head(frames[<<n, x>>]) = ASK
        /\ frames' = SendTable(rest, x, {n}, table[x])
    BY <1>4 DEF HandleRequest
  <2>2. table' = [table EXCEPT ![x] = table[x]]
    BY <1>c, <2>1
  <2>3. HonestFrames(rest)
    BY <1>0, <2>1, TakenFacts
  <2>4. \A l \in Link : rest[l] = IF l = <<n, x>> THEN Tail(frames[l]) ELSE frames[l]
    BY <1>0 DEF Taken, HonestFrames
  <2>5. frames[<<n, x>>] \in Seq(Messages) /\ Head(frames[<<n, x>>]).kind # "response"
    BY <1>0, <2>1 DEF HonestFrames, ASK
  <2> HIDE DEF rest
  <2>6. ASSUME AllTold, NEW m \in Router, <<m, x>> \in Link
        PROVE  Told(m, x, table[m], status[m], rest[<<m, x>>], table[x])
    <3>1. Told(m, x, table[m], status[m], frames[<<m, x>>], table[x])
      BY <2>6 DEF AllTold
    <3>2. CASE m = n
      BY <2>1, <2>4, <2>5, <3>1, <3>2, ToldBesides
    <3>3. CASE m # n
      BY <2>4, <2>6, <3>1, <3>3
    <3> QED BY <3>2, <3>3
  <2>7. \A l \in Link : l[2] # x => rest[l] = frames[l]
    BY <2>4
  <2>8. AllTold => AllTold'
    BY <1>0, <2>1, <2>2, <2>3, <2>6, <2>7, SendChange
  <2> QED BY <1>b, <2>1, <2>8
<1>5. ASSUME NEW n \in Router, NEW x \in Router, HandleResponse(n, x) PROVE DescentInv'
  <2> DEFINE msg == Head(frames[<<n, x>>])
             new == Updated(table[x], n, msg)
             rest == Taken(frames, <<n, x>>)
  <2>1. /\ UNCHANGED <<status, faults>> /\ <<n, x>> \in Link /\ status[x] # "dead"
        /\ frames[<<n, x>>] # <<>> /\ msg.kind = "response"
        /\ table' = [table EXCEPT ![x] = new]
        /\ frames' = IF Changed(table[x], n, msg)
                     THEN SendTable(rest, x, Neighbours(x), new) ELSE rest
    BY <1>5 DEF HandleResponse, Alive
  <2>2. HonestFrames(rest) /\ msg \in Honest(n)
    BY <1>0, <2>1, TakenFacts
  <2>3. \A l \in Link : rest[l] = IF l = <<n, x>> THEN Tail(frames[l]) ELSE frames[l]
    BY <1>0 DEF Taken, HonestFrames
  <2>4. msg \in Messages /\ frames[<<n, x>>] \in Seq(Messages)
    BY <1>0, <2>1, <2>2, HonestMessages DEF HonestFrames
  <2>5. HonestTable(new, x) /\ SoundTable(new, x)
    <3>1. TableOK(table[x], x, status[x])
      BY DEF Inv
    <3> HIDE DEF msg
    <3>2. TableOK(new, x, status[x])
      BY <2>1, <2>2, <3>1, UpdatedFacts
    <3>3. SoundTable(new, x)
      BY <1>0, <2>1, <2>4, SoundUpdate
    <3> QED BY <3>2, <3>3 DEF TableOK
  <2>6. \A d \in Dest :
          /\ new[d] = IF msg.metric[d] = 0 THEN table[x][d]
                      ELSE UpdateRoute(table[x][d], n, msg.metric[d])
          /\ msg.metric[d] \in 0 .. INFINITY
    BY <2>1, <2>4 DEF Updated, Messages, Request, Response
  <2>7. \A d \in Dest : new[d] = table[x][d] \/ new[d].from = n
    <3> HIDE DEF msg, new
    <3> SUFFICES ASSUME NEW d \in Dest, msg.metric[d] # 0
                 PROVE  new[d] = table[x][d] \/ new[d].from = n
      BY <2>6
    <3>1. msg.metric[d] \in 1 .. INFINITY
      BY <2>6, RipAssumption
    <3>2. table[x][d] \in Row /\ new[d] = UpdateRoute(table[x][d], n, msg.metric[d])
      BY <1>0, <2>6
    <3> QED BY <3>1, <3>2, UpdateRouteCases
  <2>8. ASSUME AllTold, NEW m \in Router, <<m, x>> \in Link
        PROVE  Told(m, x, table[m], status[m], rest[<<m, x>>], new)
    <3>1. Told(m, x, table[m], status[m], frames[<<m, x>>], table[x])
      BY <2>8 DEF AllTold
    <3>2. CASE m = n
      <4>1. rest[<<n, x>>] = Tail(frames[<<n, x>>])
        BY <2>1, <2>3
      <4> HIDE DEF new, rest
      <4>2. Told(n, x, table[n], status[n], Tail(frames[<<n, x>>]), new)
        BY <1>0, <2>1, <2>4, <2>5, <3>1, <3>2, ToldByResponse DEF new
      <4> QED BY <3>2, <4>1, <4>2
    <3>3. CASE m # n
      <4>1. rest[<<m, x>>] = frames[<<m, x>>]
        BY <2>3, <2>8, <3>3
      <4> HIDE DEF new, rest
      <4>2. \A d \in Dest : new[d].valid /\ new[d].from = m =>
              table[x][d].valid /\ table[x][d].from = m /\ new[d].metric = table[x][d].metric
        BY <2>7, <3>3
      <4>3. Told(m, x, table[m], status[m], frames[<<m, x>>], new)
        BY <3>1, <4>2, ToldStill
      <4> QED BY <4>1, <4>3
    <3> QED BY <3>2, <3>3
  <2>9. \A l \in Link : l[2] # x => rest[l] = frames[l]
    BY <2>3
  <2>10. ASSUME AllTold, Changed(table[x], n, msg)
         PROVE  AllTold'
    <3>1. frames' = SendTable(rest, x, Neighbours(x), new)
      BY <2>1, <2>10
    <3> HIDE DEF new, rest, msg
    <3> QED BY <2>1, <2>2, <2>5, <2>8, <2>9, <2>10, <3>1, SendChange
  <2>11. ASSUME AllTold, ~Changed(table[x], n, msg)
         PROVE  AllTold'
    <3>1. \A d \in Dest : /\ new[d].valid = table[x][d].valid /\ new[d].from = table[x][d].from
                          /\ new[d].metric = table[x][d].metric
      <4> HIDE DEF new, msg
      <4> QED BY <2>6, <2>11 DEF Changed, RouteChanged
    <3>2. ASSUME NEW r \in Router, <<x, r>> \in Link
          PROVE  Told(x, r, new, status'[x], rest[<<x, r>>], table[r])
      <4>1. Told(x, r, table[x], status[x], frames[<<x, r>>], table[r])
        BY <2>11, <3>2 DEF AllTold
      <4>2. rest[<<x, r>>] = frames[<<x, r>>]
        <5>1. r # x
          BY <3>2, NetworkAssumption
        <5> QED BY <2>9, <3>2, <5>1
      <4> HIDE DEF new, rest
      <4>3. \A d \in Dest : Present(new[d]) => Present(table[x][d])
        BY <3>1 DEF Present
      <4>4. Told(x, r, new, status[x], frames[<<x, r>>], table[r])
        BY <1>0, <2>5, <3>1, <4>1, <4>3, ToldBefore
      <4> QED BY <2>1, <4>2, <4>4
    <3>3. frames' = rest
      BY <2>1, <2>11
    <3>4. \A l \in Link : l[1] # x /\ l[2] # x => frames'[l] = frames[l]
      BY <2>9, <3>3
    <3> HIDE DEF new, rest, msg
    <3> QED BY <2>1, <2>8, <2>11, <3>2, <3>3, <3>4, OneTable
  <2> HIDE DEF new, rest, msg
  <2> QED BY <1>a, <2>1, <2>5, <2>10, <2>11
<1>6. ASSUME NEW x \in Router, TimeoutPass(x) PROVE DescentInv'
  <2> DEFINE new == [d \in Dest |-> IF TimedOut(table[x][d]) THEN Poisoned(table[x][d])
                                    ELSE table[x][d]]
  <2>1. /\ table' = [table EXCEPT ![x] = new] /\ UNCHANGED <<status, faults>>
        /\ frames' = SendTable(frames, x, Neighbours(x), new) /\ status[x] # "dead"
    BY <1>6 DEF TimeoutPass, Alive
  <2>2. HonestTable(new, x)
    BY <1>0, TimerFacts DEF HonestTable
  <2>3. SoundTable(new, x)
    BY <1>0, SoundTimers DEF SoundTable, HonestTable
  <2>4. \A d \in Dest : new[d] = table[x][d] \/ ~new[d].valid
    BY DEF Poisoned
  <2> HIDE DEF new
  <2>5. ASSUME AllTold, NEW n \in Router, <<n, x>> \in Link
        PROVE  Told(n, x, table[n], status[n], frames[<<n, x>>], new)
    <3>1. Told(n, x, table[n], status[n], frames[<<n, x>>], table[x])
      BY <2>5 DEF AllTold
    <3> QED BY <2>4, <3>1, ToldStill
  <2>6. AllTold => AllTold'
    BY <1>0, <2>1, <2>2, <2>5, SendChange
  <2> QED BY <1>a, <2>1, <2>3, <2>6
<1>7. ASSUME NEW x \in Router, GarbagePass(x) PROVE DescentInv'
  <2> DEFINE new == [d \in Dest |-> IF Collected(table[x][d]) THEN NoRow ELSE table[x][d]]
  <2>1. /\ table' = [table EXCEPT ![x] = new] /\ UNCHANGED <<status, frames, faults>>
        /\ status[x] # "dead"
    BY <1>7 DEF GarbagePass, Alive
  <2>2. SoundTable(new, x)
    BY <1>0, SoundTimers DEF SoundTable, HonestTable
  <2>3. \A d \in Dest : new[d] = table[x][d] \/ (~Present(new[d]) /\ ~new[d].valid)
    BY DEF NoRow, Present
  <2> HIDE DEF new
  <2>4. OnlyDrops(table[x], new, status[x], status'[x])
    BY <2>1, <2>3 DEF OnlyDrops
  <2>5. AllTold => AllTold'
    BY <1>0, <2>1, <2>2, <2>4, QuietChange
  <2> QED BY <1>a, <2>1, <2>2, <2>5
<1>8. ASSUME NEW n \in Router, NEW x \in Router, Unheard(n, x) PROVE DescentInv'
  <2>1. /\ UNCHANGED <<table, status, faults>> /\ <<n, x>> \in Link /\ status[x] = "dead"
        /\ frames[<<n, x>>] # <<>> /\ frames' = Taken(frames, <<n, x>>)
    BY <1>8 DEF Unheard, Alive
  <2>2. \A l \in Link : frames'[l] = IF l = <<n, x>> THEN Tail(frames[l]) ELSE frames[l]
    BY <1>0, <2>1 DEF Taken, HonestFrames
  <2>3. ASSUME AllTold PROVE AllTold'
    <3> SUFFICES ASSUME NEW m \in Router, NEW r \in Router, <<m, r>> \in Link
                 PROVE  Told(m, r, table[m], status[m], frames'[<<m, r>>], table[r])
      BY <2>1 DEF AllTold
    <3>1. Told(m, r, table[m], status[m], frames[<<m, r>>], table[r])
      BY <2>3 DEF AllTold
    <3>2. CASE <<m, r>> = <<n, x>>
      <4>1. frames'[<<m, r>>] = Tail(frames[<<m, r>>]) /\ m = n /\ r = x
        BY <2>2, <3>2
      <4>2. \A d \in Dest : ~table[r][d].valid
        BY <2>1, <4>1 DEF DescentInv, NoRow
      <4>3. frames[<<m, r>>] \in Seq(Messages) /\ frames[<<m, r>>] # <<>>
        BY <1>0, <2>1, <4>1 DEF HonestFrames
      <4> QED BY <3>1, <4>1, <4>2, <4>3, ToldNobody
    <3>3. CASE <<m, r>> # <<n, x>>
      BY <2>2, <3>1, <3>3
    <3> QED BY <3>2, <3>3
  <2> QED BY <1>b, <2>1, <2>3
<1>9. ASSUME NEW l \in Link, Lose(l) \/ Overtake(l) PROVE DescentInv'
  <2>1. UNCHANGED <<table, status>> /\ faults' = faults + 1
    BY <1>9 DEF Lose, Overtake
  <2> QED BY <1>0, <1>b, <2>1
<1>10. ASSUME NEW x \in Router, Crash(x) PROVE DescentInv'
  <2> DEFINE new == [d \in Dest |-> NoRow]
  <2>1. /\ table' = [table EXCEPT ![x] = new] /\ UNCHANGED <<frames, faults>>
        /\ status' = [status EXCEPT ![x] = "dead"]
    BY <1>10 DEF Crash
  <2>2. /\ \A n \in Router : n # x => status'[n] = status[n]
        /\ \A d \in Dest : new[d] = NoRow /\ ~Present(new[d]) /\ ~new[d].valid
    BY <1>0, <2>1 DEF Present, NoRow
  <2>3. SoundTable(new, x)
    BY DEF SoundTable, SoundRow, NoRow, Present
  <2> HIDE DEF new
  <2>4. OnlyDrops(table[x], new, status[x], status'[x])
    BY <2>2 DEF OnlyDrops
  <2>5. AllTold => AllTold'
    BY <1>0, <2>1, <2>2, <2>3, <2>4, QuietChange
  <2> QED BY <1>a, <2>1, <2>2, <2>3, <2>5
<1>11. ASSUME NEW x \in Router, Restart(x) PROVE DescentInv'
  <2>1. /\ UNCHANGED <<table, frames, faults>> /\ status[x] = "dead"
        /\ status' = [status EXCEPT ![x] = "started"]
    BY <1>11 DEF Restart, Alive
  <2>2. /\ \A n \in Router : n # x => status'[n] = status[n]
        /\ status'[x] = "started" /\ table' = [table EXCEPT ![x] = table[x]]
    BY <1>0, <1>c, <2>1
  <2>3. OnlyDrops(table[x], table[x], status[x], status'[x])
    BY <2>1 DEF OnlyDrops
  <2>4. AllTold => AllTold'
    BY <1>0, <2>1, <2>2, <2>3, QuietChange
  <2> QED BY <1>0, <1>a, <2>1, <2>2, <2>4
<1>12. ASSUME Tick PROVE DescentInv'
  <2>1. UNCHANGED <<status, frames, faults>>
    BY <1>12 DEF Tick
  <2>2. \A r \in Router, d \in Dest :
          table'[r][d] = IF Present(table[r][d]) THEN Aged(table[r][d]) ELSE table[r][d]
    BY <1>12 DEF Tick
  <2>3. ASSUME NEW r \in Router
        PROVE  /\ SoundTable(table'[r], r)
               /\ \A d \in Dest : /\ table'[r][d].valid = table[r][d].valid
                                  /\ table'[r][d].from = table[r][d].from
                                  /\ table'[r][d].metric = table[r][d].metric
                                  /\ ~Present(table[r][d]) => table'[r][d] = table[r][d]
    <3>1. \A d \in Dest : table[r][d] \in Row /\ SoundRow(table[r][d], r)
      BY <1>0 DEF SoundTable
    <3> QED BY <2>2, <3>1, SoundTimers, TimerFacts DEF SoundTable
  <2>4. ASSUME NEW r \in Router, status'[r] = "dead", NEW d \in Dest
        PROVE  table'[r][d] = NoRow
    <3>1. table[r][d] = NoRow
      BY <2>1, <2>4 DEF DescentInv
    <3> QED BY <2>3, <3>1 DEF NoRow, Present
  <2>5. ASSUME AllTold PROVE AllTold'
    <3> SUFFICES ASSUME NEW n \in Router, NEW r \in Router, <<n, r>> \in Link
                 PROVE  Told(n, r, table'[n], status[n], frames[<<n, r>>], table'[r])
      BY <2>1 DEF AllTold
    <3>1. Told(n, r, table[n], status[n], frames[<<n, r>>], table[r])
      BY <2>5 DEF AllTold
    <3>2. Told(n, r, table[n], status[n], frames[<<n, r>>], table'[r])
      BY <2>3, <3>1, ToldStill
    <3>3. \A d \in Dest : Present(table'[n][d]) =>
            /\ Present(table[n][d]) /\ table'[n][d].from = table[n][d].from
            /\ table'[n][d].valid = table[n][d].valid
            /\ table'[n][d].metric = table[n][d].metric
      BY <2>3 DEF Present
    <3> QED BY <2>3, <3>2, <3>3, ToldBefore
  <2> QED BY <2>1, <2>3, <2>4, <2>5 DEF DescentInv
<1>13. CASE UNCHANGED vars
  BY <1>13 DEF vars, DescentInv, AllTold
<1> QED
  BY <1>1, <1>2, <1>3, <1>4, <1>5, <1>6, <1>7, <1>8, <1>9, <1>10, <1>11, <1>12, <1>13
     DEF Next, RouterStep

\* With triggered updates on every change but the installation of direct routes
\* (sr_handle_rip_packet, the timeout manager), once every frame has arrived and none
\* was lost or overtaken, the next hop of a route that still has a row is nearer, on
\* any links. (With room for one frame on a link only, a request could take the place
\* of the advertisement it follows.)
THEOREM NextHopsDescend ==
  ASSUME MAX_FLIGHT > 1
  PROVE  Spec => []RoutesDescend
<1>1. Init => DescentInv
  <2> SUFFICES ASSUME Init PROVE DescentInv
    OBVIOUS
  <2>1. \A r \in Router : \A d \in Dest : table[r][d] = NoRow
    BY DEF Init
  <2>2. \A r \in Router : SoundTable(table[r], r)
    BY <2>1 DEF SoundTable, SoundRow, NoRow, Present
  <2>3. AllTold
    BY <2>1 DEF AllTold, Told, NoRow, Present
  <2> QED BY <2>1, <2>2, <2>3 DEF DescentInv
<1>2. Inv /\ DescentInv /\ [Next]_vars => DescentInv'
  BY StepDescent
<1>3. Inv /\ DescentInv => RoutesDescend
  <2> SUFFICES ASSUME Inv, DescentInv, Quiet, faults = 0,
                      NEW r \in Router, NEW n \in Router, NEW d \in Dest,
                      table[r][d].valid, table[r][d].from = n, Present(table[n][d])
               PROVE  table[n][d].valid /\ table[n][d].metric < table[r][d].metric
    BY DEF RoutesDescend
  <2>1. n \in Neighbours(r) /\ n # Nobody
    BY RipAssumption DEF DescentInv, SoundTable, SoundRow
  <2>2. <<n, r>> \in Link
    BY <2>1, NetworkAssumption DEF Neighbours
  <2>3. NoWord(frames[<<n, r>>])
    <3>1. Len(frames[<<n, r>>]) = 0
      BY <2>2 DEF Quiet
    <3> QED BY <3>1 DEF NoWord
  <2>4. AdvertisedMetric(table[n][d], r) + Cost <= table[r][d].metric
    BY <2>2, <2>3 DEF DescentInv, AllTold, Told
  <2>5. table[r][d].metric \in 1 .. INFINITY - 1 /\ table[n][d].metric \in 0 .. INFINITY
    BY DEF Inv, Row
  <2>6. AdvertisedMetric(table[n][d], r) # INFINITY
    BY <2>4, <2>5, RipAssumption
  <2>7. table[n][d].valid /\ AdvertisedMetric(table[n][d], r) = table[n][d].metric
    BY <2>6 DEF AdvertisedMetric
  <2> QED BY <2>4, <2>5, <2>7
<1> QED BY <1>1, <1>2, <1>3, Invariance, PTL DEF Spec
=============================================================================
