------------------------------ MODULE RipRoute ------------------------------
(***************************************************************************)
(* One row of a routing table and the two decisions sr_rip.c takes about   *)
(* it: what an advertised metric does to the row (sr_rip_update_route) and *)
(* what the row looks like in an advertisement (sr_rip_send_response).     *)
(*                                                                         *)
(* Links are point to point, so a neighbour also names the interface it is *)
(* reached by; sr_rip_update_route always writes gw, learned_from and      *)
(* interface of one neighbour together, so "from" stands for the three.    *)
(* garbage_collection_time is zero exactly while the row is valid, and     *)
(* last_updated is only read while it is: "age" counts from last_updated   *)
(* while the row is valid and from garbage_collection_time after that.     *)
(***************************************************************************)
EXTENDS Naturals

CONSTANTS
  Router,     \* the routers
  Nobody,     \* learned_from = 0.0.0.0, the direct routes
  INFINITY,   \* the metric of an unreachable network (16 in the code)
  RIP_TIMEOUT,             \* advertisement intervals (60 s are 6)
  RIP_GARBAGE_COLLECTION   \* advertisement intervals (40 s are 4)

ASSUME RipAssumption ==
  /\ Nobody \notin Router
  /\ INFINITY \in Nat /\ INFINITY > 1
  /\ RIP_TIMEOUT \in Nat /\ RIP_GARBAGE_COLLECTION \in Nat

\* every interface has cost 1 (sr_add_interface), whatever the link
Cost == 1

\* an age beyond both timers decides nothing more
MAX_AGE == RIP_TIMEOUT + RIP_GARBAGE_COLLECTION + 1

\* A row that is not in the table has metric 0; a valid one is reachable
Row ==
  {row \in [valid : BOOLEAN, metric : 0 .. INFINITY, from : Router \cup {Nobody},
            age : 0 .. MAX_AGE] :
     row.valid => row.metric \in 1 .. INFINITY - 1}

NoRow == [valid |-> FALSE, metric |-> 0, from |-> Nobody, age |-> 0]

DirectRow == [valid |-> TRUE, metric |-> Cost, from |-> Nobody, age |-> 0]

Learned(n, metric) == [valid |-> TRUE, metric |-> metric, from |-> n, age |-> 0]

\* timed out or poisoned: the row stays until garbage collection
Poisoned(row) == [valid |-> FALSE, metric |-> INFINITY, from |-> row.from, age |-> 0]

Present(row) == row.metric # 0

\* Fault: the cost of the link is not added.
UpdateRouteFree(row, n, adv) ==
  IF adv >= INFINITY
  THEN IF row.valid /\ row.from = n THEN Poisoned(row) ELSE row
  ELSE IF ~row.valid \/ row.from = n \/ adv < row.metric
  THEN Learned(n, IF adv = 0 THEN Cost ELSE adv)
  ELSE row

\* Fault: infinity is only looked for in the metric that came in.
UpdateRouteLate(row, n, adv) ==
  IF adv >= INFINITY
  THEN IF row.valid /\ row.from = n THEN Poisoned(row) ELSE row
  ELSE IF ~row.valid \/ row.from = n \/ adv + Cost < row.metric
  THEN Learned(n, adv + Cost)
  ELSE row

\* sr_rip_update_route: neighbour n advertises metric adv. Equal metrics keep the
\* row they find: the refresh of line 225 asks for the gateway of a row that was
\* learned from somebody else, which no row has.
UpdateRoute(row, n, adv) ==
  IF adv + Cost >= INFINITY
  THEN IF row.valid /\ row.from = n THEN Poisoned(row) ELSE row
  ELSE IF \/ ~row.valid
          \/ row.from = n
          \/ adv + Cost < row.metric
  THEN Learned(n, adv + Cost)
  ELSE row

\* its result, 1 when the table changed in more than a timestamp
RouteChanged(row, n, adv) ==
  LET new == UpdateRoute(row, n, adv) IN
    new.valid # row.valid \/ new.metric # row.metric \/ new.from # row.from

\* Fault: ENABLE_SPLIT_HORIZON 0.
AdvertisedWithoutPoison(row, n) == IF ~row.valid THEN INFINITY ELSE row.metric

\* the metric sr_rip_send_response puts in the entry for the neighbour n: an
\* invalid row, and by poisoned reverse a row learned from n, is unreachable
AdvertisedMetric(row, n) ==
  IF ~row.valid \/ row.from = n THEN INFINITY ELSE row.metric

\* the two timers are compared with >, so a row outlives them by one check
Aged(row) == [row EXCEPT !.age = IF @ < MAX_AGE THEN @ + 1 ELSE @]

\* Fault: the timeout manager does not spare the direct routes.
TimedOutAlso(row) == row.valid /\ row.age > RIP_TIMEOUT

\* Fault: the arguments of difftime are swapped.
TimedOutNever(row) == row.valid /\ row.from # Nobody /\ row.age + RIP_TIMEOUT < 0

TimedOut(row)  == row.valid /\ row.from # Nobody /\ row.age > RIP_TIMEOUT
Collected(row) == Present(row) /\ ~row.valid /\ row.age > RIP_GARBAGE_COLLECTION
=============================================================================
