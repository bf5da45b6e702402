---------------------------- MODULE RouterProofs ----------------------------
(***************************************************************************)
(* Proofs about RouterProcess, for any prefixes, rows, interfaces and      *)
(* timers. The first part shows that what is freed under a lookup was      *)
(* dead; how the list is walked plays no part in it. The second part is    *)
(* about the list: it stays one, no lookup passes over a row that stays,   *)
(* and direct routes stay.                                                 *)
(***************************************************************************)
EXTENDS RouterProcess, Recursion

Rows ==
  /\ row \in [Node -> Row]
  /\ memory \in [Node -> {"free", "raw", "row"}]

\* until the threads run, nobody holds the lock and no row is in memory
NothingYet ==
  stage \in Handshake => lock = "none" /\ \A n \in Node : memory[n] = "free"

\* the row under somebody's hands is the lock holder's
VictimIsLocked == lock = "none" => victim = NULL

Expired(n) == ~row[n].valid /\ row[n].age > RIP_GARBAGE_COLLECTION

\* the collector has the lock from the choice of its rows to the last free, and
\* while it has it none of them is revived
DoomedAreDead ==
  lock = "collector" =>
    \A n \in Node : /\ n \in doomed => n # victim
                    /\ n \in doomed \/ n = victim => Expired(n)

\* the row that the advertiser takes out is of the network of this turn
ReplacedIsOfTurn ==
  lock = "advertiser" =>
    \A n \in Node : n = victim /\ memory[n] # "raw" => PrefixOf(n) = NetOf[turn]

IInv ==
  /\ Rows
  /\ NothingYet
  /\ VictimIsLocked
  /\ DoomedAreDead
  /\ ReplacedIsOfTurn

-----------------------------------------------------------------------------
LEMMA NullIsNoNode == NULL \notin Node
  BY DEF NULL, Node

LEMMA Ages ==
  /\ MAX_AGE \in Nat
  /\ Late \subseteq 0 .. MAX_AGE
  /\ FixedRow \in Row
  /\ \A late \in Late : LearnedRow(late) \in Row
  BY ProcessAssumption DEF MAX_AGE, Late, FixedRow, LearnedRow, Row

\* Steps that leave the table and the lock alone keep the invariant.
LEMMA TableLeftAlone ==
  ASSUME IInv, UNCHANGED <<row, memory, victim, lock, doomed, turn>>,
         stage' \in Handshake => stage \in Handshake
  PROVE  IInv'
  BY DEF IInv, Rows, NothingYet, VictimIsLocked, DoomedAreDead, ReplacedIsOfTurn, Expired

LEMMA SessionKeeps ==
  ASSUME IInv, Session
  PROVE  IInv'
<1>1. stage' \in Handshake => stage \in Handshake
  BY DEF Session, SessionStep, AuthRequest, AuthRefused, AskForTemplate, NoTable, BreakOff,
         EndOfStream, HwInfo, AddInterface, SetInterface, Handshake
<1> QED
  BY <1>1, TableLeftAlone DEF Session, tableVars

LEMMA StartKeeps ==
  ASSUME IInv, Start
  PROVE  IInv'
<1>1. stage \in Handshake /\ stage' \notin Handshake
  BY DEF Start, Started, Handshake
<1>2. PICK file : LoadTable(file)
  BY DEF Start
<1>3. /\ memory' \in [Node -> {"free", "raw", "row"}]
      /\ UNCHANGED <<row, victim, lock, doomed, turn>>
  BY <1>2 DEF LoadTable, Start
<1> QED
  BY <1>1, <1>3 DEF IInv, Rows, NothingYet, VictimIsLocked, DoomedAreDead, ReplacedIsOfTurn

LEMMA ArrivalKeeps ==
  ASSUME IInv, Arrival
  PROVE  IInv'
<1>1. ASSUME NEW e, NEW a, Datagram(e, a)
      PROVE  IInv'
  BY <1>1, TableLeftAlone DEF Datagram, tableVars, Handshake
<1>2. ASSUME NEW a, SweepReports(a)
      PROVE  IInv'
  BY <1>2, TableLeftAlone DEF SweepReports, tableVars, sessionVars
<1>3. CASE Response
  BY <1>3, TableLeftAlone DEF Response, tableVars, Handshake
<1>4. CASE StartToCollect
  <2>1. /\ UNCHANGED <<stage, row, memory, victim, turn>>
        /\ lock = "none" /\ lock' = "collector" /\ stage \notin Handshake
    BY <1>4 DEF StartToCollect, sessionVars, tableVars, Up, Handshake
  <2>2. PICK late \in Late : doomed' = {n \in Listed : Dead(row[n], late)}
    BY <1>4 DEF StartToCollect
  <2>3. ASSUME NEW n \in Node, n \in doomed'
        PROVE  ~row[n].valid /\ row[n].age > RIP_GARBAGE_COLLECTION
    <3>1. ~row[n].valid /\ row[n].age > RIP_GARBAGE_COLLECTION + late
      BY <2>2, <2>3 DEF Dead
    <3>2. row[n].age \in Nat /\ late \in Nat /\ RIP_GARBAGE_COLLECTION \in Nat
      BY ProcessAssumption, Ages DEF IInv, Rows, Row, Late
    <3> QED
      BY <3>1, <3>2
  <2>4. victim = NULL
    BY <2>1 DEF IInv, VictimIsLocked
  <2> QED
    BY <2>1, <2>3, <2>4, NullIsNoNode
    DEF IInv, Rows, NothingYet, VictimIsLocked, DoomedAreDead, ReplacedIsOfTurn, Expired
<1>5. CASE Connect
  <2>1. /\ UNCHANGED <<stage, row, memory, victim, doomed>>
        /\ lock = "none" /\ lock' = "advertiser" /\ stage \notin Handshake
    BY <1>5 DEF Connect, sessionVars, tableVars, Up, Handshake
  <2> QED
    BY <2>1, NullIsNoNode
    DEF IInv, Rows, NothingYet, VictimIsLocked, DoomedAreDead, ReplacedIsOfTurn
<1> QED
  BY <1>1, <1>2, <1>3, <1>4, <1>5 DEF Arrival

LEMMA LookupKeeps ==
  ASSUME IInv, NEW t \in Reader, LookupStep(t)
  PROVE  IInv'
<1>1. UNCHANGED <<row, memory, victim, lock, doomed, turn>>
  BY DEF LookupStep, LookAt, UseRoute, NoWayBack, Misread, Silent, NoRoute, tableVars
<1>2. stage' \in Handshake => stage \in Handshake
  BY DEF LookupStep, LookAt, UseRoute, NoWayBack, Misread, Silent, NoRoute, Over, Found, Looking,
         Up, Handshake, sessionVars
<1> QED
  BY <1>1, <1>2, TableLeftAlone

\* Main changes rows only while nobody else has the lock.
LEMMA MainKeeps ==
  ASSUME IInv, MainWaits \/ RouteLearned
  PROVE  IInv'
<1>1. ASSUME NEW p, UpdateRoute(p)
      PROVE  IInv'
  <2>1. PICK n \in RowsOf(p), late \in Late :
          \E r \in Updated(row[n], late) : row' = [row EXCEPT ![n] = r]
    BY <1>1 DEF UpdateRoute
  <2>2. PICK r \in Updated(row[n], late) : row' = [row EXCEPT ![n] = r]
    BY <2>1
  <2>3. row' \in [Node -> Row]
    <3>1. CASE n \in Node
      <4>1. row[n] \in Row
        BY <3>1 DEF IInv, Rows
      <4>2. r \in Row
        BY <2>2, <4>1, Ages DEF Updated, Row
      <4> QED
        BY <2>2, <4>2 DEF IInv, Rows
    <3>2. CASE n \notin Node
      BY <2>2, <3>2 DEF IInv, Rows
    <3> QED
      BY <3>1, <3>2
  <2>4. /\ lock = "none" /\ stage' = "loop"
        /\ UNCHANGED <<memory, victim, lock, doomed, turn>>
    BY <1>1 DEF UpdateRoute, MainAcquires
  <2> QED
    BY <2>3, <2>4
    DEF IInv, Rows, NothingYet, VictimIsLocked, DoomedAreDead, ReplacedIsOfTurn, Handshake
<1>2. ASSUME NEW p, IgnoreRoute(p)
      PROVE  IInv'
  BY <1>2, TableLeftAlone DEF IgnoreRoute, tableVars, Handshake
<1>3. ASSUME NEW p, LearnRoute(p)
      PROVE  IInv'
  <2>1. PICK late \in Late : LinkRow(p, LearnedRow(late))
    BY <1>3 DEF LearnRoute
  <2>2. PICK n : /\ memory' = [memory EXCEPT ![n] = "raw"]
                 /\ row' = [row EXCEPT ![n] = LearnedRow(late)]
    BY <2>1 DEF LinkRow
  <2>3. stage' \notin Handshake /\ lock' = "main"
    BY <1>3 DEF LearnRoute, MainAcquires, sessionVars, Handshake
  <2> QED
    BY <2>2, <2>3, Ages
    DEF IInv, Rows, NothingYet, VictimIsLocked, DoomedAreDead, ReplacedIsOfTurn
<1>4. CASE RouteLearned
  <2>1. /\ memory' = [memory EXCEPT ![victim] = "row"] /\ row' = row
        /\ victim' = NULL /\ lock' = "none" /\ stage' = "loop"
    BY <1>4 DEF RouteLearned, WriteRow
  <2> QED
    BY <2>1
    DEF IInv, Rows, NothingYet, VictimIsLocked, DoomedAreDead, ReplacedIsOfTurn, Handshake
<1> QED
  BY <1>1, <1>2, <1>3, <1>4 DEF MainWaits

LEMMA TimeoutKeeps ==
  ASSUME IInv, TimeoutPass
  PROVE  IInv'
<1>1. PICK late \in Late : \E S :
        row' = [n \in Node |->
          IF n \in S THEN [row[n] EXCEPT !.valid = FALSE, !.age = late] ELSE row[n]]
  BY DEF TimeoutPass
<1>2. row' \in [Node -> Row]
  <2>1. PICK S : row' = [n \in Node |->
          IF n \in S THEN [row[n] EXCEPT !.valid = FALSE, !.age = late] ELSE row[n]]
    BY <1>1
  <2> SUFFICES ASSUME NEW n \in Node
               PROVE  row'[n] \in Row
    BY <2>1
  <2>2. row[n] \in Row
    BY DEF IInv, Rows
  <2> QED
    BY <2>1, <2>2, Ages DEF Row
<1>3. lock = "none" /\ UNCHANGED <<stage, memory, victim, lock, doomed, turn>>
  BY DEF TimeoutPass, sessionVars
<1> QED
  BY <1>2, <1>3
  DEF IInv, Rows, NothingYet, VictimIsLocked, DoomedAreDead, ReplacedIsOfTurn

-----------------------------------------------------------------------------
\* What taking a row out does to what the invariant is about.
LEMMA TakeOutRows ==
  ASSUME Rows, NEW n, TakeOut(n)
  PROVE  /\ Rows' /\ row' = row /\ victim = NULL /\ victim' = n
         /\ \A m \in Node \ {n} : memory'[m] = memory[m]
  BY DEF Rows, TakeOut

LEMMA FinishRows ==
  ASSUME Rows, FinishTakeOut
  PROVE  /\ Rows' /\ victim' = NULL /\ memory[victim] # "raw"
         /\ \A m \in Node \ {victim} : row'[m] = row[m] /\ memory'[m] = memory[m]
  BY Ages DEF Rows, FinishTakeOut, Forget

LEMMA CollectorKeeps ==
  ASSUME IInv, CollectorStep
  PROVE  IInv'
<1>1. CASE Collected
  BY <1>1
  DEF Collected, tableVars, sessionVars, IInv, Rows, NothingYet, VictimIsLocked, DoomedAreDead,
      ReplacedIsOfTurn, Up, Handshake, Holds
<1>2. CASE CollectRow
  <2>1. /\ lock = "collector" /\ UNCHANGED <<stage, lock, turn>> /\ stage \notin Handshake
    BY <1>2 DEF CollectRow, Holds, sessionVars, Up, Handshake
  <2>2. ASSUME NEW n \in doomed, TakeOut(n), doomed' = doomed \ {n}
        PROVE  IInv'
    <3>1. /\ Rows' /\ row' = row /\ victim' = n
      BY <2>2, TakeOutRows DEF IInv
    <3> QED
      BY <2>1, <2>2, <3>1
      DEF IInv, NothingYet, VictimIsLocked, DoomedAreDead, ReplacedIsOfTurn, Expired
  <2>3. ASSUME FinishTakeOut, UNCHANGED doomed
        PROVE  IInv'
    <3>1. /\ Rows' /\ victim' = NULL
          /\ \A m \in Node \ {victim} : row'[m] = row[m]
      BY <2>3, FinishRows DEF IInv
    <3> QED
      BY <2>1, <2>3, <3>1, NullIsNoNode
      DEF IInv, NothingYet, VictimIsLocked, DoomedAreDead, ReplacedIsOfTurn, Expired
  <2> QED
    BY <1>2, <2>2, <2>3 DEF CollectRow
<1> QED
  BY <1>1, <1>2 DEF CollectorStep

LEMMA AdvertiserKeeps ==
  ASSUME IInv, AdvertiserStep
  PROVE  IInv'
<1>1. CASE Replace
  <2>1. /\ lock = "advertiser" /\ UNCHANGED <<stage, lock, turn>> /\ stage \notin Handshake
    BY <1>1 DEF Replace, Holds, sessionVars, Up, Handshake
  <2>2. ASSUME NEW n \in RowsOf(NetOf[turn]), TakeOut(n)
        PROVE  IInv'
    <3>1. Rows' /\ victim' = n /\ PrefixOf(n) = NetOf[turn]
      BY <2>2, TakeOutRows DEF IInv, RowsOf
    <3> QED
      BY <2>1, <3>1 DEF IInv, NothingYet, VictimIsLocked, DoomedAreDead, ReplacedIsOfTurn
  <2>3. ASSUME FinishTakeOut
        PROVE  IInv'
    <3>1. Rows' /\ victim' = NULL
      BY <2>3, FinishRows DEF IInv
    <3> QED
      BY <2>1, <3>1, NullIsNoNode
      DEF IInv, NothingYet, VictimIsLocked, DoomedAreDead, ReplacedIsOfTurn
  <2> QED
    BY <1>1, <2>2, <2>3 DEF Replace
<1>2. CASE Install
  <2>1. /\ lock = "advertiser" /\ UNCHANGED <<stage, lock>> /\ stage \notin Handshake
    BY <1>2 DEF Install, Holds, sessionVars, Up, Handshake
  <2>2. ASSUME LinkRow(NetOf[turn], FixedRow), UNCHANGED turn
        PROVE  IInv'
    <3>1. PICK n : /\ victim' = n
                   /\ memory' = [memory EXCEPT ![n] = "raw"]
                   /\ row' = [row EXCEPT ![n] = FixedRow]
      BY <2>2 DEF LinkRow
    <3> QED
      BY <2>1, <3>1, Ages
      DEF IInv, Rows, NothingYet, VictimIsLocked, DoomedAreDead, ReplacedIsOfTurn
  <2>3. ASSUME WriteRow
        PROVE  IInv'
    <3>1. /\ memory' = [memory EXCEPT ![victim] = "row"] /\ row' = row /\ victim' = NULL
      BY <2>3 DEF WriteRow
    <3> QED
      BY <2>1, <3>1, NullIsNoNode
      DEF IInv, Rows, NothingYet, VictimIsLocked, DoomedAreDead, ReplacedIsOfTurn
  <2> QED
    BY <1>2, <2>2, <2>3 DEF Install
<1>3. CASE MisreadInterface
  BY <1>3, TableLeftAlone DEF MisreadInterface, tableVars, Handshake
<1>4. CASE Connected
  BY <1>4
  DEF Connected, tableVars, sessionVars, IInv, Rows, NothingYet, VictimIsLocked, DoomedAreDead,
      ReplacedIsOfTurn, Up, Handshake, Holds
<1> QED
  BY <1>1, <1>2, <1>3, <1>4 DEF AdvertiserStep

\* A row that is dead stays dead while only the clock turns.
LEMMA TickKeeps ==
  ASSUME IInv, Tick
  PROVE  IInv'
<1>1. ASSUME NEW n \in Node
      PROVE  /\ row'[n] \in Row
             /\ Expired(n) => ~row'[n].valid /\ row'[n].age > RIP_GARBAGE_COLLECTION
  <2>1. row[n] \in Row /\ row[n].age \in Nat
    BY Ages DEF IInv, Rows, Row
  <2>2. Older(row[n].age) \in 0 .. MAX_AGE /\ Older(row[n].age) >= row[n].age
    BY <2>1, Ages DEF Older, Row
  <2>3. row'[n] = row[n] \/ row'[n] = [row[n] EXCEPT !.age = Older(row[n].age)]
    BY <2>1 DEF Tick, Row
  <2> HIDE DEF MAX_AGE
  <2> QED
    BY <2>1, <2>2, <2>3, Ages, ProcessAssumption DEF Row, Expired
<1>2. /\ row' \in [Node -> Row]
      /\ UNCHANGED <<stage, memory, victim, lock, doomed, turn>>
  BY <1>1 DEF Tick, sessionVars
<1> QED
  BY <1>1, <1>2
  DEF IInv, Rows, NothingYet, VictimIsLocked, DoomedAreDead, ReplacedIsOfTurn, Expired

-----------------------------------------------------------------------------
\* Whoever frees a row holds the lock and has reason to.
LEMMA FreedBy ==
  ASSUME IInv, Next, NEW n \in Node, memory[n] = "row", memory'[n] = "free"
  PROVE  \/ Expired(n)
         \/ lock = "advertiser" /\ PrefixOf(n) = NetOf[turn]
<1>1. CASE CollectRow
  <2>1. lock = "collector"
    BY <1>1 DEF CollectRow, Holds
  <2>2. n = victim \/ n \in doomed
    BY <1>1, TakeOutRows, FinishRows DEF CollectRow, IInv
  <2> QED
    BY <2>1, <2>2 DEF IInv, DoomedAreDead
<1>2. CASE Replace
  <2>1. lock = "advertiser"
    BY <1>2 DEF Replace, Holds
  <2>2. n = victim \/ n \in RowsOf(NetOf[turn])
    BY <1>2, TakeOutRows, FinishRows DEF Replace, IInv
  <2> QED
    BY <2>1, <2>2 DEF IInv, ReplacedIsOfTurn, RowsOf
<1>3. CASE Start
  BY <1>3 DEF Start, Started, IInv, NothingYet, Handshake
<1>4. ASSUME memory' = memory \/ \E m : memory' = [memory EXCEPT ![m] = "raw"]
                               \/ memory' = [memory EXCEPT ![m] = "row"]
      PROVE  FALSE
  BY <1>4 DEF IInv, Rows
<1>5. Session \/ Arrival \/ Tick \/ TimeoutPass => memory' = memory
  BY DEF Session, Arrival, Tick, TimeoutPass, tableVars, Datagram, SweepReports, Response,
         StartToCollect, Connect
<1>6. ASSUME NEW t \in Reader
      PROVE  LookupStep(t) => memory' = memory
  BY DEF LookupStep, LookAt, UseRoute, NoWayBack, Misread, Silent, NoRoute, tableVars
<1>7. ASSUME NEW p, LinkRow(p, FixedRow) \/ \E late : LinkRow(p, LearnedRow(late))
      PROVE  \E m : memory' = [memory EXCEPT ![m] = "raw"]
  BY <1>7 DEF LinkRow
<1>8. MainWaits \/ RouteLearned =>
        \/ memory' = memory
        \/ \E m : memory' = [memory EXCEPT ![m] = "raw"] \/ memory' = [memory EXCEPT ![m] = "row"]
  BY <1>7 DEF MainWaits, RouteLearned, UpdateRoute, IgnoreRoute, LearnRoute, WriteRow, tableVars
<1>9. Install \/ MisreadInterface \/ Connected \/ Collected =>
        \/ memory' = memory
        \/ \E m : memory' = [memory EXCEPT ![m] = "raw"] \/ memory' = [memory EXCEPT ![m] = "row"]
  BY <1>7 DEF Install, MisreadInterface, Connected, Collected, WriteRow, tableVars
<1> QED
  BY <1>1, <1>2, <1>3, <1>4, <1>5, <1>6, <1>8, <1>9 DEF Next, CollectorStep, AdvertiserStep

LEMMA Stuttering ==
  ASSUME IInv, UNCHANGED vars
  PROVE  IInv'
  BY TableLeftAlone DEF vars, sessionVars, tableVars

\* The lock and the passes of the RIP threads keep their promises to each other.
THEOREM Invariance == Spec => []IInv
<1>1. Init => IInv
  BY NullIsNoNode, Ages
  DEF Init, SessionInit, IInv, Rows, NothingYet, VictimIsLocked, DoomedAreDead, ReplacedIsOfTurn
<1>2. IInv /\ [Next]_vars => IInv'
  BY SessionKeeps, StartKeeps, ArrivalKeeps, LookupKeeps, MainKeeps, TimeoutKeeps,
     CollectorKeeps, AdvertiserKeeps, TickKeeps, Stuttering DEF Next
<1> QED
  BY <1>1, <1>2, PTL DEF Spec

\* A row that is freed had been unreachable for longer than the garbage-collection
\* time, or gives way to the direct route of its network: for every table, timers
\* and lateness, although main may renew rows until the collector has the lock.
THEOREM NothingAliveIsFreed == Spec => FreedWasDead
<1> DEFINE Freed == \A n \in Node : memory[n] = "row" /\ memory'[n] = "free" =>
                      \/ ~row[n].valid /\ row[n].age > RIP_GARBAGE_COLLECTION
                      \/ lock = "advertiser" /\ PrefixOf(n) = NetOf[turn]
<1>1. IInv /\ [Next]_vars => [Freed]_vars
  BY FreedBy DEF Expired
<1> QED
  BY <1>1, Invariance, PTL DEF Spec, FreedWasDead

-----------------------------------------------------------------------------
(***************************************************************************)
(* The list. Its rows in order are the values of a function s on 1 .. k.   *)
(***************************************************************************)
IsList(hd, nx, k, s) ==
  /\ \A i, j \in 1 .. k : s[i] = s[j] => i = j
  /\ hd = IF k = 0 THEN NULL ELSE s[1]
  /\ \A i \in 1 .. k : nx[s[i]] = IF i < k THEN s[i + 1] ELSE NULL

\* the rows met by following nx from hd, as Listed has them
Reach(hd, nx) ==
  LET from[p \in (Node \cup {NULL}) \X (0 .. Cardinality(Node))] ==
        IF p[1] = NULL \/ p[2] = 0 THEN {} ELSE {p[1]} \cup from[<<nx[p[1]], p[2] - 1>>]
  IN from[<<hd, Cardinality(Node)>>]

LEMMA ListedIsReach == Listed = Reach(head, next) /\ Listed' = Reach(head', next')
  BY DEF Listed, Reach

LEMMA NodesAreFinite == IsFiniteSet(Node) /\ Cardinality(Node) \in Nat
<1>1. IsFiniteSet(1 .. COPIES)
  BY FS_Interval, ProcessAssumption
<1> QED
  BY <1>1, FS_Product, FS_CardinalityType, ProcessAssumption DEF Node

\* A list is not longer than there are nodes.
LEMMA ListIsShort ==
  ASSUME NEW k \in Nat, NEW s \in [1 .. k -> Node], NEW hd, NEW nx, IsList(hd, nx, k, s)
  PROVE  k <= Cardinality(Node)
<1>1. s \in Injection(1 .. k, Node)
  BY DEF IsList, Injection, IsInjective
<1>2. Cardinality(1 .. k) <= Cardinality(Node)
  BY <1>1, NodesAreFinite, FS_Injection
<1>3. Cardinality(1 .. k) = k
  BY FS_Interval
<1> QED
  BY <1>2, <1>3

\* Following the list meets all its rows and no other.
LEMMA ListIsReach ==
  ASSUME NEW k \in Nat, NEW s \in [1 .. k -> Node], NEW hd, NEW nx \in [Node -> Node \cup {NULL}],
         IsList(hd, nx, k, s)
  PROVE  Reach(hd, nx) = {s[i] : i \in 1 .. k}
<1> DEFINE C == Cardinality(Node)
           D == (Node \cup {NULL}) \X (0 .. C)
           B == SUBSET Node
           rank == [p \in D |-> p[2]]
           step == [y \in D \X [D -> B] |->
                     IF y[1][1] = NULL \/ y[1][2] = 0 THEN {}
                     ELSE {y[1][1]} \cup y[2][<<nx[y[1][1]], y[1][2] - 1>>]]
           from[p \in D] ==
             IF p[1] = NULL \/ p[2] = 0 THEN {} ELSE {p[1]} \cup from[<<nx[p[1]], p[2] - 1>>]
<1>1. Reach(hd, nx) = from[<<hd, C>>]
  BY DEF Reach
<1>2. C \in Nat
  BY NodesAreFinite
<1> HIDE DEF C
<1>3. ASSUME NEW p \in D, p[1] # NULL, p[2] # 0
      PROVE  <<nx[p[1]], p[2] - 1>> \in D
  BY <1>2, <1>3
<1>4. \E g : Solution(D, B, step, g)
  <2>1. rank \in [D -> Nat] /\ \A p \in D : rank[p] <= C
    BY <1>2
  <2>2. step \in [D \X [D -> B] -> B]
    BY <1>3
  <2>3. \A p \in D : \A g, h \in [D -> B] :
          (\A q \in D : rank[q] < rank[p] => g[q] = h[q]) => step[<<p, g>>] = step[<<p, h>>]
    <3> SUFFICES ASSUME NEW p \in D, NEW g \in [D -> B], NEW h \in [D -> B],
                        \A q \in D : rank[q] < rank[p] => g[q] = h[q]
                 PROVE  step[<<p, g>>] = step[<<p, h>>]
      OBVIOUS
    <3>1. CASE p[1] = NULL \/ p[2] = 0
      BY <3>1
    <3>2. CASE p[1] # NULL /\ p[2] # 0
      <4> DEFINE q == <<nx[p[1]], p[2] - 1>>
      <4>1. q \in D /\ q[2] < p[2]
        BY <1>2, <1>3, <3>2
      <4>2. g[q] = h[q]
        BY <4>1
      <4> QED
        BY <3>2, <4>2
    <3> QED
      BY <3>1, <3>2
  <2>4. {} \in B
    OBVIOUS
  <2> HIDE DEF D, B, rank, step, from
  <2>5. Descends(D, B, rank, step)
    BY <2>1, <2>2, <2>3 DEF Descends
  <2> QED
    BY <1>2, <2>1, <2>4, <2>5, RecursiveFunction
<1>5. from = [p \in D |-> IF p[1] = NULL \/ p[2] = 0 THEN {}
                          ELSE {p[1]} \cup from[<<nx[p[1]], p[2] - 1>>]]
  <2>1. PICK g : Solution(D, B, step, g)
    BY <1>4
  <2>2. /\ g \in [D -> B]
        /\ \A p \in D : g[p] = IF p[1] = NULL \/ p[2] = 0 THEN {}
                               ELSE {p[1]} \cup g[<<nx[p[1]], p[2] - 1>>]
    BY <2>1 DEF Solution
  <2> HIDE DEF D, B
  <2>3. g = [p \in D |-> IF p[1] = NULL \/ p[2] = 0 THEN {}
                         ELSE {p[1]} \cup g[<<nx[p[1]], p[2] - 1>>]]
    BY <2>2
  <2> QED
    BY <2>3
<1>6. \A p \in D : from[p] = IF p[1] = NULL \/ p[2] = 0 THEN {}
                             ELSE {p[1]} \cup from[<<nx[p[1]], p[2] - 1>>]
  BY <1>5
<1> HIDE DEF from
<1> DEFINE Meets(n) == \A i \in 1 .. k : from[<<s[i], n>>] = {s[j] : j \in {j \in i .. k : j < i + n}}
           Fails == {n \in 0 .. C : ~Meets(n)}
<1>7. 0 \notin Fails
  <2>1. ASSUME NEW i \in 1 .. k
        PROVE  from[<<s[i], 0>>] = {}
    <3>1. <<s[i], 0>> \in D /\ <<s[i], 0>>[2] = 0
      BY <1>2
    <3> HIDE DEF D
    <3> QED
      BY <1>6, <3>1
  <2>2. \A i \in 1 .. k : {j \in i .. k : j < i + 0} = {}
    OBVIOUS
  <2> QED
    BY <2>1, <2>2
<1>8. ASSUME NEW n \in Nat, n + 1 \in Fails
      PROVE  n \in Fails
  <2> SUFFICES ASSUME n + 1 \in 0 .. C, Meets(n)
               PROVE  Meets(n + 1)
    BY <1>2, <1>8
  <2> SUFFICES ASSUME NEW i \in 1 .. k
               PROVE  from[<<s[i], n + 1>>] = {s[j] : j \in {j \in i .. k : j < i + (n + 1)}}
    OBVIOUS
  <2>1. s[i] \in Node /\ s[i] # NULL
    BY NullIsNoNode
  <2>2. from[<<s[i], n + 1>>] = {s[i]} \cup from[<<nx[s[i]], n>>]
    <3>1. <<s[i], n + 1>> \in D /\ (n + 1) - 1 = n /\ n + 1 # 0
      BY <2>1
    <3> HIDE DEF D
    <3> QED
      BY <1>6, <2>1, <3>1
  <2>3. CASE i < k
    <3>1. nx[s[i]] = s[i + 1] /\ i + 1 \in 1 .. k
      BY <2>3 DEF IsList
    <3>2. from[<<s[i + 1], n>>] = {s[j] : j \in {j \in i + 1 .. k : j < (i + 1) + n}}
      BY <3>1
    <3>3. {j \in i .. k : j < i + (n + 1)} = {i} \cup {j \in i + 1 .. k : j < (i + 1) + n}
      BY <2>3
    <3> QED
      BY <2>2, <3>1, <3>2, <3>3
  <2>4. CASE ~(i < k)
    <3>1. nx[s[i]] = NULL
      BY <2>4 DEF IsList
    <3>2. from[<<NULL, n>>] = {}
      <4>1. <<NULL, n>> \in D /\ <<NULL, n>>[1] = NULL
        BY <1>2
      <4> HIDE DEF D
      <4> QED
        BY <1>6, <4>1
    <3>3. {j \in i .. k : j < i + (n + 1)} = {i}
      BY <2>4
    <3> QED
      BY <2>2, <3>1, <3>2, <3>3
  <2> QED
    BY <2>3, <2>4
<1>9. Meets(C)
  <2> HIDE DEF Fails
  <2>1. C \notin Fails
    BY <1>2, <1>7, <1>8, NoCounterexample
  <2> QED
    BY <1>2, <2>1 DEF Fails
<1>10. k <= C
  BY ListIsShort DEF C
<1>11. CASE k = 0
  <2>1. hd = NULL /\ <<NULL, C>> \in D /\ <<NULL, C>>[1] = NULL
    BY <1>2, <1>11 DEF IsList
  <2>2. from[<<NULL, C>>] = {}
    <3> HIDE DEF D
    <3> QED
      BY <1>6, <2>1
  <2> QED
    BY <1>1, <1>11, <2>1, <2>2
<1>12. CASE k # 0
  <2>1. hd = s[1] /\ 1 \in 1 .. k
    BY <1>12 DEF IsList
  <2>2. {j \in 1 .. k : j < 1 + C} = 1 .. k
    BY <1>2, <1>10
  <2> QED
    BY <1>1, <1>9, <2>1, <2>2
<1> QED
  BY <1>11, <1>12

-----------------------------------------------------------------------------
(***************************************************************************)
(* The invariant about the list and those who walk it.                     *)
(***************************************************************************)
Lookups ==
  [errand : {"none", "forward", "report"}, want : Address, here : Node \cup {NULL},
   best : Node \cup {NULL}, mask : {Length[p] : p \in Prefix} \cup {0},
   owed : Node \cup {NULL}]

Typed ==
  /\ stage \in Stage /\ linked \in 0 .. NUM_IF /\ configured \in 0 .. linked
  /\ head \in Node \cup {NULL} /\ victim \in Node \cup {NULL}
  /\ next \in [Node -> Node \cup {NULL}]
  /\ lock \in Changer \cup {"none"}
  /\ doomed \subseteq Node
  /\ turn \in 0 .. NUM_IF + 1
  /\ reader \in [Reader -> Lookups]

\* until the threads run, the advertiser sleeps and nobody looks anything up
NothingStarted ==
  stage \in Handshake => turn = 0 /\ \A t \in Reader : reader[t] = NoLookup

\* from n a lookup still comes to s[j], if it does not trip over n: n is freed, or
\* on the list and not after s[j], or taken out and its successor is not after s[j]
Ahead(n, j, s) ==
  /\ n # NULL
  /\ \/ memory[n] = "free"
     \/ \E i \in 1 .. j : n = s[i]
     \/ n = victim /\ memory[n] = "row" /\ \E i \in 1 .. j : next[n] = s[i]

\* the row that is owed is on the list; it is passed or still to come
Walks(r, k, s) ==
  /\ r.best # NULL => Matches(r.best, r.want)
  /\ r.owed # NULL =>
       \E j \in 1 .. k : /\ r.owed = s[j] /\ memory[s[j]] = "row"
                         /\ Matches(r.owed, r.want)
                         /\ r.mask >= MaskOf(r.owed) \/ Ahead(r.here, j, s)

\* The list holds rows, but for the one under the hands of the lock's holder: a row
\* not written yet, the freed head, or a row that is out of the list already.
ListHolds(k, s) ==
  /\ IsList(head, next, k, s)
  /\ \A i \in 1 .. k : memory[s[i]] = "row" \/ s[i] = victim
  /\ victim # NULL =>
       /\ memory[victim] = "free" => victim = head
       /\ memory[victim] = "row" => \A i \in 1 .. k : s[i] # victim
  /\ \A n \in Node : memory[n] = "free" /\ n # victim => next[n] = NULL
  /\ \A t \in Reader : Walks(reader[t], k, s)

ListInv == \E k \in Nat : \E s \in [1 .. k -> Node] : ListHolds(k, s)

-----------------------------------------------------------------------------
LEMMA ListedRows ==
  ASSUME Typed, NEW k \in Nat, NEW s \in [1 .. k -> Node], IsList(head, next, k, s)
  PROVE  Listed = {s[i] : i \in 1 .. k}
  BY ListedIsReach, ListIsReach DEF Typed

LEMMA ListedRowsNext ==
  ASSUME next' \in [Node -> Node \cup {NULL}],
         NEW k \in Nat, NEW s \in [1 .. k -> Node], IsList(head, next, k, s)'
  PROVE  Listed' = {s[i] : i \in 1 .. k}
<1> DEFINE hd == head'
           nx == next'
<1>1. IsList(hd, nx, k, s)
  BY DEF IsList
<1>2. nx \in [Node -> Node \cup {NULL}]
  OBVIOUS
<1> HIDE DEF hd, nx
<1>3. Reach(hd, nx) = {s[i] : i \in 1 .. k}
  BY <1>1, <1>2, ListIsReach
<1>4. Listed' = Reach(hd, nx)
  BY ListedIsReach DEF hd, nx
<1> QED
  BY <1>3, <1>4

\* malloc hands out memory, if it can
LEMMA FreshNode ==
  ASSUME NEW p, Fresh(p) # {}
  PROVE  (CHOOSE n \in Fresh(p) : \A m \in Fresh(p) : n[2] <= m[2]) \in Fresh(p)
<1> DEFINE S == {n[2] : n \in Fresh(p)}
<1>1. S \subseteq Nat /\ S # {}
  BY ProcessAssumption DEF Fresh, Node
<1>2. PICK least \in S : \A m \in S : least <= m
  BY <1>1, LeastNumber
<1>3. \E n \in Fresh(p) : \A m \in Fresh(p) : n[2] <= m[2]
  BY <1>2
<1> QED
  BY <1>3

\* What a lookup should find is a row on the list that matches, if anything does.
LEMMA LongestMatchIsListed ==
  ASSUME Typed, NEW k \in Nat, NEW s \in [1 .. k -> Node], IsList(head, next, k, s), NEW a
  PROVE  LET owed == LongestMatch(a) IN
           owed # NULL => \E j \in 1 .. k : owed = s[j] /\ memory[s[j]] = "row" /\ Matches(owed, a)
<1> DEFINE matching == {n \in Listed : memory[n] = "row" /\ Matches(n, a) /\ MaskOf(n) > 0}
           f == [i \in 1 .. k |-> MaskOf(s[i])]
           S == {i \in 1 .. k : s[i] \in matching}
<1>1. CASE matching = {}
  BY <1>1 DEF LongestMatch
<1>2. CASE matching # {}
  <2>1. matching \subseteq {s[i] : i \in 1 .. k}
    BY ListedRows
  <2>2. \A i \in 1 .. k : MaskOf(s[i]) \in Nat
    BY ProcessAssumption, NullIsNoNode DEF MaskOf, PrefixOf, Node
  <2>3. f \in [1 .. k -> Nat] /\ S \subseteq 1 .. k /\ S # {}
    BY <1>2, <2>1, <2>2
  <2>4. PICK i \in S : \A j \in S : f[j] <= f[i]
    <3> HIDE DEF f, S
    <3> QED
      BY <2>3, GreatestNumber
  <2>5. \A m \in matching : MaskOf(m) <= MaskOf(s[i])
    BY <2>1, <2>4
  <2>6. \E n \in matching : \A m \in matching : MaskOf(m) <= MaskOf(n)
    BY <2>4, <2>5
  <2>7. LongestMatch(a) = CHOOSE n \in matching : \A m \in matching : MaskOf(m) <= MaskOf(n)
    BY <1>2 DEF LongestMatch
  <2> HIDE DEF matching
  <2>8. LongestMatch(a) \in matching
    BY <2>6, <2>7
  <2> QED
    BY <2>1, <2>8 DEF matching
<1> QED
  BY <1>1, <1>2

-----------------------------------------------------------------------------
(***************************************************************************)
(* What the operations of sr_rt.c do to the list.                           *)
(***************************************************************************)
\* sr_add_rt_entry: one more row at the end
LEMMA LinkKeepsList ==
  ASSUME Rows, Typed, ListInv, NEW p, NEW r, LinkRow(p, r), UNCHANGED reader
  PROVE  /\ ListInv'
         /\ head' \in Node \cup {NULL} /\ next' \in [Node -> Node \cup {NULL}]
         /\ victim' \in Node /\ PrefixOf(victim') = p /\ memory'[victim'] = "raw"
         /\ row' = [row EXCEPT ![victim'] = r]
         /\ Listed' = Listed \cup {victim'} /\ victim' \notin Listed
<1>0. PICK k \in Nat : \E s \in [1 .. k -> Node] : ListHolds(k, s)
  BY DEF ListInv
<1>1. PICK s \in [1 .. k -> Node] : ListHolds(k, s)
  BY <1>0
<1>2. Listed = {s[i] : i \in 1 .. k}
  BY <1>1, ListedRows DEF ListHolds
<1>4. PICK n \in Fresh(p) :
        /\ victim = NULL /\ victim' = n
        /\ memory' = [memory EXCEPT ![n] = "raw"]
        /\ row' = [row EXCEPT ![n] = r]
        /\ IF head = NULL
           THEN head' = n /\ UNCHANGED next
           ELSE /\ \E last \in Listed : next[last] = NULL /\ next' = [next EXCEPT ![last] = n]
                /\ UNCHANGED head
  BY FreshNode DEF LinkRow
<1>5. /\ n \in Node /\ n # NULL /\ PrefixOf(n) = p /\ memory[n] = "free"
      /\ \A t \in Reader : reader[t].here # n
  BY NullIsNoNode DEF Fresh
<1>6. \A i \in 1 .. k : memory[s[i]] = "row" /\ s[i] # n
  BY <1>1, <1>4, <1>5, NullIsNoNode DEF ListHolds
<1>7. PICK z \in [1 .. k + 1 -> Node] : z[k + 1] = n /\ \A i \in 1 .. k : z[i] = s[i]
  <2> DEFINE y == [i \in 1 .. k + 1 |-> IF i <= k THEN s[i] ELSE n]
  <2>1. y \in [1 .. k + 1 -> Node] /\ y[k + 1] = n /\ \A i \in 1 .. k : y[i] = s[i]
    BY <1>5
  <2> QED
    BY <2>1
<1>8. IsList(head, next, k, s)
  BY <1>1 DEF ListHolds
<1>9. IsList(head, next, k + 1, z)'
  <2>1. \A i, j \in 1 .. k + 1 : z[i] = z[j] => i = j
    <3> SUFFICES ASSUME NEW i \in 1 .. k + 1, NEW j \in 1 .. k + 1, z[i] = z[j]
                 PROVE  i = j
      OBVIOUS
    <3>1. (i \in 1 .. k \/ i = k + 1) /\ (j \in 1 .. k \/ j = k + 1)
      OBVIOUS
    <3> QED
      BY <1>6, <1>7, <1>8, <3>1 DEF IsList
  <2>2. CASE k = 0
    <3>1. head = NULL /\ head' = n /\ next' = next
      BY <1>4, <1>8, <2>2 DEF IsList
    <3>2. next[n] = NULL
      BY <1>1, <1>4, <1>5 DEF ListHolds
    <3> QED
      BY <1>7, <2>1, <2>2, <3>1, <3>2 DEF IsList
  <2>3. CASE k # 0
    <3>1. head = s[1] /\ head # NULL /\ 1 \in 1 .. k /\ k \in 1 .. k
      BY <1>8, <2>3, NullIsNoNode DEF IsList
    <3>2. PICK last \in Listed : next[last] = NULL /\ next' = [next EXCEPT ![last] = n]
      BY <1>4, <3>1
    <3>3. PICK m \in 1 .. k : last = s[m]
      BY <1>2, <3>2
    <3>4. m = k
      <4>1. ~(m < k)
        <5> SUFFICES ASSUME m < k
                     PROVE  FALSE
          OBVIOUS
        <5>1. next[s[m]] = s[m + 1] /\ m + 1 \in 1 .. k
          BY <1>8 DEF IsList
        <5> QED
          BY <3>2, <3>3, <5>1, NullIsNoNode
      <4> QED
        BY <4>1
    <3>5. next' = [next EXCEPT ![s[k]] = n] /\ head' = head
      BY <1>4, <3>1, <3>2, <3>3, <3>4
    <3>6. next[n] = NULL /\ next'[n] = NULL
      BY <1>1, <1>4, <1>5, <1>6, <3>1, <3>5 DEF ListHolds, Typed
    <3>7. \A i \in 1 .. k - 1 : next'[s[i]] = s[i + 1]
      BY <1>8, <3>1, <3>5 DEF IsList, Typed
    <3>8. next'[s[k]] = n
      BY <3>1, <3>5 DEF Typed
    <3>9. \A i \in 1 .. k + 1 : next'[z[i]] = IF i < k + 1 THEN z[i + 1] ELSE NULL
      <4> SUFFICES ASSUME NEW i \in 1 .. k + 1
                   PROVE  next'[z[i]] = IF i < k + 1 THEN z[i + 1] ELSE NULL
        OBVIOUS
      <4>1. CASE i \in 1 .. k - 1
        <5>1. i \in 1 .. k /\ i + 1 \in 1 .. k /\ i < k + 1
          BY <4>1
        <5> QED
          BY <1>7, <3>7, <4>1, <5>1
      <4>2. CASE i = k
        BY <1>7, <3>1, <3>8, <4>2
      <4>3. CASE i = k + 1
        BY <1>7, <3>6, <4>3
      <4> QED
        BY <4>1, <4>2, <4>3
    <3>10. head' = z[1]
      BY <1>7, <3>1, <3>5
    <3> QED
      BY <2>1, <3>9, <3>10 DEF IsList
  <2> QED
    BY <2>2, <2>3
<1>10. \A t \in Reader : Walks(reader[t], k + 1, z)'
  <2> SUFFICES ASSUME NEW t \in Reader
               PROVE  Walks(reader[t], k + 1, z)'
    OBVIOUS
  <2>1. Walks(reader[t], k, s) /\ reader' = reader
    BY <1>1 DEF ListHolds
  <2>2. ASSUME NEW j \in 1 .. k, Ahead(reader[t].here, j, s)
        PROVE  Ahead(reader[t].here, j, z)'
    BY <1>4, <1>5, <1>7, <2>1, <2>2 DEF Ahead, Rows
  <2>3. ASSUME NEW j \in 1 .. k, memory[s[j]] = "row"
        PROVE  j \in 1 .. k + 1 /\ z[j] = s[j] /\ memory'[z[j]] = "row"
    BY <1>4, <1>5, <1>6, <1>7, <2>3 DEF Rows
  <2> QED
    BY <2>1, <2>2, <2>3 DEF Walks
<1>11. ListHolds(k + 1, z)'
  <2>1. \A i \in 1 .. k + 1 : memory'[z[i]] = "row" \/ z[i] = victim'
    BY <1>4, <1>6, <1>7 DEF Rows
  <2>2. victim' # NULL /\ memory'[victim'] = "raw"
    BY <1>4, <1>5 DEF Rows
  <2>3. \A m \in Node : memory'[m] = "free" /\ m # victim' => next'[m] = NULL
    <3> SUFFICES ASSUME NEW m \in Node, memory'[m] = "free", m # n
                 PROVE  next'[m] = NULL
      BY <1>4
    <3>1. memory[m] = "free" /\ m # victim
      BY <1>4, NullIsNoNode DEF Rows
    <3>2. next[m] = NULL /\ \A i \in 1 .. k : s[i] # m
      BY <1>1, <1>6, <3>1 DEF ListHolds
    <3> QED
      BY <1>2, <1>4, <3>2 DEF Typed
  <2> QED
    BY <1>9, <1>10, <2>1, <2>2, <2>3 DEF ListHolds
<1>12. head' \in Node \cup {NULL} /\ next' \in [Node -> Node \cup {NULL}]
  BY <1>4, <1>5 DEF Typed
<1>13. Listed' = {z[i] : i \in 1 .. k + 1}
  <2>1. k + 1 \in Nat
    OBVIOUS
  <2> QED
    BY <1>7, <1>9, <1>12, <2>1, ListedRowsNext
<1>14. Listed' = Listed \cup {n} /\ n \notin Listed
  BY <1>2, <1>6, <1>7, <1>13
<1>15. ListInv'
  <2>1. k + 1 \in Nat
    OBVIOUS
  <2> QED
    BY <1>7, <1>11, <2>1 DEF ListInv
<1> QED
  BY <1>4, <1>5, <1>12, <1>14, <1>15 DEF Rows

\* whoever is owed a row that is taken out is owed nothing any more
LEMMA OwedAfterTakeOut ==
  ASSUME Typed, NEW n \in Node, TakeOut(n)
  PROVE  /\ reader' \in [Reader -> Lookups]
         /\ \A t \in Reader :
              /\ reader'[t].best = reader[t].best /\ reader'[t].want = reader[t].want
              /\ reader'[t].here = reader[t].here /\ reader'[t].mask = reader[t].mask
              /\ reader'[t].errand = reader[t].errand
              /\ reader'[t].owed # NULL => reader'[t].owed = reader[t].owed /\ reader[t].owed # n
              /\ reader[t].owed = NULL => reader'[t] = reader[t]
<1> SUFFICES ASSUME NEW t \in Reader
             PROVE  /\ reader'[t] \in Lookups
                    /\ reader'[t].best = reader[t].best /\ reader'[t].want = reader[t].want
                    /\ reader'[t].here = reader[t].here /\ reader'[t].mask = reader[t].mask
                    /\ reader'[t].errand = reader[t].errand
                    /\ reader'[t].owed # NULL =>
                         reader'[t].owed = reader[t].owed /\ reader[t].owed # n
                    /\ reader[t].owed = NULL => reader'[t] = reader[t]
  BY DEF TakeOut
<1>1. reader[t] \in Lookups
  BY DEF Typed
<1>2. reader'[t] = IF reader[t].owed = n THEN [reader[t] EXCEPT !.owed = NULL] ELSE reader[t]
  BY DEF TakeOut
<1> QED
  BY <1>1, <1>2, NullIsNoNode DEF Lookups

\* sr_del_rt_entry, first step: the head is freed, any other row leaves the list
LEMMA TakeOutKeepsList ==
  ASSUME Rows, Typed, ListInv, NEW n \in Node, TakeOut(n)
  PROVE  /\ ListInv'
         /\ next' \in [Node -> Node \cup {NULL}]
         /\ Listed' \subseteq Listed /\ Listed \ {n} \subseteq Listed' /\ n \in Listed
<1>0. PICK k \in Nat : \E s \in [1 .. k -> Node] : ListHolds(k, s)
  BY DEF ListInv
<1>1. PICK s \in [1 .. k -> Node] : ListHolds(k, s)
  BY <1>0
<1>2. Listed = {s[i] : i \in 1 .. k}
  BY <1>1, ListedRows DEF ListHolds
<1>3. victim = NULL /\ victim' = n /\ UNCHANGED <<head, row>>
  BY DEF TakeOut
<1>4. \A i \in 1 .. k : memory[s[i]] = "row"
  BY <1>1, <1>3, NullIsNoNode DEF ListHolds
<1>5. IsList(head, next, k, s)
  BY <1>1 DEF ListHolds
<1>6. n # NULL
  BY NullIsNoNode
<1>7. CASE n = head
  <2>1. memory' = [memory EXCEPT ![n] = "free"] /\ UNCHANGED <<head, next>>
    BY <1>3, <1>7 DEF TakeOut
  <2>2. k # 0 /\ 1 \in 1 .. k /\ n = s[1]
    BY <1>5, <1>6, <1>7 DEF IsList
  <2>3. IsList(head, next, k, s)'
    BY <1>5, <2>1 DEF IsList
  <2>4. \A t \in Reader : Walks(reader[t], k, s)'
    <3> SUFFICES ASSUME NEW t \in Reader
                 PROVE  Walks(reader[t], k, s)'
      OBVIOUS
    <3>1. Walks(reader[t], k, s)
      BY <1>1 DEF ListHolds
    <3>2. ASSUME NEW j \in 1 .. k, reader[t].here \in Node \cup {NULL}, Ahead(reader[t].here, j, s)
          PROVE  Ahead(reader[t].here, j, s)'
      <4>1. reader'[t].here = reader[t].here
        BY OwedAfterTakeOut
      <4> QED
        BY <1>3, <2>1, <3>2, <4>1 DEF Ahead, Rows
    <3>3. reader[t].here \in Node \cup {NULL}
      BY DEF Typed, Lookups
    <3>4. ASSUME NEW j \in 1 .. k, s[j] # n
          PROVE  memory'[s[j]] = memory[s[j]]
      BY <2>1, <3>4 DEF Rows
    <3> QED
      BY <3>1, <3>2, <3>3, <3>4, OwedAfterTakeOut DEF Walks
  <2>5. ListHolds(k, s)'
    <3>1. memory'[n] = "free"
      BY <2>1 DEF Rows
    <3>2. \A i \in 1 .. k : memory'[s[i]] = "row" \/ s[i] = victim'
      BY <1>3, <1>4, <2>1 DEF Rows
    <3>3. \A m \in Node : memory'[m] = "free" /\ m # victim' => next'[m] = NULL
      <4> SUFFICES ASSUME NEW m \in Node, memory'[m] = "free", m # n
                   PROVE  next[m] = NULL
        BY <1>3, <2>1
      <4>1. memory[m] = "free" /\ m # victim
        BY <1>3, <2>1, NullIsNoNode DEF Rows
      <4> QED
        BY <1>1, <4>1 DEF ListHolds
    <3> QED
      BY <1>3, <1>7, <2>1, <2>3, <2>4, <3>1, <3>2, <3>3 DEF ListHolds
  <2>6. next' \in [Node -> Node \cup {NULL}]
    BY <2>1 DEF Typed
  <2>7. Listed' = Listed
    BY <2>1, ListedIsReach
  <2> QED
    BY <1>2, <2>2, <2>5, <2>6, <2>7 DEF ListInv
<1>8. CASE n # head
  <2>1. PICK prev \in Listed : next[prev] = n /\ next' = [next EXCEPT ![prev] = next[n]]
    BY <1>8 DEF TakeOut
  <2>2. UNCHANGED memory
    BY <1>8 DEF TakeOut
  <2>3. PICK m \in 1 .. k : prev = s[m]
    BY <1>2, <2>1
  <2>4. m < k /\ m + 1 \in 1 .. k /\ s[m + 1] = n
    BY <1>5, <1>6, <2>1, <2>3 DEF IsList
  <2>5. PICK z \in [1 .. k - 1 -> Node] :
          \A i \in 1 .. k - 1 : z[i] = IF i <= m THEN s[i] ELSE s[i + 1]
    <3> DEFINE y == [i \in 1 .. k - 1 |-> IF i <= m THEN s[i] ELSE s[i + 1]]
    <3>1. \A i \in 1 .. k - 1 : i \in 1 .. k /\ i + 1 \in 1 .. k
      OBVIOUS
    <3>2. y \in [1 .. k - 1 -> Node]
      BY <3>1
    <3> QED
      BY <3>2
  <2>6. \A i \in 1 .. k - 1 : z[i] # n
    BY <1>5, <2>4, <2>5 DEF IsList
  <2>7. IsList(head, next, k - 1, z)'
    <3>1. \A i, j \in 1 .. k - 1 : z[i] = z[j] => i = j
      BY <1>5, <2>4, <2>5 DEF IsList
    <3>2. head' = z[1] /\ k - 1 # 0
      BY <1>3, <1>5, <2>4, <2>5 DEF IsList
    <3>3. next' \in [Node -> Node \cup {NULL}] /\ next'[s[m]] = next[n]
          /\ \A l \in Node \ {s[m]} : next'[l] = next[l]
      BY <2>1, <2>3 DEF Typed
    <3>4. \A i \in 1 .. k - 1 : next'[z[i]] = IF i < k - 1 THEN z[i + 1] ELSE NULL
      <4> SUFFICES ASSUME NEW i \in 1 .. k - 1
                   PROVE  next'[z[i]] = IF i < k - 1 THEN z[i + 1] ELSE NULL
        OBVIOUS
      <4>1. CASE i < m
        <5>1. i \in 1 .. k /\ i + 1 \in 1 .. k - 1 /\ i + 1 <= m /\ i # m
          BY <2>4, <4>1
        <5>2. z[i] = s[i] /\ z[i + 1] = s[i + 1] /\ s[i] # s[m]
          BY <1>5, <2>5, <4>1, <5>1 DEF IsList
        <5>3. next[s[i]] = s[i + 1]
          BY <1>5, <2>4, <4>1, <5>1 DEF IsList
        <5> QED
          BY <2>4, <3>3, <4>1, <5>1, <5>2, <5>3
      <4>2. CASE i = m
        <5>1. z[i] = s[m]
          BY <2>5, <4>2
        <5>2. next[n] = IF m + 1 < k THEN s[(m + 1) + 1] ELSE NULL
          BY <1>5, <2>4 DEF IsList
        <5>3. i < k - 1 => z[i + 1] = s[(m + 1) + 1]
          BY <2>5, <4>2
        <5> QED
          BY <3>3, <4>2, <5>1, <5>2, <5>3
      <4>3. CASE i > m
        <5>1. i + 1 \in 1 .. k /\ i + 1 # m
          BY <4>3
        <5>2. z[i] = s[i + 1] /\ s[i + 1] # s[m]
          BY <1>5, <2>5, <4>3, <5>1 DEF IsList
        <5>3. next[s[i + 1]] = IF i + 1 < k THEN s[(i + 1) + 1] ELSE NULL
          BY <1>5, <5>1 DEF IsList
        <5>4. i < k - 1 => z[i + 1] = s[(i + 1) + 1]
          BY <2>5, <4>3
        <5> QED
          BY <3>3, <5>2, <5>3, <5>4
      <4> QED
        BY <4>1, <4>2, <4>3
    <3> QED
      BY <3>1, <3>2, <3>4 DEF IsList
  <2>8. next' \in [Node -> Node \cup {NULL}] /\ next'[n] = next[n]
    <3>1. n # s[m]
      BY <1>5, <2>4 DEF IsList
    <3> QED
      BY <2>1, <2>3, <3>1 DEF Typed
  <2>9. Listed' = {z[i] : i \in 1 .. k - 1}
    <3>1. k - 1 \in Nat
      BY <2>4
    <3> QED
      BY <2>7, <2>8, <3>1, ListedRowsNext
  <2>10. Listed' = Listed \ {n}
    <3>1. Listed' \subseteq Listed \ {n}
      BY <1>2, <2>5, <2>6, <2>9
    <3>2. ASSUME NEW i \in 1 .. k, s[i] # n
          PROVE  s[i] \in Listed'
      <4>1. CASE i <= m
        <5>1. i \in 1 .. k - 1 /\ z[i] = s[i]
          BY <2>4, <2>5, <4>1
        <5> QED
          BY <2>9, <5>1
      <4>2. CASE i > m
        <5>1. i # m + 1
          BY <2>4, <3>2
        <5>2. i - 1 \in 1 .. k - 1 /\ ~(i - 1 <= m) /\ (i - 1) + 1 = i
          BY <4>2, <5>1
        <5>3. z[i - 1] = s[i]
          BY <2>5, <5>2
        <5> QED
          BY <2>9, <5>2, <5>3
      <4> QED
        BY <4>1, <4>2
    <3> QED
      BY <1>2, <3>1, <3>2
  <2>11. ASSUME NEW j \in 1 .. k, s[j] # n
         PROVE  \E jz \in 1 .. k - 1 :
                  /\ z[jz] = s[j]
                  /\ \A i \in 1 .. j : s[i] # n => \E iz \in 1 .. jz : z[iz] = s[i]
                  /\ m + 1 < j => \E iz \in 1 .. jz : s[(m + 1) + 1] = z[iz]
    <3>1. CASE j <= m
      <4>1. j \in 1 .. k - 1 /\ \A i \in 1 .. j : i <= m /\ i \in 1 .. k - 1
        BY <2>4, <3>1
      <4>2. \A i \in 1 .. j : z[i] = s[i]
        BY <2>5, <4>1
      <4> QED
        BY <3>1, <4>1, <4>2
    <3>2. CASE j > m
      <4>1. j # m + 1
        BY <2>4, <2>11
      <4>2. j - 1 \in 1 .. k - 1 /\ ~(j - 1 <= m) /\ (j - 1) + 1 = j
        BY <3>2, <4>1
      <4>3. z[j - 1] = s[j]
        BY <2>5, <4>2
      <4>4. ASSUME NEW i \in 1 .. j, s[i] # n
            PROVE  \E iz \in 1 .. j - 1 : z[iz] = s[i]
        <5>1. CASE i <= m
          <6>1. i \in 1 .. j - 1 /\ i \in 1 .. k - 1
            BY <2>4, <3>2, <5>1
          <6> QED
            BY <2>5, <5>1, <6>1
        <5>2. CASE i > m
          <6>1. i # m + 1
            BY <2>4, <4>4
          <6>2. i - 1 \in 1 .. j - 1 /\ i - 1 \in 1 .. k - 1 /\ ~(i - 1 <= m) /\ (i - 1) + 1 = i
            BY <5>2, <6>1
          <6> QED
            BY <2>5, <6>2
        <5> QED
          BY <5>1, <5>2
      <4>5. (m + 1) \in 1 .. j - 1 /\ z[m + 1] = s[(m + 1) + 1]
        BY <2>5, <4>2, <3>2
      <4> QED
        BY <4>2, <4>3, <4>4, <4>5
    <3> QED
      BY <3>1, <3>2
  <2>12. ASSUME NEW t \in Reader
         PROVE  Walks(reader[t], k - 1, z)'
    <3>1. Walks(reader[t], k, s) /\ reader[t].here \in Node \cup {NULL}
      BY <1>1 DEF ListHolds, Typed, Lookups
    <3>2. ASSUME reader'[t].owed # NULL
          PROVE  \E jz \in 1 .. k - 1 :
                   /\ reader'[t].owed = z[jz] /\ memory'[z[jz]] = "row"
                   /\ reader'[t].mask >= MaskOf(reader'[t].owed) \/ Ahead(reader[t].here, jz, z)'
      <4>1. /\ reader'[t].owed = reader[t].owed /\ reader[t].owed # n
            /\ reader'[t].here = reader[t].here /\ reader'[t].mask = reader[t].mask
        BY <3>2, OwedAfterTakeOut
      <4>2. PICK j \in 1 .. k :
              /\ reader[t].owed = s[j] /\ memory[s[j]] = "row"
              /\ reader[t].mask >= MaskOf(reader[t].owed) \/ Ahead(reader[t].here, j, s)
        BY <3>1, <3>2, <4>1 DEF Walks
      <4>3. PICK jz \in 1 .. k - 1 :
              /\ z[jz] = s[j]
              /\ \A i \in 1 .. j : s[i] # n => \E iz \in 1 .. jz : z[iz] = s[i]
              /\ m + 1 < j => \E iz \in 1 .. jz : s[(m + 1) + 1] = z[iz]
        BY <2>11, <4>1, <4>2
      <4>4. ASSUME Ahead(reader[t].here, j, s)
            PROVE  Ahead(reader[t].here, jz, z)'
        <5> DEFINE h == reader[t].here
        <5>1. CASE memory[h] = "free"
          BY <2>2, <4>1, <4>4, <5>1 DEF Ahead
        <5>2. CASE \E i \in 1 .. j : h = s[i]
          <6>1. PICK i \in 1 .. j : h = s[i]
            BY <5>2
          <6>2. CASE s[i] # n
            BY <4>1, <4>3, <4>4, <6>1, <6>2 DEF Ahead
          <6>3. CASE s[i] = n
            <7>1. i = m + 1 /\ j # m + 1 /\ m + 1 < j
              BY <1>5, <2>4, <4>1, <4>2, <6>1, <6>3 DEF IsList
            <7>2. next[n] = s[(m + 1) + 1]
              BY <1>5, <2>4, <7>1 DEF IsList
            <7>3. h = victim' /\ memory'[h] = "row"
              BY <1>3, <1>4, <2>2, <2>4, <6>1, <6>3
            <7> QED
              BY <2>8, <4>1, <4>3, <4>4, <6>1, <6>3, <7>1, <7>2, <7>3 DEF Ahead
          <6> QED
            BY <6>2, <6>3
        <5> QED
          BY <1>3, <4>4, <5>1, <5>2 DEF Ahead
      <4> QED
        BY <2>2, <4>1, <4>2, <4>3, <4>4
    <3> QED
      BY <3>1, <3>2, OwedAfterTakeOut DEF Walks
  <2>13. ListHolds(k - 1, z)'
    <3>1. \A i \in 1 .. k - 1 : memory'[z[i]] = "row"
      <4>1. \A i \in 1 .. k - 1 : i \in 1 .. k /\ i + 1 \in 1 .. k
        OBVIOUS
      <4> QED
        BY <1>4, <2>2, <2>5, <4>1
    <3>2. memory'[victim'] = "row" /\ \A i \in 1 .. k - 1 : z[i] # victim'
      BY <1>3, <1>4, <2>2, <2>4, <2>6
    <3>3. \A l \in Node : memory'[l] = "free" /\ l # victim' => next'[l] = NULL
      <4> SUFFICES ASSUME NEW l \in Node, memory[l] = "free"
                   PROVE  next'[l] = NULL
        BY <2>2
      <4>1. next[l] = NULL /\ l # s[m]
        BY <1>1, <1>3, <1>4, NullIsNoNode DEF ListHolds
      <4> QED
        BY <2>1, <2>3, <4>1 DEF Typed
    <3> QED
      BY <2>7, <2>12, <3>1, <3>2, <3>3 DEF ListHolds
  <2>14. ListInv'
    <3>1. k - 1 \in Nat
      BY <2>4
    <3> QED
      BY <2>13, <3>1 DEF ListInv
  <2>15. n \in Listed
    BY <1>2, <2>4
  <2> QED
    BY <2>8, <2>10, <2>14, <2>15
<1> QED
  BY <1>7, <1>8

\* sr_del_rt_entry, second step: the freed head gives way to the next row, or the
\* row that has left the list is freed
LEMMA FinishKeepsList ==
  ASSUME Rows, Typed, ListInv, FinishTakeOut, UNCHANGED reader
  PROVE  /\ ListInv'
         /\ head' \in Node \cup {NULL} /\ next' \in [Node -> Node \cup {NULL}]
         /\ Listed' = Listed \ {victim}
<1>0. PICK k \in Nat : \E s \in [1 .. k -> Node] : ListHolds(k, s)
  BY DEF ListInv
<1>1. PICK s \in [1 .. k -> Node] : ListHolds(k, s)
  BY <1>0
<1>2. Listed = {s[i] : i \in 1 .. k}
  BY <1>1, ListedRows DEF ListHolds
<1>3. /\ victim \in Node /\ victim # NULL /\ victim' = NULL
      /\ memory[victim] \in {"free", "row"}
      /\ memory' = [memory EXCEPT ![victim] = "free"]
      /\ head' = IF head = victim THEN next[victim] ELSE head
      /\ next' = [next EXCEPT ![victim] = NULL]
  BY DEF FinishTakeOut, Forget, Rows, Typed
<1>4. head' \in Node \cup {NULL} /\ next' \in [Node -> Node \cup {NULL}]
  BY <1>3 DEF Typed
<1>5. IsList(head, next, k, s)
  BY <1>1 DEF ListHolds
<1>6. ASSUME NEW l \in Node, memory'[l] = "free"
      PROVE  next'[l] = NULL
  <2>1. CASE l = victim
    BY <1>3, <2>1 DEF Typed
  <2>2. CASE l # victim
    <3>1. memory[l] = "free"
      BY <1>3, <1>6, <2>2 DEF Rows
    <3>2. next[l] = NULL
      BY <1>1, <2>2, <3>1 DEF ListHolds
    <3> QED
      BY <1>3, <2>2, <3>2 DEF Typed
  <2> QED
    BY <2>1, <2>2
<1>7. CASE head = victim
  <2>1. k # 0 /\ 1 \in 1 .. k /\ s[1] = victim /\ memory[victim] = "free"
    BY <1>1, <1>3, <1>5, <1>7 DEF IsList, ListHolds
  <2>2. \A i \in 2 .. k : s[i] # victim /\ memory[s[i]] = "row" /\ memory'[s[i]] = "row"
    <3> SUFFICES ASSUME NEW i \in 2 .. k
                 PROVE  s[i] # victim /\ memory[s[i]] = "row" /\ memory'[s[i]] = "row"
      OBVIOUS
    <3>1. i \in 1 .. k /\ i # 1
      OBVIOUS
    <3>2. s[i] # victim
      BY <1>5, <2>1, <3>1 DEF IsList
    <3> QED
      BY <1>1, <1>3, <3>1, <3>2 DEF ListHolds, Rows
  <2>3. PICK z \in [1 .. k - 1 -> Node] : \A i \in 1 .. k - 1 : z[i] = s[i + 1]
    <3> DEFINE y == [i \in 1 .. k - 1 |-> s[i + 1]]
    <3>1. y \in [1 .. k - 1 -> Node]
      OBVIOUS
    <3> QED
      BY <3>1
  <2>4. IsList(head, next, k - 1, z)'
    <3>1. \A i, j \in 1 .. k - 1 : z[i] = z[j] => i = j
      BY <1>5, <2>3 DEF IsList
    <3>2. head' = IF k - 1 = 0 THEN NULL ELSE z[1]
      BY <1>3, <1>5, <1>7, <2>1, <2>3 DEF IsList
    <3>3. ASSUME NEW i \in 1 .. k - 1
          PROVE  next'[z[i]] = IF i < k - 1 THEN z[i + 1] ELSE NULL
      <4>1. i + 1 \in 2 .. k /\ i + 1 \in 1 .. k /\ z[i] = s[i + 1]
        BY <2>3
      <4>2. next'[s[i + 1]] = next[s[i + 1]]
        BY <1>3, <2>2, <4>1 DEF Typed
      <4>3. next[s[i + 1]] = IF i + 1 < k THEN s[(i + 1) + 1] ELSE NULL
        BY <1>5, <4>1 DEF IsList
      <4>4. i < k - 1 => z[i + 1] = s[(i + 1) + 1]
        BY <2>3
      <4> QED
        BY <4>1, <4>2, <4>3, <4>4
    <3> QED
      BY <3>1, <3>2, <3>3 DEF IsList
  <2>5. ASSUME NEW t \in Reader
        PROVE  Walks(reader[t], k - 1, z)'
    <3>1. Walks(reader[t], k, s) /\ reader[t].here \in Node \cup {NULL} /\ reader' = reader
      BY <1>1 DEF ListHolds, Typed, Lookups
    <3>2. ASSUME NEW j \in 1 .. k, memory[s[j]] = "row"
          PROVE  /\ j - 1 \in 1 .. k - 1 /\ z[j - 1] = s[j] /\ memory'[z[j - 1]] = "row"
                 /\ Ahead(reader[t].here, j, s) => Ahead(reader[t].here, j - 1, z)'
      <4>1. j # 1 /\ j \in 2 .. k
        BY <2>1, <3>2
      <4>2. j - 1 \in 1 .. k - 1 /\ z[j - 1] = s[j] /\ memory'[z[j - 1]] = "row"
        BY <2>2, <2>3, <4>1
      <4>3. ASSUME Ahead(reader[t].here, j, s)
            PROVE  Ahead(reader[t].here, j - 1, z)'
        <5>1. CASE memory[reader[t].here] = "free"
          BY <1>3, <3>1, <4>3, <5>1 DEF Ahead, Rows
        <5>2. CASE \E i \in 1 .. j : reader[t].here = s[i]
          <6>1. PICK i \in 1 .. j : reader[t].here = s[i]
            BY <5>2
          <6>2. CASE i = 1
            BY <2>1, <4>3, <5>1, <6>1, <6>2
          <6>3. CASE i # 1
            <7>1. i - 1 \in 1 .. j - 1 /\ i - 1 \in 1 .. k - 1 /\ z[i - 1] = s[i]
              BY <2>3, <6>3
            <7> QED
              BY <3>1, <4>3, <6>1, <7>1 DEF Ahead
          <6> QED
            BY <6>2, <6>3
        <5> QED
          BY <2>1, <4>3, <5>1, <5>2 DEF Ahead
      <4> QED
        BY <4>2, <4>3
    <3> QED
      BY <3>1, <3>2 DEF Walks
  <2>6. ListHolds(k - 1, z)'
    <3>1. \A i \in 1 .. k - 1 : memory'[z[i]] = "row"
      BY <2>2, <2>3
    <3> QED
      BY <1>3, <1>6, <2>4, <2>5, <3>1 DEF ListHolds
  <2>7. k - 1 \in Nat
    BY <2>1
  <2>8. ListInv'
    BY <2>6, <2>7 DEF ListInv
  <2>9. Listed' = {z[i] : i \in 1 .. k - 1}
    BY <1>4, <2>4, <2>7, ListedRowsNext
  <2>10. Listed' = Listed \ {victim}
    <3>1. Listed' \subseteq Listed \ {victim}
      <4>1. \A i \in 1 .. k - 1 : i + 1 \in 2 .. k /\ i + 1 \in 1 .. k
        OBVIOUS
      <4> QED
        BY <1>2, <2>2, <2>3, <2>9, <4>1
    <3>2. ASSUME NEW i \in 1 .. k, s[i] # victim
          PROVE  s[i] \in Listed'
      <4>1. i - 1 \in 1 .. k - 1 /\ (i - 1) + 1 = i
        BY <2>1, <3>2
      <4>2. z[i - 1] = s[i]
        BY <2>3, <4>1
      <4> QED
        BY <2>9, <4>1, <4>2
    <3> QED
      BY <1>2, <3>1, <3>2
  <2> QED
    BY <1>4, <2>8, <2>10
<1>8. CASE head # victim
  <2>1. \A i \in 1 .. k : s[i] # victim /\ memory[s[i]] = "row"
    BY <1>1, <1>3, <1>8 DEF ListHolds
  <2>2. IsList(head, next, k, s)'
    BY <1>3, <1>5, <1>8, <2>1 DEF IsList, Typed
  <2>3. ASSUME NEW t \in Reader
        PROVE  Walks(reader[t], k, s)'
    <3>1. Walks(reader[t], k, s) /\ reader[t].here \in Node \cup {NULL} /\ reader' = reader
      BY <1>1 DEF ListHolds, Typed, Lookups
    <3>2. ASSUME NEW j \in 1 .. k, Ahead(reader[t].here, j, s)
          PROVE  Ahead(reader[t].here, j, s)'
      BY <1>3, <3>1, <3>2 DEF Ahead, Rows
    <3>3. \A j \in 1 .. k : memory'[s[j]] = memory[s[j]]
      BY <1>3, <2>1 DEF Rows
    <3> QED
      BY <3>1, <3>2, <3>3 DEF Walks
  <2>4. ListHolds(k, s)'
    <3>1. \A i \in 1 .. k : memory'[s[i]] = "row"
      BY <1>3, <2>1 DEF Rows
    <3> QED
      BY <1>3, <1>6, <2>2, <2>3, <3>1 DEF ListHolds
  <2>5. Listed' = {s[i] : i \in 1 .. k}
    BY <1>4, <2>2, ListedRowsNext
  <2> QED
    BY <1>2, <1>4, <2>1, <2>4, <2>5 DEF ListInv
<1> QED
  BY <1>7, <1>8

\* the end of sr_add_rt_entry: the row is written
LEMMA WriteKeepsList ==
  ASSUME Rows, Typed, ListInv, WriteRow, UNCHANGED reader
  PROVE  ListInv' /\ Listed' = Listed
<1>0. PICK k \in Nat : \E s \in [1 .. k -> Node] : ListHolds(k, s)
  BY DEF ListInv
<1>1. PICK s \in [1 .. k -> Node] : ListHolds(k, s)
  BY <1>0
<1>2. /\ victim \in Node /\ victim # NULL /\ victim' = NULL /\ memory[victim] = "raw"
      /\ memory' = [memory EXCEPT ![victim] = "row"]
      /\ UNCHANGED <<head, next>>
  BY DEF WriteRow, Typed
<1>3. Listed' = Listed
  BY <1>2, ListedIsReach
<1>4. IsList(head, next, k, s)'
  BY <1>1, <1>2 DEF ListHolds, IsList
<1>5. \A i \in 1 .. k : memory'[s[i]] = "row"
  BY <1>1, <1>2 DEF ListHolds, Rows
<1>6. ASSUME NEW t \in Reader
      PROVE  Walks(reader[t], k, s)'
  <2>1. Walks(reader[t], k, s) /\ reader[t].here \in Node \cup {NULL} /\ reader' = reader
    BY <1>1 DEF ListHolds, Typed, Lookups
  <2>2. ASSUME NEW j \in 1 .. k, Ahead(reader[t].here, j, s)
        PROVE  Ahead(reader[t].here, j, s)'
    BY <1>2, <2>1, <2>2 DEF Ahead, Rows
  <2> QED
    BY <1>5, <2>1, <2>2 DEF Walks
<1>7. \A l \in Node : memory'[l] = "free" => next'[l] = NULL
  BY <1>1, <1>2 DEF ListHolds, Rows
<1> QED
  BY <1>2, <1>3, <1>4, <1>5, <1>6, <1>7 DEF ListHolds, ListInv

\* sr_load_rt: the rows of the file one after another
LEMMA LoadMakesList ==
  ASSUME NEW file \in SUBSET FileRow, LoadTable(file), victim = NULL,
         \A t \in Reader : reader[t] = NoLookup, UNCHANGED reader
  PROVE  /\ ListInv'
         /\ head' \in Node \cup {NULL} /\ next' \in [Node -> Node \cup {NULL}]
<1> DEFINE size == Cardinality(file)
<1>1. file \subseteq Prefix /\ size \in Nat
  BY FS_Subset, FS_CardinalityType, ProcessAssumption
<1> HIDE DEF size
<1>2. PICK order \in [1 .. size -> file] :
        /\ \A i, j \in 1 .. size : i # j => order[i] # order[j]
        /\ head' = IF size = 0 THEN NULL ELSE <<order[1], 1>>
        /\ next' = [n \in Node |-> IF \E i \in 1 .. size - 1 : n = <<order[i], 1>>
                                   THEN <<order[(CHOOSE i \in 1 .. size : n = <<order[i], 1>>) + 1], 1>>
                                   ELSE NULL]
        /\ memory' = [n \in Node |-> IF PrefixOf(n) \in file /\ n[2] = 1 THEN "row" ELSE "free"]
        /\ UNCHANGED <<row, victim>>
  BY DEF LoadTable, size
<1>3. PICK s \in [1 .. size -> Node] : \A i \in 1 .. size : s[i] = <<order[i], 1>>
  <2> DEFINE y == [i \in 1 .. size |-> <<order[i], 1>>]
  <2>1. y \in [1 .. size -> Node]
    BY <1>1, ProcessAssumption DEF Node
  <2> QED
    BY <2>1
<1>4. \A i, j \in 1 .. size : s[i] = s[j] => i = j
  <2> SUFFICES ASSUME NEW i \in 1 .. size, NEW j \in 1 .. size, s[i] = s[j]
               PROVE  i = j
    OBVIOUS
  <2>1. order[i] = order[j]
    BY <1>3
  <2> QED
    BY <1>2, <2>1
<1>5. ASSUME NEW n \in Node
      PROVE  next'[n] = IF \E i \in 1 .. size - 1 : n = s[i]
                        THEN s[(CHOOSE i \in 1 .. size : n = <<order[i], 1>>) + 1] ELSE NULL
  <2>1. CASE \E i \in 1 .. size - 1 : n = s[i]
    <3>1. PICK i \in 1 .. size - 1 : n = s[i]
      BY <2>1
    <3>2. i \in 1 .. size /\ i + 1 \in 1 .. size /\ n = <<order[i], 1>>
      BY <1>1, <1>3, <3>1
    <3>3. \A j \in 1 .. size : n = <<order[j], 1>> => j = i
      BY <1>3, <1>4, <3>1, <3>2
    <3>4. (CHOOSE j \in 1 .. size : n = <<order[j], 1>>) = i
      BY <3>2, <3>3
    <3>5. next'[n] = <<order[i + 1], 1>>
      BY <1>2, <3>2, <3>4
    <3> QED
      BY <1>3, <2>1, <3>2, <3>4, <3>5
  <2>2. CASE ~\E i \in 1 .. size - 1 : n = s[i]
    <3>1. ~\E i \in 1 .. size - 1 : n = <<order[i], 1>>
      <4>1. \A i \in 1 .. size - 1 : i \in 1 .. size
        BY <1>1
      <4> QED
        BY <1>3, <2>2, <4>1
    <3> QED
      BY <1>2, <2>2, <3>1
  <2> QED
    BY <2>1, <2>2
<1>6. ASSUME NEW i \in 1 .. size - 1
      PROVE  i + 1 \in 1 .. size /\ next'[s[i]] = s[i + 1]
  <2>1. i \in 1 .. size /\ i + 1 \in 1 .. size
    BY <1>1
  <2>2. (CHOOSE j \in 1 .. size : s[i] = <<order[j], 1>>) = i
    <3>1. \A j \in 1 .. size : s[i] = <<order[j], 1>> => j = i
      BY <1>3, <1>4, <2>1
    <3>2. s[i] = <<order[i], 1>>
      BY <1>3, <2>1
    <3> QED
      BY <2>1, <3>1, <3>2
  <2> QED
    BY <1>5, <2>1, <2>2
<1>7. next' \in [Node -> Node \cup {NULL}]
  <2> SUFFICES ASSUME NEW n \in Node
               PROVE  next'[n] \in Node \cup {NULL}
    BY <1>2
  <2>1. CASE \E i \in 1 .. size - 1 : n = s[i]
    BY <1>6, <2>1
  <2>2. CASE ~\E i \in 1 .. size - 1 : n = s[i]
    BY <1>5, <2>2
  <2> QED
    BY <2>1, <2>2
<1>8. head' = IF size = 0 THEN NULL ELSE s[1]
  BY <1>1, <1>2, <1>3
<1>9. IsList(head, next, size, s)'
  <2>1. ASSUME NEW i \in 1 .. size
        PROVE  next'[s[i]] = IF i < size THEN s[i + 1] ELSE NULL
    <3>1. CASE i < size
      <4>1. i \in 1 .. size - 1
        BY <1>1, <3>1
      <4> QED
        BY <1>6, <3>1, <4>1
    <3>2. CASE ~(i < size)
      <4>1. \A j \in 1 .. size - 1 : j \in 1 .. size /\ j # i
        BY <1>1, <3>2
      <4>2. ~\E j \in 1 .. size - 1 : s[i] = s[j]
        BY <1>4, <4>1
      <4> QED
        BY <1>5, <3>2, <4>2
    <3> QED
      BY <3>1, <3>2
  <2> QED
    BY <1>4, <1>8, <2>1 DEF IsList
<1>10. \A i \in 1 .. size : memory'[s[i]] = "row"
  <2> SUFFICES ASSUME NEW i \in 1 .. size
               PROVE  PrefixOf(s[i]) \in file /\ s[i][2] = 1
    BY <1>2
  <2> QED
    BY <1>3 DEF PrefixOf
<1>11. \A n \in Node : memory'[n] = "free" => next'[n] = NULL
  <2> SUFFICES ASSUME NEW n \in Node, memory'[n] = "free"
               PROVE  ~\E i \in 1 .. size - 1 : n = s[i]
    BY <1>5
  <2>1. \A i \in 1 .. size - 1 : i \in 1 .. size
    BY <1>1
  <2> QED
    BY <1>10, <2>1
<1>12. \A t \in Reader : Walks(reader[t], size, s)'
  <2>1. NoLookup.best = NULL /\ NoLookup.owed = NULL
    BY DEF NoLookup, Lookup
  <2>2. \A t \in Reader : reader'[t] = NoLookup
    OBVIOUS
  <2> QED
    BY <2>1, <2>2 DEF Walks
<1>13. ListHolds(size, s)'
  BY <1>2, <1>9, <1>10, <1>11, <1>12 DEF ListHolds
<1>14. head' \in Node \cup {NULL}
  BY <1>1, <1>8
<1> QED
  BY <1>1, <1>7, <1>13, <1>14 DEF ListInv

-----------------------------------------------------------------------------
(***************************************************************************)
(* What the lookups do, which change nothing but their own place.           *)
(***************************************************************************)
LEMMA ReaderMoves ==
  ASSUME Typed, NEW k \in Nat, NEW s \in [1 .. k -> Node], ListHolds(k, s), UNCHANGED tableVars,
         NEW t \in Reader, NEW r \in Lookups, Walks(r, k, s), reader' = [reader EXCEPT ![t] = r]
  PROVE  ListInv' /\ reader' \in [Reader -> Lookups]
<1>1. \A u \in Reader : Walks(reader'[u], k, s)
  BY DEF ListHolds, Typed
<1>2. \A u \in Reader : Walks(reader[u], k, s)'
  BY <1>1 DEF Walks, Ahead, tableVars
<1>3. ListHolds(k, s)'
  BY <1>2 DEF ListHolds, IsList, tableVars
<1> QED
  BY <1>3 DEF ListInv, Typed

LEMMA NoLookupTyped == NoLookup \in Lookups
<1>1. (CHOOSE a \in Address : TRUE) \in Address
  BY ProcessAssumption
<1> QED
  BY <1>1 DEF NoLookup, Lookup, Lookups

LEMMA OverKeeps ==
  ASSUME Typed, ListInv, NEW t \in Reader, reader' = [reader EXCEPT ![t] = NoLookup],
         UNCHANGED tableVars
  PROVE  ListInv' /\ reader' \in [Reader -> Lookups]
<1>0. PICK k \in Nat : \E s \in [1 .. k -> Node] : ListHolds(k, s)
  BY DEF ListInv
<1>1. PICK s \in [1 .. k -> Node] : ListHolds(k, s)
  BY <1>0
<1>2. Walks(NoLookup, k, s)
  BY DEF Walks, NoLookup, Lookup
<1> QED
  BY <1>1, <1>2, NoLookupTyped, ReaderMoves

LEMMA BeginKeeps ==
  ASSUME Typed, ListInv, NEW t \in Reader, NEW errand \in {"forward", "report"},
         NEW a \in Address, Begin(t, errand, a), UNCHANGED tableVars
  PROVE  ListInv' /\ reader' \in [Reader -> Lookups]
<1>0. PICK k \in Nat : \E s \in [1 .. k -> Node] : ListHolds(k, s)
  BY DEF ListInv
<1>1. PICK s \in [1 .. k -> Node] : ListHolds(k, s)
  BY <1>0
<1> DEFINE owed == LongestMatch(a)
           r == Lookup(errand, a, head, owed)
<1>2. IsList(head, next, k, s)
  BY <1>1 DEF ListHolds
<1>3. owed # NULL => \E j \in 1 .. k : owed = s[j] /\ memory[s[j]] = "row" /\ Matches(owed, a)
  BY <1>2, LongestMatchIsListed
<1> HIDE DEF owed
<1>4. r \in Lookups
  BY <1>3 DEF Lookups, Lookup, Typed
<1>5. Walks(r, k, s)
  <2>1. ASSUME NEW j \in 1 .. k
        PROVE  Ahead(head, j, s)
    <3>1. head = s[1] /\ 1 \in 1 .. j /\ head # NULL
      BY <1>2, NullIsNoNode DEF IsList
    <3> QED
      BY <3>1 DEF Ahead
  <2>2. r.best = NULL /\ r.owed = owed /\ r.want = a /\ r.here = head
    BY DEF Lookup
  <2> HIDE DEF r
  <2> QED
    BY <1>3, <2>1, <2>2 DEF Walks
<1>6. reader' = [reader EXCEPT ![t] = r]
  BY DEF Begin, owed
<1> HIDE DEF r
<1> QED
  BY <1>1, <1>4, <1>5, <1>6, ReaderMoves

LEMMA LookAtKeeps ==
  ASSUME Rows, Typed, ListInv, NEW t \in Reader, LookAt(t)
  PROVE  ListInv' /\ reader' \in [Reader -> Lookups]
<1>0. PICK k \in Nat : \E s \in [1 .. k -> Node] : ListHolds(k, s)
  BY DEF ListInv
<1>1. PICK s \in [1 .. k -> Node] : ListHolds(k, s)
  BY <1>0
<1> DEFINE old == reader[t]
           n == old.here
           better == Matches(n, old.want) /\ MaskOf(n) > old.mask
           r == [old EXCEPT !.best = IF better THEN n ELSE @,
                            !.mask = IF better THEN MaskOf(n) ELSE @,
                            !.here = next[n]]
<1>2. old \in Lookups /\ n # NULL /\ n \in Node /\ memory[n] = "row" /\ UNCHANGED tableVars
  BY DEF LookAt, Looking, Typed, Lookups
<1>3. reader' = [reader EXCEPT ![t] = r]
  BY <1>2 DEF LookAt, Lookups, Typed
<1> HIDE DEF better
<1>4. /\ r.errand = old.errand /\ r.want = old.want /\ r.owed = old.owed
      /\ r.here = next[n]
      /\ r.best = IF better THEN n ELSE old.best
      /\ r.mask = IF better THEN MaskOf(n) ELSE old.mask
  BY <1>2 DEF Lookups
<1>5. MaskOf(n) \in {Length[p] : p \in Prefix} /\ MaskOf(n) \in Nat
  BY <1>2, ProcessAssumption DEF MaskOf, PrefixOf, Node
<1>6. r \in Lookups
  BY <1>2, <1>5 DEF Lookups, Typed
<1>7. old.mask \in Nat /\ r.mask \in Nat /\ r.mask >= old.mask
      /\ (Matches(n, old.want) => r.mask >= MaskOf(n))
  <2>1. old.mask \in Nat
    BY <1>2, ProcessAssumption DEF Lookups
  <2> QED
    BY <1>4, <1>5, <2>1 DEF better
<1> HIDE DEF r
<1>8. Walks(r, k, s)
  <2>1. Walks(old, k, s) /\ IsList(head, next, k, s)
    BY <1>1 DEF ListHolds
  <2>2. r.best # NULL => Matches(r.best, r.want)
    BY <1>4, <2>1 DEF Walks, better
  <2>3. ASSUME r.owed # NULL
        PROVE  \E j \in 1 .. k : /\ r.owed = s[j] /\ memory[s[j]] = "row"
                                 /\ Matches(r.owed, r.want)
                                 /\ r.mask >= MaskOf(r.owed) \/ Ahead(r.here, j, s)
    <3>1. PICK j \in 1 .. k : /\ old.owed = s[j] /\ memory[s[j]] = "row"
                              /\ Matches(old.owed, old.want)
                              /\ old.mask >= MaskOf(old.owed) \/ Ahead(old.here, j, s)
      BY <1>4, <2>1, <2>3 DEF Walks
    <3>2. MaskOf(s[j]) \in Nat
      BY ProcessAssumption, NullIsNoNode DEF MaskOf, PrefixOf, Node
    <3>3. CASE old.mask >= MaskOf(old.owed)
      <4>1. r.mask >= MaskOf(r.owed)
        BY <1>4, <1>7, <3>1, <3>2, <3>3
      <4> QED
        BY <1>4, <3>1, <4>1
    <3>4. CASE Ahead(old.here, j, s)
      <4>1. CASE \E i \in 1 .. j : n = s[i]
        <5>1. PICK i \in 1 .. j : n = s[i]
          BY <4>1
        <5>2. CASE i = j
          BY <1>4, <1>7, <3>1, <5>1, <5>2
        <5>3. CASE i # j
          <6>1. i < k /\ i + 1 \in 1 .. j /\ i \in 1 .. k /\ i + 1 \in 1 .. k
            BY <5>3
          <6>2. next[n] = s[i + 1] /\ s[i + 1] # NULL
            BY <2>1, <5>1, <6>1, NullIsNoNode DEF IsList
          <6>3. Ahead(r.here, j, s)
            BY <1>4, <6>1, <6>2 DEF Ahead
          <6> QED
            BY <1>4, <3>1, <6>3
        <5> QED
          BY <5>2, <5>3
      <4>2. CASE n = victim /\ memory[n] = "row" /\ \E i \in 1 .. j : next[n] = s[i]
        <5>1. PICK i \in 1 .. j : next[n] = s[i]
          BY <4>2
        <5>2. s[i] # NULL
          BY NullIsNoNode
        <5>3. Ahead(r.here, j, s)
          BY <1>4, <5>1, <5>2 DEF Ahead
        <5> QED
          BY <1>4, <3>1, <5>3
      <4> QED
        BY <1>2, <3>4, <4>1, <4>2 DEF Ahead
    <3> QED
      BY <3>1, <3>3, <3>4
  <2> QED
    BY <2>2, <2>3 DEF Walks
<1> QED
  BY <1>1, <1>2, <1>3, <1>6, <1>8, ReaderMoves

-----------------------------------------------------------------------------
(***************************************************************************)
(* Every step keeps the list, and the lookups on it.                        *)
(***************************************************************************)
KInv ==
  /\ Typed
  /\ NothingStarted
  /\ ListInv

LEMMA ListLeftAlone ==
  ASSUME ListInv, UNCHANGED <<head, next, memory, victim, reader>>
  PROVE  ListInv' /\ Listed' = Listed
<1>0. PICK k \in Nat : \E s \in [1 .. k -> Node] : ListHolds(k, s)
  BY DEF ListInv
<1>1. PICK s \in [1 .. k -> Node] : ListHolds(k, s)
  BY <1>0
<1>2. ListHolds(k, s)'
  BY <1>1 DEF ListHolds, IsList, Walks, Ahead
<1> QED
  BY <1>2, ListedIsReach DEF ListInv

LEMMA SessionKeepsK ==
  ASSUME KInv, Session
  PROVE  KInv' /\ Listed' = Listed
<1>1. /\ stage' \in Stage /\ linked' \in 0 .. NUM_IF /\ configured' \in 0 .. linked'
      /\ stage' \in Handshake => stage \in Handshake
  BY SessionAssumption
  DEF Session, SessionStep, AuthRequest, AuthRefused, AskForTemplate, NoTable, BreakOff,
      EndOfStream, HwInfo, AddInterface, SetInterface, Handshake, Stage, KInv, Typed
<1>2. UNCHANGED <<head, next, memory, victim, reader, lock, doomed, turn>>
  BY DEF Session, tableVars
<1>3. ListInv' /\ Listed' = Listed
  BY <1>2, ListLeftAlone DEF KInv
<1> QED
  BY <1>1, <1>2, <1>3 DEF KInv, Typed, NothingStarted

LEMMA StartKeepsK ==
  ASSUME IInv, KInv, Start
  PROVE  KInv'
<1>1. /\ stage \in Handshake /\ stage' = "loop" /\ UNCHANGED <<linked, configured>>
      /\ UNCHANGED <<lock, doomed, turn, reader>>
  BY DEF Start, Started, Handshake
<1>2. PICK file \in SUBSET FileRow : LoadTable(file)
  BY DEF Start
<1>3. victim = NULL /\ \A t \in Reader : reader[t] = NoLookup
  BY <1>1 DEF IInv, NothingYet, VictimIsLocked, KInv, NothingStarted
<1>4. /\ ListInv' /\ head' \in Node \cup {NULL} /\ next' \in [Node -> Node \cup {NULL}]
  BY <1>1, <1>2, <1>3, LoadMakesList
<1>5. UNCHANGED victim
  BY <1>2 DEF LoadTable
<1> QED
  BY <1>1, <1>4, <1>5 DEF KInv, Typed, NothingStarted, Stage, Handshake

LEMMA ArrivalKeepsK ==
  ASSUME KInv, Arrival
  PROVE  KInv' /\ Listed' = Listed
<1>1. ASSUME NEW e \in {"forward", "report"}, NEW a \in Address, Datagram(e, a)
      PROVE  KInv' /\ Listed' = Listed
  <2>1. /\ stage' = "packet" /\ UNCHANGED <<linked, configured, tableVars, lock, doomed, turn>>
        /\ Begin("main", e, a)
    BY <1>1 DEF Datagram
  <2>2. ListInv' /\ reader' \in [Reader -> Lookups]
    BY <2>1, BeginKeeps DEF KInv, Reader
  <2>3. Listed' = Listed
    BY <2>1, ListedIsReach DEF tableVars
  <2> QED
    BY <2>1, <2>2, <2>3 DEF KInv, Typed, NothingStarted, Stage, Handshake, tableVars
<1>2. ASSUME NEW a \in Address, SweepReports(a)
      PROVE  KInv' /\ Listed' = Listed
  <2>1. /\ stage \notin Handshake /\ UNCHANGED <<sessionVars, tableVars, lock, doomed, turn>>
        /\ Begin("sweep", "report", a)
    BY <1>2 DEF SweepReports, Up, Handshake
  <2>2. ListInv' /\ reader' \in [Reader -> Lookups]
    BY <2>1, BeginKeeps DEF KInv, Reader
  <2>3. Listed' = Listed
    BY <2>1, ListedIsReach DEF tableVars
  <2> QED
    BY <2>1, <2>2, <2>3 DEF KInv, Typed, NothingStarted, Handshake, tableVars, sessionVars
<1>3. CASE Response
  <2>1. /\ stage' = "packet"
        /\ UNCHANGED <<linked, configured, tableVars, lock, doomed, turn, reader>>
    BY <1>3 DEF Response
  <2>2. ListInv' /\ Listed' = Listed
    BY <2>1, ListLeftAlone DEF KInv, tableVars
  <2> QED
    BY <2>1, <2>2 DEF KInv, Typed, NothingStarted, Stage, Handshake, tableVars
<1>4. CASE StartToCollect
  <2>1. /\ lock' = "collector" /\ UNCHANGED <<sessionVars, tableVars, turn, reader>>
        /\ doomed' \subseteq Listed
    BY <1>4 DEF StartToCollect
  <2>2. ListInv' /\ Listed' = Listed
    BY <2>1, ListLeftAlone DEF KInv, tableVars
  <2>3. Listed \subseteq Node
    BY ListedRows DEF KInv, ListInv, ListHolds
  <2> QED
    BY <2>1, <2>2, <2>3 DEF KInv, Typed, NothingStarted, tableVars, sessionVars, Changer
<1>5. CASE Connect
  <2>1. /\ lock' = "advertiser" /\ turn' = 1 /\ stage \notin Handshake
        /\ UNCHANGED <<sessionVars, tableVars, doomed, reader>>
    BY <1>5 DEF Connect, Up, Handshake
  <2>2. ListInv' /\ Listed' = Listed
    BY <2>1, ListLeftAlone DEF KInv, tableVars
  <2>3. 1 \in 0 .. NUM_IF + 1
    BY SessionAssumption
  <2> QED
    BY <2>1, <2>2, <2>3 DEF KInv, Typed, NothingStarted, tableVars, sessionVars, Changer
<1> QED
  BY <1>1, <1>2, <1>3, <1>4, <1>5 DEF Arrival

LEMMA LookupKeepsK ==
  ASSUME IInv, KInv, NEW t \in Reader, LookupStep(t)
  PROVE  KInv' /\ Listed' = Listed
<1>1. UNCHANGED <<linked, configured, tableVars, lock, doomed, turn>>
  BY DEF LookupStep, LookAt, UseRoute, NoWayBack, Misread, Silent, NoRoute, sessionVars
<1>2. stage' \in Stage /\ stage' \notin Handshake
  BY DEF LookupStep, LookAt, UseRoute, NoWayBack, Misread, Silent, NoRoute, Over, Found, Looking,
         Up, Handshake, sessionVars, Stage, KInv, Typed
<1>3. ListInv' /\ reader' \in [Reader -> Lookups]
  <2>1. CASE LookAt(t)
    BY <2>1, LookAtKeeps DEF KInv, IInv
  <2>2. CASE Misread(t)
    <3>1. UNCHANGED <<head, next, memory, victim, reader>>
      BY <2>2 DEF Misread, tableVars
    <3> QED
      BY <3>1, ListLeftAlone DEF KInv, Typed
  <2>3. ASSUME NEW a \in Address, NoRoute(a)
        PROVE  ListInv' /\ reader' \in [Reader -> Lookups]
    <3>1. Begin("main", "report", a) /\ "main" \in Reader
      BY <2>3 DEF NoRoute, Reader
    <3> QED
      BY <1>1, <3>1, BeginKeeps DEF KInv
  <2>4. CASE UseRoute(t) \/ NoWayBack(t) \/ (t = "main" /\ Silent)
    <3>1. reader' = [reader EXCEPT ![t] = NoLookup]
      BY <2>4 DEF UseRoute, NoWayBack, Silent, Over
    <3> QED
      BY <1>1, <3>1, OverKeeps DEF KInv
  <2> QED
    BY <2>1, <2>2, <2>3, <2>4 DEF LookupStep
<1>4. Listed' = Listed
  BY <1>1, ListedIsReach DEF tableVars
<1> QED
  BY <1>1, <1>2, <1>3, <1>4 DEF KInv, Typed, NothingStarted, tableVars

LEMMA MainKeepsK ==
  ASSUME IInv, KInv, MainWaits \/ RouteLearned
  PROVE  KInv'
<1>1. ASSUME NEW p, UpdateRoute(p) \/ IgnoreRoute(p)
      PROVE  KInv'
  <2>1. /\ stage' = "loop"
        /\ UNCHANGED <<linked, configured, head, next, memory, victim, lock, doomed, turn, reader>>
    BY <1>1 DEF UpdateRoute, IgnoreRoute, tableVars
  <2>2. ListInv'
    BY <2>1, ListLeftAlone DEF KInv
  <2> QED
    BY <2>1, <2>2 DEF KInv, Typed, NothingStarted, Stage, Handshake
<1>2. ASSUME NEW p, LearnRoute(p)
      PROVE  KInv'
  <2>1. PICK late \in Late : LinkRow(p, LearnedRow(late))
    BY <1>2 DEF LearnRoute
  <2>2. stage \notin Handshake /\ lock' = "main" /\ UNCHANGED <<sessionVars, doomed, turn, reader>>
    BY <1>2 DEF LearnRoute, MainAcquires, Handshake
  <2>3. /\ ListInv' /\ victim' \in Node
        /\ head' \in Node \cup {NULL} /\ next' \in [Node -> Node \cup {NULL}]
    BY <2>1, <2>2, LinkKeepsList DEF KInv, IInv
  <2> QED
    BY <2>2, <2>3 DEF KInv, Typed, NothingStarted, sessionVars, Changer
<1>3. CASE RouteLearned
  <2>1. /\ WriteRow /\ lock' = "none" /\ stage' = "loop"
        /\ UNCHANGED <<linked, configured, doomed, turn, reader>>
    BY <1>3 DEF RouteLearned
  <2>2. ListInv' /\ victim' = NULL /\ UNCHANGED <<head, next>>
    BY <2>1, WriteKeepsList DEF KInv, IInv, WriteRow
  <2> QED
    BY <2>1, <2>2 DEF KInv, Typed, NothingStarted, Stage, Handshake
<1> QED
  BY <1>1, <1>2, <1>3 DEF MainWaits

LEMMA CollectorKeepsK ==
  ASSUME IInv, KInv, CollectorStep
  PROVE  KInv'
<1>1. CASE Collected
  <2>1. /\ lock' = "none" /\ UNCHANGED <<sessionVars, tableVars, doomed, turn, reader>>
    BY <1>1 DEF Collected
  <2>2. ListInv'
    BY <2>1, ListLeftAlone DEF KInv, tableVars
  <2> QED
    BY <2>1, <2>2 DEF KInv, Typed, NothingStarted, sessionVars, tableVars
<1>2. CASE CollectRow
  <2>1. stage \notin Handshake /\ UNCHANGED <<sessionVars, lock, turn>>
    BY <1>2 DEF CollectRow, Holds, Up, Handshake
  <2>2. ASSUME NEW n \in doomed, TakeOut(n), doomed' = doomed \ {n}
        PROVE  KInv'
    <3>1. n \in Node
      BY DEF KInv, Typed
    <3>2. ListInv' /\ next' \in [Node -> Node \cup {NULL}] /\ reader' \in [Reader -> Lookups]
      BY <2>2, <3>1, TakeOutKeepsList, OwedAfterTakeOut DEF KInv, IInv
    <3>3. victim' = n /\ head' = head
      BY <2>2 DEF TakeOut
    <3> QED
      BY <2>1, <2>2, <3>1, <3>2, <3>3 DEF KInv, Typed, NothingStarted, sessionVars
  <2>3. ASSUME FinishTakeOut, UNCHANGED <<reader, doomed>>
        PROVE  KInv'
    <3>1. ListInv' /\ head' \in Node \cup {NULL} /\ next' \in [Node -> Node \cup {NULL}]
      BY <2>3, FinishKeepsList DEF KInv, IInv
    <3>2. victim' = NULL
      BY <2>3 DEF FinishTakeOut
    <3> QED
      BY <2>1, <2>3, <3>1, <3>2 DEF KInv, Typed, NothingStarted, sessionVars
  <2> QED
    BY <1>2, <2>2, <2>3 DEF CollectRow
<1> QED
  BY <1>1, <1>2 DEF CollectorStep

LEMMA AdvertiserKeepsK ==
  ASSUME IInv, KInv, AdvertiserStep
  PROVE  KInv'
<1>1. CASE Replace
  <2>1. stage \notin Handshake /\ UNCHANGED <<sessionVars, lock, doomed, turn>>
    BY <1>1 DEF Replace, Holds, Up, Handshake
  <2>2. ASSUME NEW n \in RowsOf(NetOf[turn]), TakeOut(n)
        PROVE  KInv'
    <3>1. n \in Node
      BY ListedRows DEF KInv, ListInv, ListHolds, RowsOf
    <3>2. ListInv' /\ next' \in [Node -> Node \cup {NULL}] /\ reader' \in [Reader -> Lookups]
      BY <2>2, <3>1, TakeOutKeepsList, OwedAfterTakeOut DEF KInv, IInv
    <3>3. victim' = n /\ head' = head
      BY <2>2 DEF TakeOut
    <3> QED
      BY <2>1, <3>1, <3>2, <3>3 DEF KInv, Typed, NothingStarted, sessionVars
  <2>3. ASSUME FinishTakeOut, UNCHANGED reader
        PROVE  KInv'
    <3>1. ListInv' /\ head' \in Node \cup {NULL} /\ next' \in [Node -> Node \cup {NULL}]
      BY <2>3, FinishKeepsList DEF KInv, IInv
    <3>2. victim' = NULL
      BY <2>3 DEF FinishTakeOut
    <3> QED
      BY <2>1, <2>3, <3>1, <3>2 DEF KInv, Typed, NothingStarted, sessionVars
  <2> QED
    BY <1>1, <2>2, <2>3 DEF Replace
<1>2. CASE Install
  <2>1. /\ stage \notin Handshake /\ turn <= configured
        /\ UNCHANGED <<sessionVars, lock, doomed, reader>>
    BY <1>2 DEF Install, Holds, Up, Handshake
  <2>2. ASSUME LinkRow(NetOf[turn], FixedRow), UNCHANGED turn
        PROVE  KInv'
    <3>1. /\ ListInv' /\ victim' \in Node
          /\ head' \in Node \cup {NULL} /\ next' \in [Node -> Node \cup {NULL}]
      BY <2>1, <2>2, LinkKeepsList DEF KInv, IInv
    <3> QED
      BY <2>1, <2>2, <3>1 DEF KInv, Typed, NothingStarted, sessionVars
  <2>3. ASSUME WriteRow, turn' = turn + 1
        PROVE  KInv'
    <3>1. ListInv' /\ victim' = NULL /\ UNCHANGED <<head, next>>
      BY <2>1, <2>3, WriteKeepsList DEF KInv, IInv, WriteRow
    <3>2. turn' \in 0 .. NUM_IF + 1
      BY <2>1, <2>3, SessionAssumption DEF KInv, Typed
    <3> QED
      BY <2>1, <3>1, <3>2 DEF KInv, Typed, NothingStarted, sessionVars
  <2> QED
    BY <1>2, <2>2, <2>3 DEF Install
<1>3. CASE MisreadInterface
  <2>1. /\ stage' = "undefined"
        /\ UNCHANGED <<linked, configured, tableVars, lock, doomed, turn, reader>>
    BY <1>3 DEF MisreadInterface
  <2>2. ListInv'
    BY <2>1, ListLeftAlone DEF KInv, tableVars
  <2> QED
    BY <2>1, <2>2 DEF KInv, Typed, NothingStarted, tableVars, Stage, Handshake
<1>4. CASE Connected
  <2>1. lock' = "none" /\ UNCHANGED <<sessionVars, tableVars, doomed, turn, reader>>
    BY <1>4 DEF Connected
  <2>2. ListInv'
    BY <2>1, ListLeftAlone DEF KInv, tableVars
  <2> QED
    BY <2>1, <2>2 DEF KInv, Typed, NothingStarted, sessionVars, tableVars
<1> QED
  BY <1>1, <1>2, <1>3, <1>4 DEF AdvertiserStep

LEMMA ClockKeepsK ==
  ASSUME KInv, TimeoutPass \/ Tick \/ UNCHANGED vars
  PROVE  KInv' /\ Listed' = Listed
<1>1. UNCHANGED <<sessionVars, head, next, memory, victim, lock, doomed, turn, reader>>
  BY DEF TimeoutPass, Tick, vars, tableVars
<1>2. ListInv' /\ Listed' = Listed
  BY <1>1, ListLeftAlone DEF KInv
<1> QED
  BY <1>1, <1>2 DEF KInv, Typed, NothingStarted, sessionVars

LEMMA InitK ==
  ASSUME Init
  PROVE  KInv /\ Listed = {}
<1> DEFINE s == [i \in 1 .. 0 |-> head]
<1>1. s \in [1 .. 0 -> Node] /\ 0 \in Nat
  OBVIOUS
<1>2. IsList(head, next, 0, s)
  BY DEF Init, IsList
<1>3. \A t \in Reader : Walks(reader[t], 0, s)
  <2>1. NoLookup.best = NULL /\ NoLookup.owed = NULL
    BY DEF NoLookup, Lookup
  <2>2. \A t \in Reader : reader[t] = NoLookup
    BY DEF Init
  <2> QED
    BY <2>1, <2>2 DEF Walks
<1>4. ListHolds(0, s)
  <2>1. \A i \in 1 .. 0 : FALSE
    OBVIOUS
  <2>2. victim = NULL /\ \A n \in Node : next[n] = NULL
    BY DEF Init
  <2> HIDE DEF s
  <2> QED
    BY <1>2, <1>3, <2>1, <2>2 DEF ListHolds
<1>5. Typed /\ NothingStarted
  BY NoLookupTyped, SessionAssumption DEF Init, SessionInit, Typed, NothingStarted, Stage, Handshake
<1>6. Listed = {}
  <2>1. Listed = {s[i] : i \in 1 .. 0}
    <3> HIDE DEF s
    <3> QED
      BY <1>1, <1>2, <1>5, ListedRows
  <2> QED
    BY <2>1
<1> HIDE DEF s
<1> QED
  BY <1>1, <1>4, <1>5, <1>6 DEF KInv, ListInv

\* The routing table stays a list, and every lookup on its way to what it is owed.
THEOREM ListInvariance == Spec => [](IInv /\ KInv)
<1>1. Init => KInv
  BY InitK
<1>2. IInv /\ KInv /\ [Next]_vars => KInv'
  BY SessionKeepsK, StartKeepsK, ArrivalKeepsK, LookupKeepsK, MainKeepsK, CollectorKeepsK,
     AdvertiserKeepsK, ClockKeepsK DEF Next
<1> QED
  BY <1>1, <1>2, Invariance, PTL DEF Spec

\* The routing table is a list of written rows, but for the row the holder of the
\* lock has under its hands, and every thread, timer and lookup is where it may be:
\* for every table of static routes, however many rows and however they are changed.
THEOREM Typing == Spec => []TypeOK
<1>1. IInv /\ KInv => TypeOK
  <2> SUFFICES ASSUME IInv, KInv
               PROVE  TypeOK
    OBVIOUS
  <2>1. \A n \in Listed : memory[n] = "row" \/ n = victim
    BY ListedRows DEF KInv, ListInv, ListHolds
  <2> QED
    BY <2>1 DEF TypeOK, IInv, Rows, KInv, Typed, Lookups
<1> QED
  BY <1>1, ListInvariance, PTL

\* A lookup without the lock passes over no row that stays and would have been a
\* longer match than what it finds: for any table and any changes of it, also those
\* that free the row it stands on.
THEOREM NoRowMissed == Spec => []NoStayingRowMissed
<1>1. IInv /\ KInv => NoStayingRowMissed
  <2> SUFFICES ASSUME KInv, NEW t \in Reader, Found(t)
               PROVE  /\ reader[t].owed # NULL => reader[t].mask >= MaskOf(reader[t].owed)
                      /\ reader[t].best # NULL /\ memory[reader[t].best] = "row"
                           => Matches(reader[t].best, reader[t].want)
    BY DEF NoStayingRowMissed
  <2>0. PICK k \in Nat : \E s \in [1 .. k -> Node] : ListHolds(k, s)
    BY DEF KInv, ListInv
  <2>1. PICK s \in [1 .. k -> Node] : ListHolds(k, s)
    BY <2>0
  <2>2. Walks(reader[t], k, s) /\ reader[t].here = NULL
    BY <2>1 DEF ListHolds, Found
  <2> QED
    BY <2>2 DEF Walks, Ahead
<1> QED
  BY <1>1, ListInvariance, PTL

-----------------------------------------------------------------------------
(***************************************************************************)
(* Direct routes.                                                           *)
(***************************************************************************)
\* n is the only route to p, it was not learned and it is valid
IsDirect(n, p) == RowsOf(p) = {n} /\ row[n].valid /\ ~row[n].learned

\* the row the advertiser is about to write is all there is of its network
RawIsDirect ==
  lock = "advertiser" /\ victim # NULL /\ memory[victim] = "raw" =>
    turn <= configured /\ IsDirect(victim, NetOf[turn])

DInv == DirectRoutesStay /\ RawIsDirect

\* The steps at which the advertiser does not go on to the next interface.
LEMMA DirectKept ==
  ASSUME DirectRoutesStay, turn' = turn,
         \A p : Replacing(p) => Replacing(p)',
         \A i \in 1 .. turn - 1 : \A n \in Node :
           ~Replacing(NetOf[i])' /\ IsDirect(n, NetOf[i]) => IsDirect(n, NetOf[i])'
  PROVE  DirectRoutesStay'
  BY DEF DirectRoutesStay, IsDirect

LEMMA SameRows ==
  ASSUME NEW p, Listed' = Listed
  PROVE  RowsOf(p)' = RowsOf(p)
  BY DEF RowsOf

\* Steps of others than the advertiser that leave the list and what was not
\* learned alone.
LEMMA DirectLeftAlone ==
  ASSUME DInv, Listed' = Listed, UNCHANGED <<memory, victim, turn>>,
         lock = "advertiser" <=> lock' = "advertiser", configured' \in Nat, configured \in Nat,
         turn \in Nat, configured <= configured',
         \A n \in Node : row[n].valid /\ ~row[n].learned => row'[n].valid /\ ~row'[n].learned,
         victim \in Node \cup {NULL}
  PROVE  DInv'
<1>1. \A n \in Node : \A p : IsDirect(n, p) => IsDirect(n, p)'
  BY SameRows DEF IsDirect
<1>2. \A p : Replacing(p) => Replacing(p)'
  BY DEF Replacing
<1>3. DirectRoutesStay'
  BY <1>1, <1>2, DirectKept DEF DInv
<1>4. RawIsDirect'
  BY <1>1 DEF DInv, RawIsDirect
<1> QED
  BY <1>3, <1>4 DEF DInv

LEMMA InterfacesTyped ==
  ASSUME Typed
  PROVE  configured \in Nat /\ linked \in Nat /\ turn \in Nat /\ configured <= linked
  BY SessionAssumption DEF Typed

LEMMA TakenOutOfRows ==
  ASSUME NEW n, NEW p, NEW d, Listed' \subseteq Listed, Listed \ {n} \subseteq Listed',
         IsDirect(d, p), d # n, row'[d] = row[d]
  PROVE  IsDirect(d, p)'
  BY DEF IsDirect, RowsOf

LEMMA SessionKeepsD ==
  ASSUME KInv, DInv, Session
  PROVE  DInv'
<1>1. configured' \in Nat /\ configured <= configured'
  BY InterfacesTyped
  DEF Session, SessionStep, AuthRequest, AuthRefused, AskForTemplate, NoTable, BreakOff,
      EndOfStream, HwInfo, AddInterface, SetInterface, KInv
<1>2. UNCHANGED <<memory, victim, row, lock, turn>> /\ Listed' = Listed
  BY SessionKeepsK DEF Session, tableVars
<1>3. victim \in Node \cup {NULL} /\ configured \in Nat /\ turn \in Nat
  BY InterfacesTyped DEF KInv, Typed
<1> QED
  BY <1>1, <1>2, <1>3, DirectLeftAlone

LEMMA StartKeepsD ==
  ASSUME IInv, KInv, DInv, Start
  PROVE  DInv'
<1>1. stage \in Handshake /\ UNCHANGED <<lock, turn>>
  BY DEF Start, Started, Handshake
<1>2. turn = 0 /\ lock = "none"
  BY <1>1 DEF IInv, NothingYet, KInv, NothingStarted
<1> QED
  BY <1>1, <1>2 DEF DInv, DirectRoutesStay, RawIsDirect

LEMMA ArrivalKeepsD ==
  ASSUME IInv, KInv, DInv, Arrival
  PROVE  DInv'
<1>0. /\ victim \in Node \cup {NULL} /\ configured \in Nat /\ turn \in Nat
      /\ Listed' = Listed
  BY InterfacesTyped, ArrivalKeepsK DEF KInv, Typed
<1>1. CASE Connect
  <2>1. /\ lock = "none" /\ turn' = 1 /\ UNCHANGED tableVars
    BY <1>1 DEF Connect
  <2>2. victim' = NULL
    BY <2>1 DEF tableVars, IInv, VictimIsLocked
  <2> QED
    BY <2>1, <2>2 DEF DInv, DirectRoutesStay, RawIsDirect
<1>2. CASE ~Connect
  <2>1. /\ UNCHANGED <<configured, memory, victim, row, turn>>
        /\ lock = "advertiser" <=> lock' = "advertiser"
    BY <1>2 DEF Arrival, Datagram, SweepReports, Response, StartToCollect, tableVars, sessionVars
  <2> QED
    BY <1>0, <2>1, DirectLeftAlone
<1> QED
  BY <1>1, <1>2

LEMMA LookupKeepsD ==
  ASSUME IInv, KInv, DInv, NEW t \in Reader, LookupStep(t)
  PROVE  DInv'
<1>1. UNCHANGED <<configured, row, memory, victim, lock, turn>>
  BY DEF LookupStep, LookAt, UseRoute, NoWayBack, Misread, Silent, NoRoute, sessionVars, tableVars
<1>2. /\ victim \in Node \cup {NULL} /\ configured \in Nat /\ turn \in Nat
      /\ Listed' = Listed
  BY InterfacesTyped, LookupKeepsK DEF KInv, Typed
<1> QED
  BY <1>1, <1>2, DirectLeftAlone

LEMMA ClockKeepsD ==
  ASSUME IInv, KInv, DInv, TimeoutPass \/ Tick \/ UNCHANGED vars
  PROVE  DInv'
<1>1. UNCHANGED <<configured, memory, victim, lock, turn>>
  BY DEF TimeoutPass, Tick, vars, tableVars, sessionVars
<1>2. /\ victim \in Node \cup {NULL} /\ configured \in Nat /\ turn \in Nat
      /\ Listed' = Listed
  BY InterfacesTyped, ClockKeepsK DEF KInv, Typed
<1>3. ASSUME NEW n \in Node, row[n].valid, ~row[n].learned
      PROVE  row'[n].valid /\ ~row'[n].learned
  <2>0. row[n] \in Row
    BY DEF IInv, Rows
  <2>1. CASE TimeoutPass
    <3>1. PICK late \in Late : \E S \in SUBSET {m \in Listed : TimedOut(row[m], late)} :
            row' = [m \in Node |->
              IF m \in S THEN [row[m] EXCEPT !.valid = FALSE, !.age = late] ELSE row[m]]
      BY <2>1 DEF TimeoutPass
    <3>2. ~TimedOut(row[n], late)
      BY <1>3 DEF TimedOut
    <3>3. row'[n] = row[n]
      BY <3>1, <3>2
    <3> QED
      BY <1>3, <3>3
  <2>2. CASE Tick
    <3>1. row'[n] = row[n] \/ row'[n] = [row[n] EXCEPT !.age = Older(@)]
      BY <2>2 DEF Tick
    <3> QED
      BY <1>3, <2>0, <3>1 DEF Row
  <2>3. CASE UNCHANGED vars
    BY <1>3, <2>3 DEF vars, tableVars
  <2> QED
    BY <2>1, <2>2, <2>3
<1> QED
  BY <1>1, <1>2, <1>3, DirectLeftAlone

\* What main learns is not the network of an interface the advertiser has been at.
LEMMA MainKeepsD ==
  ASSUME IInv, KInv, DInv, MainWaits \/ RouteLearned
  PROVE  DInv'
<1>0. /\ victim \in Node \cup {NULL} /\ configured \in Nat /\ turn \in Nat
  BY InterfacesTyped DEF KInv, Typed
<1>1. ASSUME NEW p, UpdateRoute(p)
      PROVE  DInv'
  <2>1. UNCHANGED <<configured, head, next, memory, victim, lock, turn>>
    BY <1>1 DEF UpdateRoute
  <2>2. PICK m \in RowsOf(p), late \in Late :
          \E r \in Updated(row[m], late) : row' = [row EXCEPT ![m] = r]
    BY <1>1 DEF UpdateRoute
  <2>3. ASSUME NEW n \in Node, row[n].valid, ~row[n].learned
        PROVE  row'[n].valid /\ ~row'[n].learned
    <3>1. n = m => \A r \in Updated(row[m], late) : r = row[n]
      BY <2>3 DEF Updated
    <3> QED
      BY <2>2, <2>3, <3>1 DEF IInv, Rows
  <2>4. Listed' = Listed
    BY <2>1, ListedIsReach
  <2> QED
    BY <1>0, <2>1, <2>3, <2>4, DirectLeftAlone
<1>2. ASSUME NEW p, IgnoreRoute(p)
      PROVE  DInv'
  <2>1. UNCHANGED <<configured, tableVars, lock, turn>>
    BY <1>2 DEF IgnoreRoute
  <2>2. Listed' = Listed
    BY <2>1, ListedIsReach DEF tableVars
  <2> QED
    BY <1>0, <2>1, <2>2, DirectLeftAlone DEF tableVars
<1>3. ASSUME NEW p, LearnRoute(p)
      PROVE  DInv'
  <2>1. /\ RowsOf(p) = {} /\ lock = "none" /\ lock' = "main"
        /\ UNCHANGED <<sessionVars, turn, reader>>
    BY <1>3 DEF LearnRoute, MainAcquires
  <2>2. PICK late \in Late : LinkRow(p, LearnedRow(late))
    BY <1>3 DEF LearnRoute
  <2>3. /\ victim' \in Node /\ PrefixOf(victim') = p
        /\ row' = [row EXCEPT ![victim'] = LearnedRow(late)]
        /\ Listed' = Listed \cup {victim'}
    BY <2>1, <2>2, LinkKeepsList DEF KInv, IInv
  <2>4. ASSUME NEW q, NEW n \in Node, IsDirect(n, q)
        PROVE  IsDirect(n, q)'
    <3>1. q # p /\ n \in RowsOf(q)
      BY <2>1, <2>4 DEF IsDirect
    <3>2. RowsOf(q)' = RowsOf(q)
      BY <2>3, <3>1 DEF RowsOf
    <3>3. row'[n] = row[n]
      BY <2>3, <3>1 DEF RowsOf, IInv, Rows
    <3> QED
      BY <2>4, <3>2, <3>3 DEF IsDirect
  <2>5. DirectRoutesStay'
    BY <2>1, <2>4, DirectKept DEF DInv, Replacing
  <2> QED
    BY <2>1, <2>5 DEF DInv, RawIsDirect
<1>4. CASE RouteLearned
  <2>1. /\ WriteRow /\ lock = "main" /\ lock' = "none"
        /\ UNCHANGED <<configured, turn, reader>>
    BY <1>4 DEF RouteLearned, Holds
  <2>2. Listed' = Listed /\ row' = row
    BY <2>1, WriteKeepsList DEF KInv, IInv, WriteRow
  <2>3. DirectRoutesStay'
    <3>1. \A n \in Node : \A q : IsDirect(n, q) => IsDirect(n, q)'
      BY <2>2, SameRows DEF IsDirect
    <3> QED
      BY <2>1, <3>1, DirectKept DEF DInv, Replacing
  <2> QED
    BY <2>1, <2>3 DEF DInv, RawIsDirect
<1> QED
  BY <1>1, <1>2, <1>3, <1>4 DEF MainWaits

\* A direct route is not dead: the collector has not chosen it.
LEMMA CollectorKeepsD ==
  ASSUME IInv, KInv, DInv, CollectorStep
  PROVE  DInv'
<1>1. lock = "collector" /\ UNCHANGED <<configured, turn>> /\ lock' # "advertiser"
  BY DEF CollectorStep, CollectRow, Collected, Holds, sessionVars
<1>2. RawIsDirect' /\ \A p : ~Replacing(p)
  BY <1>1 DEF RawIsDirect, Replacing
<1>3. ASSUME NEW n \in Node, NEW p, IsDirect(n, p)
      PROVE  IsDirect(n, p)'
  <2>0. ~Expired(n)
    BY <1>3 DEF IsDirect, Expired
  <2>1. CASE Collected
    <3>1. Listed' = Listed /\ row' = row
      BY <2>1, ListedIsReach DEF Collected, tableVars
    <3> QED
      BY <1>3, <3>1, SameRows DEF IsDirect
  <2>2. ASSUME NEW m \in doomed, TakeOut(m)
        PROVE  IsDirect(n, p)'
    <3>1. m \in Node /\ m # n
      BY <1>1, <2>0 DEF KInv, Typed, IInv, DoomedAreDead
    <3>2. Listed' \subseteq Listed /\ Listed \ {m} \subseteq Listed' /\ row' = row
      BY <2>2, <3>1, TakeOutKeepsList DEF KInv, IInv, TakeOut
    <3> QED
      BY <1>3, <3>1, <3>2, TakenOutOfRows
  <2>3. ASSUME FinishTakeOut, UNCHANGED reader
        PROVE  IsDirect(n, p)'
    <3>1. n # victim
      BY <1>1, <2>0 DEF IInv, DoomedAreDead
    <3>2. Listed' = Listed \ {victim} /\ row'[n] = row[n]
      BY <2>3, <3>1, FinishKeepsList, FinishRows DEF KInv, IInv
    <3> QED
      BY <1>3, <3>1, <3>2, TakenOutOfRows
  <2> QED
    BY <2>1, <2>2, <2>3 DEF CollectorStep, CollectRow
<1>4. DirectRoutesStay'
  BY <1>1, <1>2, <1>3, DirectKept DEF DInv
<1> QED
  BY <1>2, <1>4 DEF DInv

\* The advertiser only touches rows of the network of its turn.
LEMMA AdvertiserKeepsD ==
  ASSUME IInv, KInv, DInv, AdvertiserStep
  PROVE  DInv'
<1>0. /\ victim \in Node \cup {NULL} /\ configured \in Nat /\ linked \in Nat /\ turn \in Nat
      /\ configured <= linked
  BY InterfacesTyped DEF KInv, Typed
<1>1. CASE Replace
  <2>1. lock = "advertiser" /\ turn <= configured /\ UNCHANGED <<configured, lock, turn>>
    BY <1>1 DEF Replace, Holds, sessionVars
  <2>2. \A p : Replacing(p)' <=> Replacing(p)
    BY <2>1 DEF Replacing
  <2>3. ASSUME NEW n \in RowsOf(NetOf[turn]), TakeOut(n)
        PROVE  DInv'
    <3>1. n \in Node /\ PrefixOf(n) = NetOf[turn]
      BY ListedRows DEF KInv, ListInv, ListHolds, RowsOf
    <3>2. /\ Listed' \subseteq Listed /\ Listed \ {n} \subseteq Listed' /\ n \in Listed
          /\ row' = row /\ victim' = n
      BY <2>3, <3>1, TakeOutKeepsList DEF KInv, IInv, TakeOut
    <3>3. ASSUME NEW i \in 1 .. turn - 1, NEW d \in Node,
                 ~Replacing(NetOf[i])', IsDirect(d, NetOf[i])
          PROVE  IsDirect(d, NetOf[i])'
      <4>1. NetOf[i] # NetOf[turn]
        BY <2>1, <2>2, <3>3 DEF Replacing
      <4>2. d # n
        BY <3>1, <3>3, <4>1 DEF IsDirect, RowsOf
      <4> QED
        BY <3>2, <3>3, <4>2, TakenOutOfRows
    <3>4. DirectRoutesStay'
      BY <2>1, <2>2, <3>3, DirectKept DEF DInv
    <3>5. memory'[n] # "raw"
      <4>1. victim = NULL
        BY <2>3 DEF TakeOut
      <4>2. memory[n] = "row"
        BY <3>1, <3>2, <4>1, ListedRows, NullIsNoNode DEF KInv, ListInv, ListHolds
      <4> QED
        BY <2>3, <3>1, <4>2 DEF TakeOut, IInv, Rows
    <3> QED
      BY <3>2, <3>4, <3>5 DEF DInv, RawIsDirect
  <2>4. ASSUME FinishTakeOut, UNCHANGED reader
        PROVE  DInv'
    <3>1. victim \in Node /\ PrefixOf(victim) = NetOf[turn] /\ victim' = NULL
      BY <1>0, <2>1, <2>4 DEF FinishTakeOut, IInv, ReplacedIsOfTurn
    <3>2. Listed' = Listed \ {victim} /\ \A d \in Node \ {victim} : row'[d] = row[d]
      BY <2>4, FinishKeepsList, FinishRows DEF KInv, IInv
    <3>3. ASSUME NEW i \in 1 .. turn - 1, NEW d \in Node,
                 ~Replacing(NetOf[i])', IsDirect(d, NetOf[i])
          PROVE  IsDirect(d, NetOf[i])'
      <4>1. NetOf[i] # NetOf[turn]
        BY <2>1, <2>2, <3>3 DEF Replacing
      <4>2. d # victim
        BY <3>1, <3>3, <4>1 DEF IsDirect, RowsOf
      <4> QED
        BY <3>2, <3>3, <4>2, TakenOutOfRows
    <3>4. DirectRoutesStay'
      BY <2>1, <2>2, <3>3, DirectKept DEF DInv
    <3> QED
      BY <3>1, <3>4 DEF DInv, RawIsDirect
  <2> QED
    BY <1>1, <2>3, <2>4 DEF Replace
<1>2. CASE Install
  <2>1. lock = "advertiser" /\ turn <= configured /\ UNCHANGED <<configured, lock, reader>>
    BY <1>2 DEF Install, Holds, sessionVars
  <2>2. ASSUME RowsOf(NetOf[turn]) = {}, LinkRow(NetOf[turn], FixedRow), UNCHANGED turn
        PROVE  DInv'
    <3>1. /\ victim' \in Node /\ PrefixOf(victim') = NetOf[turn]
          /\ row' = [row EXCEPT ![victim'] = FixedRow]
          /\ Listed' = Listed \cup {victim'} /\ victim' \notin Listed
      BY <2>1, <2>2, LinkKeepsList DEF KInv, IInv
    <3>2. ASSUME NEW i \in 1 .. turn - 1, NEW d \in Node,
                 ~Replacing(NetOf[i])', IsDirect(d, NetOf[i])
          PROVE  IsDirect(d, NetOf[i])'
      <4>1. NetOf[i] # NetOf[turn] /\ d \in Listed
        BY <2>2, <3>2 DEF IsDirect, RowsOf
      <4>2. RowsOf(NetOf[i])' = RowsOf(NetOf[i])
        BY <3>1, <4>1 DEF RowsOf
      <4>3. row'[d] = row[d]
        BY <3>1, <4>1 DEF IInv, Rows
      <4> QED
        BY <3>2, <4>2, <4>3 DEF IsDirect
    <3>3. DirectRoutesStay'
      <4>1. \A p : Replacing(p)' <=> Replacing(p)
        BY <2>1, <2>2 DEF Replacing
      <4> QED
        BY <2>2, <3>2, <4>1, DirectKept DEF DInv
    <3>4. IsDirect(victim, NetOf[turn])'
      <4>1. RowsOf(NetOf[turn])' = {victim'}
        BY <2>2, <3>1 DEF RowsOf
      <4>2. row'[victim'] = FixedRow
        BY <3>1 DEF IInv, Rows
      <4> QED
        BY <4>1, <4>2 DEF IsDirect, FixedRow
    <3> QED
      BY <2>1, <2>2, <3>3, <3>4 DEF DInv, RawIsDirect
  <2>3. ASSUME WriteRow, turn' = turn + 1
        PROVE  DInv'
    <3>1. Listed' = Listed /\ row' = row /\ victim' = NULL /\ victim \in Node
          /\ memory[victim] = "raw"
      BY <1>0, <2>1, <2>3, WriteKeepsList DEF KInv, IInv, WriteRow
    <3>2. IsDirect(victim, NetOf[turn])
      BY <2>1, <3>1, NullIsNoNode DEF DInv, RawIsDirect
    <3>3. \A n, p : IsDirect(n, p) => IsDirect(n, p)'
      BY <3>1, SameRows DEF IsDirect
    <3>4. ASSUME NEW i \in 1 .. turn
          PROVE  \E n \in Node : IsDirect(n, NetOf[i])
      <4>1. CASE NetOf[i] = NetOf[turn]
        BY <3>1, <3>2, <4>1
      <4>2. CASE NetOf[i] # NetOf[turn]
        <5>1. i \in 1 .. turn - 1 /\ ~Replacing(NetOf[i])
          BY <1>0, <4>2 DEF Replacing
        <5> QED
          BY <5>1 DEF DInv, DirectRoutesStay, IsDirect
      <4> QED
        BY <4>1, <4>2
    <3>5. DirectRoutesStay'
      <4>1. \A i \in 1 .. turn' - 1 : i \in 1 .. turn
        BY <1>0, <2>3
      <4> QED
        BY <3>3, <3>4, <4>1 DEF DirectRoutesStay, IsDirect
    <3> QED
      BY <3>1, <3>5 DEF DInv, RawIsDirect
  <2> QED
    BY <1>2, <2>2, <2>3 DEF Install
<1>3. CASE MisreadInterface
  <2>1. UNCHANGED <<configured, tableVars, lock, turn>>
    BY <1>3 DEF MisreadInterface
  <2>2. Listed' = Listed
    BY <2>1, ListedIsReach DEF tableVars
  <2> QED
    BY <1>0, <2>1, <2>2, DirectLeftAlone DEF tableVars
<1>4. CASE Connected
  <2>1. /\ lock = "advertiser" /\ lock' = "none" /\ linked < turn
        /\ UNCHANGED <<configured, tableVars, turn>>
    BY <1>4 DEF Connected, Holds, sessionVars
  <2>2. Listed' = Listed
    BY <2>1, ListedIsReach DEF tableVars
  <2>3. \A p : ~Replacing(p)
    BY <1>0, <2>1 DEF Replacing
  <2>4. \A n, p : IsDirect(n, p) => IsDirect(n, p)'
    BY <2>1, <2>2, SameRows DEF IsDirect, tableVars
  <2>5. DirectRoutesStay'
    BY <2>1, <2>3, <2>4, DirectKept DEF DInv
  <2> QED
    BY <2>1, <2>5 DEF DInv, RawIsDirect
<1> QED
  BY <1>1, <1>2, <1>3, <1>4 DEF AdvertiserStep

\* Once the advertiser has been at an interface, the direct route of its network is
\* there, valid and alone, whatever neighbours answer and timers do: for any
\* interfaces, also several on one network.
THEOREM DirectRoutes == Spec => []DirectRoutesStay
<1>1. Init => DInv
  BY DEF Init, DInv, DirectRoutesStay, RawIsDirect
<1>2. IInv /\ KInv /\ DInv /\ [Next]_vars => DInv'
  BY SessionKeepsD, StartKeepsD, ArrivalKeepsD, LookupKeepsD, MainKeepsD, CollectorKeepsD,
     AdvertiserKeepsD, ClockKeepsD DEF Next
<1>3. DInv => DirectRoutesStay
  BY DEF DInv
<1> QED
  BY <1>1, <1>2, <1>3, ListInvariance, PTL DEF Spec
=============================================================================
