--------------------------- MODULE RouterProcess ---------------------------
(***************************************************************************)
(* One router process at the grain of its threads: the routing table as    *)
(* the linked list it is in memory (sr_rt.c), the RIP threads that change  *)
(* it holding rip_metadata_lock (sr_rip.c), and the lookups of the main    *)
(* thread and of the ARP sweep, which hold no lock (sr_router.c).          *)
(*                                                                         *)
(* A row keeps what lookups and timers read; which neighbour offers which  *)
(* metric is RipRoute's subject. "age" counts clock turns since            *)
(* last_updated of a valid row, since garbage_collection_time of an        *)
(* invalid one. Using memory that is freed, or not written yet, is         *)
(* undefined: the model stops there.                                       *)
(***************************************************************************)
EXTENDS VnsSession, FiniteSets

CONSTANTS
  Prefix,       \* pairs of a network and a mask
  Length,       \* Length[p]: the mask of p as a number, 0 for 0.0.0.0
  Address,      \* destinations of packets
  Covers,       \* Covers[p]: the addresses p matches
  NetOf,        \* NetOf[i]: the network of interface i
  FileRow,      \* rows the file of static routes may hold
  Learnable,    \* prefixes the neighbours advertise
  COPIES,       \* bound on the rows of one prefix in memory at a time
  RIP_TIMEOUT, RIP_GARBAGE_COLLECTION,   \* in clock turns
  MAX_LATE      \* bound on the turns a thread waits for the lock

ASSUME ProcessAssumption ==
  /\ IsFiniteSet(Prefix)
  /\ Address # {}
  /\ Length \in [Prefix -> Nat]
  /\ Covers \in [Prefix -> SUBSET Address]
  /\ NetOf \in [1 .. NUM_IF -> Prefix]
  /\ FileRow \subseteq Prefix /\ Learnable \subseteq Prefix
  /\ COPIES \in Nat \ {0} /\ MAX_LATE \in Nat
  /\ RIP_TIMEOUT \in Nat /\ RIP_GARBAGE_COLLECTION \in Nat

\* The addresses of rows. An address serves one prefix only, and not again while a
\* lookup points to it (see Fresh): nobody can tell.
Node == Prefix \X (1 .. COPIES)
NULL == <<>>

PrefixOf(n) == n[1]

\* an age beyond both timers decides nothing more
MAX_AGE ==
  (IF RIP_TIMEOUT > RIP_GARBAGE_COLLECTION THEN RIP_TIMEOUT ELSE RIP_GARBAGE_COLLECTION)
    + MAX_LATE + 1

\* the threads that keep the lock for more than a step, and those that walk the
\* table without it
Changer == {"main", "advertiser", "collector"}
Reader  == {"main", "sweep"}

Row == [learned : BOOLEAN, valid : BOOLEAN, age : 0 .. MAX_AGE]

FixedRow        == [learned |-> FALSE, valid |-> TRUE, age |-> 0]
LearnedRow(age) == [learned |-> TRUE, valid |-> TRUE, age |-> age]

VARIABLES
  head,     \* sr->routing_table
  next,     \* next[n]: the row after n
  row,      \* row[n]: what is, or is about to be, written in n
  memory,   \* memory[n]: "free", "raw" (linked, not written yet) or "row"
  victim,   \* the row the holder of the lock is linking or taking out, or NULL
  lock,     \* the thread in rip_metadata_lock, or "none"
  doomed,   \* the rows the collector has yet to take out in this pass
  turn,     \* the interface whose route the advertiser installs next, 0 before it wakes
  reader    \* reader[t]: the lookup of t

tableVars == <<head, next, row, memory, victim>>
vars == <<sessionVars, tableVars, lock, doomed, turn, reader>>

\* A lookup: its errand, the address, the row it stands on, the best so far with
\* its mask, and the history owed, the longest match when it began as long as that row stays.
Lookup(errand, a, here, owed) ==
  [errand |-> errand, want |-> a, here |-> here, best |-> NULL, mask |-> 0, owed |-> owed]
NoLookup == Lookup("none", CHOOSE a \in Address : TRUE, NULL, NULL)

-----------------------------------------------------------------------------
\* the rows met by following the list
Listed ==
  LET from[p \in (Node \cup {NULL}) \X (0 .. Cardinality(Node))] ==
        IF p[1] = NULL \/ p[2] = 0 THEN {} ELSE {p[1]} \cup from[<<next[p[1]], p[2] - 1>>]
  IN from[<<head, Cardinality(Node)>>]

RowsOf(p) == {n \in Listed : PrefixOf(n) = p}

MaskOf(n) == IF n = NULL THEN 0 ELSE Length[PrefixOf(n)]

Matches(n, a) == a \in Covers[PrefixOf(n)]

\* what a lookup of a should find: the match with the longest mask, a default
\* route excepted, which the strict comparison with 0 never takes
LongestMatch(a) ==
  LET matching == {n \in Listed : memory[n] = "row" /\ Matches(n, a) /\ MaskOf(n) > 0} IN
    IF matching = {} THEN NULL
    ELSE CHOOSE n \in matching : \A m \in matching : MaskOf(m) <= MaskOf(n)

\* what malloc may hand out for a row of p
Fresh(p) ==
  {n \in Node : /\ PrefixOf(n) = p /\ memory[n] = "free"
                /\ \A t \in Reader : n \notin {reader[t].here, reader[t].best}}

-----------------------------------------------------------------------------
(***************************************************************************)
(* What the holder of the lock does to the list (sr_rt.c).                  *)
(***************************************************************************)
\* sr_add_rt_entry links what malloc returns ...
LinkRow(p, r) ==
  /\ victim = NULL
  /\ Fresh(p) # {}
  /\ LET n == CHOOSE n \in Fresh(p) : \A m \in Fresh(p) : n[2] <= m[2] IN
       /\ victim' = n
       /\ memory' = [memory EXCEPT ![n] = "raw"]
       /\ row' = [row EXCEPT ![n] = r]
       /\ IF head = NULL
          THEN head' = n /\ UNCHANGED next
          ELSE /\ \E last \in Listed : next[last] = NULL /\ next' = [next EXCEPT ![last] = n]
               /\ UNCHANGED head

\* ... and writes its fields after that
WriteRow ==
  /\ victim # NULL
  /\ memory[victim] = "raw"
  /\ memory' = [memory EXCEPT ![victim] = "row"]
  /\ victim' = NULL
  /\ UNCHANGED <<head, next, row>>

Forget(n) ==
  /\ row' = [row EXCEPT ![n] = FixedRow]
  /\ next' = [next EXCEPT ![n] = NULL]

\* sr_del_rt_entry: the head is freed before the head moves, any other row is
\* taken out of the list before it is freed. Nothing is owed of it any more.
TakeOut(n) ==
  /\ victim = NULL
  /\ victim' = n
  /\ reader' = [t \in Reader |->
       IF reader[t].owed = n THEN [reader[t] EXCEPT !.owed = NULL] ELSE reader[t]]
  /\ IF n = head
     THEN memory' = [memory EXCEPT ![n] = "free"] /\ UNCHANGED next
     ELSE /\ \E prev \in Listed : next[prev] = n /\ next' = [next EXCEPT ![prev] = next[n]]
          /\ UNCHANGED memory
  /\ UNCHANGED <<head, row>>

\* Fault: the head is freed and stays the head.
FreeVictimOnly ==
  /\ victim # NULL
  /\ memory[victim] # "raw"
  /\ memory' = [memory EXCEPT ![victim] = "free"]
  /\ victim' = NULL
  /\ row' = [row EXCEPT ![victim] = FixedRow]
  /\ UNCHANGED <<head, next>>

FinishTakeOut ==
  /\ victim # NULL
  /\ memory[victim] # "raw"
  /\ memory' = [memory EXCEPT ![victim] = "free"]
  /\ head' = IF head = victim THEN next[victim] ELSE head
  /\ victim' = NULL
  /\ Forget(victim)

-----------------------------------------------------------------------------
\* sr_load_rt: the rows of the file in place of what was there, in file order
LoadTable(file) ==
  \E order \in [1 .. Cardinality(file) -> file] :
    LET size == Cardinality(file) IN
      /\ \A i, j \in 1 .. size : i # j => order[i] # order[j]
      /\ head' = IF size = 0 THEN NULL ELSE <<order[1], 1>>
      /\ next' = [n \in Node |-> IF \E i \in 1 .. size - 1 : n = <<order[i], 1>>
                                 THEN <<order[(CHOOSE i \in 1 .. size : n = <<order[i], 1>>) + 1], 1>>
                                 ELSE NULL]
      /\ memory' = [n \in Node |-> IF PrefixOf(n) \in file /\ n[2] = 1 THEN "row" ELSE "free"]
      /\ UNCHANGED <<row, victim>>

Init ==
  /\ SessionInit
  /\ head = NULL
  /\ next = [n \in Node |-> NULL]
  /\ row = [n \in Node |-> FixedRow]
  /\ memory = [n \in Node |-> "free"]
  /\ victim = NULL
  /\ lock = "none"
  /\ doomed = {}
  /\ turn = 0
  /\ reader = [t \in Reader |-> NoLookup]

\* main gets through the handshake: the table is loaded, the threads start
Start ==
  /\ Started
  /\ \E file \in SUBSET FileRow : LoadTable(file)
  /\ UNCHANGED <<lock, doomed, turn, reader>>

Session ==
  /\ SessionStep
  /\ UNCHANGED <<tableVars, lock, doomed, turn, reader>>

-----------------------------------------------------------------------------
(***************************************************************************)
(* Lookups, which hold no lock.                                             *)
(***************************************************************************)
Begin(t, errand, a) ==
  reader' = [reader EXCEPT ![t] = Lookup(errand, a, head, LongestMatch(a))]

\* the server's packets come after its VNSHWINFO
PacketComes ==
  /\ stage = "loop"
  /\ configured = NUM_IF

\* sr_handle_ip_packet: a datagram for another host, or one to be answered with
\* an ICMP error (its time is exceeded, or no port of ours is reached)
Datagram(errand, a) ==
  /\ PacketComes
  /\ stage' = "packet"
  /\ Begin("main", errand, a)
  /\ UNCHANGED <<linked, configured, tableVars, lock, doomed, turn>>

\* host_unreachable, called by the ARP sweep for a packet main has queued
SweepReports(a) ==
  /\ Up /\ configured = NUM_IF
  /\ reader["sweep"] = NoLookup
  /\ Begin("sweep", "report", a)
  /\ UNCHANGED <<sessionVars, tableVars, lock, doomed, turn>>

Holds(t) == Up /\ lock = t

Looking(t) == Up /\ reader[t].errand # "none" /\ reader[t].here # NULL
Found(t)   == Up /\ reader[t].errand # "none" /\ reader[t].here = NULL

\* Fault: the first match wins.
LookAtFirst(t) ==
  /\ Looking(t)
  /\ memory[reader[t].here] = "row"
  /\ LET n == reader[t].here
         better == Matches(n, reader[t].want) /\ MaskOf(n) > 0 /\ reader[t].best = NULL IN
       reader' = [reader EXCEPT ![t].best = IF better THEN n ELSE @, ![t].here = next[n]]
  /\ UNCHANGED <<sessionVars, tableVars, lock, doomed, turn>>

\* one turn of the loop of sr_find_longest_prefix_match. The mask of the best so
\* far is a local: the row it came from is not read again.
LookAt(t) ==
  /\ Looking(t)
  /\ memory[reader[t].here] = "row"
  /\ LET n == reader[t].here
         better == Matches(n, reader[t].want) /\ MaskOf(n) > reader[t].mask IN
       reader' = [reader EXCEPT ![t].best = IF better THEN n ELSE @,
                                ![t].mask = IF better THEN MaskOf(n) ELSE @,
                                ![t].here = next[n]]
  /\ UNCHANGED <<sessionVars, tableVars, lock, doomed, turn>>

Over(t) ==
  /\ reader' = [reader EXCEPT ![t] = NoLookup]
  /\ stage' = IF t = "main" THEN "loop" ELSE stage

\* rt->gw and rt->interface are read and the packet goes to the ARP layer
UseRoute(t) ==
  /\ Found(t)
  /\ reader[t].best # NULL
  /\ memory[reader[t].best] = "row"
  /\ Over(t)
  /\ UNCHANGED <<linked, configured, tableVars, lock, doomed, turn>>

\* no way to the sender of a packet in error: nobody is told
NoWayBack(t) ==
  /\ Found(t)
  /\ reader[t].best = NULL
  /\ reader[t].errand = "report"
  /\ Over(t)
  /\ UNCHANGED <<linked, configured, tableVars, lock, doomed, turn>>

\* no route: in the first 15 s, counted from the first such packet, it is dropped
\* (Silent), later its sender a is told
Silent ==
  /\ Found("main")
  /\ reader["main"].best = NULL
  /\ reader["main"].errand = "forward"
  /\ Over("main")
  /\ UNCHANGED <<linked, configured, tableVars, lock, doomed, turn>>

NoRoute(a) ==
  /\ Found("main")
  /\ reader["main"].best = NULL
  /\ reader["main"].errand = "forward"
  /\ Begin("main", "report", a)
  /\ UNCHANGED <<sessionVars, tableVars, lock, doomed, turn>>

\* a lookup meets memory that is freed, or that is linked and not written
Misread(t) ==
  /\ \/ Looking(t) /\ memory[reader[t].here] # "row"
     \/ Found(t) /\ reader[t].best # NULL /\ memory[reader[t].best] # "row"
  /\ stage' = "undefined"
  /\ UNCHANGED <<linked, configured, tableVars, lock, doomed, turn, reader>>

-----------------------------------------------------------------------------
(***************************************************************************)
(* The threads that change the table.                                       *)
(***************************************************************************)
\* main reads a RIP response of one entry and goes for the lock
Response ==
  /\ PacketComes
  /\ stage' = "packet"
  /\ UNCHANGED <<linked, configured, tableVars, lock, doomed, turn, reader>>

\* A thread reads the time first and then waits for the lock: when it has it, the
\* time it goes by is some turns late.
Late == 0 .. MAX_LATE

MainAcquires == stage = "packet" /\ reader["main"] = NoLookup /\ lock = "none"

\* sr_rip_update_route finds the row of p. An offer renews a row, revives it or
\* is not good enough; a withdrawal invalidates it or comes from somebody else.
\* Rows that were not learned have metric 1, which no offer beats.
Updated(r, late) ==
  IF ~r.learned THEN {r}
  ELSE {r, LearnedRow(late)}
         \cup {[r EXCEPT !.valid = FALSE, !.age = IF r.valid THEN late ELSE @]}

\* Fault: an entry that changes nothing returns without the unlock.
UpdateRouteKeepsLock(p) ==
  /\ MainAcquires
  /\ \E n \in RowsOf(p), late \in Late : \E r \in Updated(row[n], late) :
       /\ row' = [row EXCEPT ![n] = r]
       /\ lock' = IF r = row[n] THEN "main" ELSE "none"
  /\ stage' = "loop"
  /\ UNCHANGED <<linked, configured, head, next, memory, victim, doomed, turn, reader>>

UpdateRoute(p) ==
  /\ MainAcquires
  /\ \E n \in RowsOf(p), late \in Late :
       \E r \in Updated(row[n], late) : row' = [row EXCEPT ![n] = r]
  /\ stage' = "loop"
  /\ UNCHANGED <<linked, configured, head, next, memory, victim, lock, doomed, turn, reader>>

\* ... finds none, and the network is withdrawn
IgnoreRoute(p) ==
  /\ MainAcquires
  /\ RowsOf(p) = {}
  /\ stage' = "loop"
  /\ UNCHANGED <<linked, configured, tableVars, lock, doomed, turn, reader>>

\* ... or offered: a row is appended
LearnRoute(p) ==
  /\ MainAcquires
  /\ RowsOf(p) = {}
  /\ lock' = "main"
  /\ \E late \in Late : LinkRow(p, LearnedRow(late))
  /\ UNCHANGED <<sessionVars, doomed, turn, reader>>

RouteLearned ==
  /\ Holds("main")
  /\ WriteRow
  /\ lock' = "none"
  /\ stage' = "loop"
  /\ UNCHANGED <<linked, configured, doomed, turn, reader>>

\* Fault: no route is spared.
TimedOutAll(r, late) == r.valid /\ r.age > RIP_TIMEOUT + late

TimedOut(r, late) == r.learned /\ r.valid /\ r.age > RIP_TIMEOUT + late

\* a pass of sr_rip_timeout_manager that finds something: what it writes down as
\* the time of the invalidation is the time it read
TimeoutPass ==
  /\ Up
  /\ lock = "none"
  /\ \E late \in Late :
       LET expired == {n \in Listed : TimedOut(row[n], late)} IN
         /\ expired # {}
         /\ row' = [n \in Node |->
              IF n \in expired THEN [row[n] EXCEPT !.valid = FALSE, !.age = late] ELSE row[n]]
  /\ UNCHANGED <<sessionVars, head, next, memory, victim, lock, doomed, turn, reader>>

\* Fault: the operands of difftime are swapped.
DeadSwapped(r, late) == ~r.valid /\ r.age + late > RIP_GARBAGE_COLLECTION

Dead(r, late) == ~r.valid /\ r.age > RIP_GARBAGE_COLLECTION + late

\* a pass of sr_rip_garbage_collection_manager that finds something; nobody else
\* touches a row before the lock comes back
StartToCollect ==
  /\ Up
  /\ lock = "none"
  /\ \E late \in Late : doomed' = {n \in Listed : Dead(row[n], late)}
  /\ doomed' # {}
  /\ lock' = "collector"
  /\ UNCHANGED <<sessionVars, tableVars, turn, reader>>

CollectRow ==
  /\ Holds("collector")
  /\ \/ (\E n \in doomed : TakeOut(n) /\ doomed' = doomed \ {n})
     \/ FinishTakeOut /\ UNCHANGED <<reader, doomed>>
  /\ UNCHANGED <<sessionVars, lock, turn>>

Collected ==
  /\ Holds("collector")
  /\ victim = NULL
  /\ doomed = {}
  /\ lock' = "none"
  /\ UNCHANGED <<sessionVars, tableVars, doomed, turn, reader>>

\* sr_rip_periodic_advertisement, 2 s after its start: whatever interfaces there are
Connect ==
  /\ Up
  /\ turn = 0
  /\ lock = "none"
  /\ lock' = "advertiser"
  /\ turn' = 1
  /\ UNCHANGED <<sessionVars, tableVars, doomed, reader>>

\* the interface of this turn has its address: rows for its network give way ...
Replace ==
  /\ Holds("advertiser")
  /\ turn <= configured
  /\ \/ (\E n \in RowsOf(NetOf[turn]) : TakeOut(n))
     \/ FinishTakeOut /\ UNCHANGED reader
  /\ UNCHANGED <<sessionVars, lock, doomed, turn>>

\* ... to the direct route
Install ==
  /\ Holds("advertiser")
  /\ turn <= configured
  /\ \/ RowsOf(NetOf[turn]) = {} /\ LinkRow(NetOf[turn], FixedRow) /\ UNCHANGED turn
     \/ WriteRow /\ turn' = turn + 1
  /\ UNCHANGED <<sessionVars, lock, doomed, reader>>

\* the interface is on the list, its address and mask have not been written yet
MisreadInterface ==
  /\ Holds("advertiser")
  /\ victim = NULL
  /\ configured < turn /\ turn <= linked
  /\ stage' = "undefined"
  /\ UNCHANGED <<linked, configured, tableVars, lock, doomed, turn, reader>>

\* the end of if_list: from here on the thread only reads the table
Connected ==
  /\ Holds("advertiser")
  /\ victim = NULL
  /\ turn > linked
  /\ lock' = "none"
  /\ UNCHANGED <<sessionVars, tableVars, doomed, turn, reader>>

\* the clock turns
Older(age) == IF age < MAX_AGE THEN age + 1 ELSE age

Tick ==
  /\ Up
  /\ row' = [n \in Node |->
       IF memory[n] = "free" THEN row[n] ELSE [row[n] EXCEPT !.age = Older(@)]]
  /\ UNCHANGED <<sessionVars, head, next, memory, victim, lock, doomed, turn, reader>>

-----------------------------------------------------------------------------
LookupStep(t) ==
  \/ LookAt(t) \/ UseRoute(t) \/ NoWayBack(t) \/ Misread(t)
  \/ t = "main" /\ (Silent \/ \E a \in Address : NoRoute(a))

MainWaits ==
  \E p \in Learnable : UpdateRoute(p) \/ IgnoreRoute(p) \/ LearnRoute(p)

CollectorStep == CollectRow \/ Collected

AdvertiserStep == Replace \/ Install \/ MisreadInterface \/ Connected

\* what only starts because somebody sends, or the clock says so
Arrival ==
  \/ \E a \in Address : Datagram("forward", a) \/ Datagram("report", a) \/ SweepReports(a)
  \/ Response
  \/ StartToCollect
  \/ Connect

Next ==
  \/ Session \/ Start
  \/ Arrival
  \/ \E t \in Reader : LookupStep(t)
  \/ MainWaits \/ RouteLearned
  \/ TimeoutPass
  \/ CollectorStep
  \/ AdvertiserStep
  \/ Tick

Spec == Init /\ [][Next]_vars

(***************************************************************************)
(* Threads run. Main competes for the lock with threads that give it back  *)
(* and sleep for a second or more. Nobody need send, and time need not     *)
(* turn.                                                                   *)
(***************************************************************************)
FairSpec ==
  /\ Spec
  /\ \A t \in Reader : WF_vars(LookupStep(t))
  /\ SF_vars(MainWaits)
  /\ WF_vars(RouteLearned)
  /\ WF_vars(CollectorStep)
  /\ WF_vars(AdvertiserStep)
  /\ WF_vars(stage = "hwinfo" /\ Session)

-----------------------------------------------------------------------------
(***************************************************************************)
(* Properties.                                                             *)
(***************************************************************************)
\* Every variable has its type, and the list is a list: what it reaches is memory
\* in use, but for the row the holder of the lock has under its hands.
TypeOK ==
  /\ stage \in Stage /\ linked \in 0 .. NUM_IF /\ configured \in 0 .. linked
  /\ head \in Node \cup {NULL} /\ victim \in Node \cup {NULL}
  /\ next \in [Node -> Node \cup {NULL}]
  /\ row \in [Node -> Row]
  /\ memory \in [Node -> {"free", "raw", "row"}]
  /\ lock \in Changer \cup {"none"}
  /\ doomed \subseteq Node
  /\ turn \in 0 .. NUM_IF + 1
  /\ reader \in [Reader ->
       [errand : {"none", "forward", "report"}, want : Address, here : Node \cup {NULL},
        best : Node \cup {NULL}, mask : {Length[p] : p \in Prefix} \cup {0},
        owed : Node \cup {NULL}]]
  /\ \A n \in Listed : memory[n] = "row" \/ n = victim

\* A lookup that comes to its end found at least what it could have found when it
\* began: the table may change under it, but of the rows that stay none with a
\* longer mask is passed over, and what it found matches
\* (sr_find_longest_prefix_match without the lock).
NoStayingRowMissed ==
  \A t \in Reader : Found(t) =>
    /\ reader[t].owed # NULL => reader[t].mask >= MaskOf(reader[t].owed)
    /\ reader[t].best # NULL /\ memory[reader[t].best] = "row"
         => Matches(reader[t].best, reader[t].want)

\* What a lookup can lose under its feet was useless: the row that is freed was
\* unreachable for longer than the garbage-collection time, whatever the collector
\* had to wait for the lock and whatever was revived meanwhile, or it makes room
\* for the direct route of its network.
FreedWasDead ==
  [][\A n \in Node : memory[n] = "row" /\ memory'[n] = "free" =>
       \/ ~row[n].valid /\ row[n].age > RIP_GARBAGE_COLLECTION
       \/ lock = "advertiser" /\ PrefixOf(n) = NetOf[turn]]_vars

\* the advertiser is at an interface of this network
Replacing(p) == lock = "advertiser" /\ turn <= configured /\ NetOf[turn] = p

\* The interfaces the advertiser found have their direct route for good, and it is
\* the only row of its network: no answer of a neighbour, no timeout and no
\* collection takes its place, only the route of another interface of the network.
DirectRoutesStay ==
  \A i \in 1 .. turn - 1 : ~Replacing(NetOf[i]) =>
    \E n \in Node : RowsOf(NetOf[i]) = {n} /\ row[n].valid /\ ~row[n].learned

\* What main has begun to handle it finishes, and waits for the next command: the
\* lock always comes back, and no change of the list keeps a lookup in it.
MainComesBack == stage \in {"hwinfo", "packet"} ~> stage \in {"loop", "undefined"}
=============================================================================
