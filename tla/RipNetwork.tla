----------------------------- MODULE RipNetwork -----------------------------
(***************************************************************************)
(* Routers that run the RIP subsystem of sr_rip.c over point-to-point      *)
(* links: each router's threads change its routing table and put RIP       *)
(* frames on its links, frames are delayed, overtaken and lost, routers    *)
(* die and are started again. A pass of a thread over the table, and the   *)
(* handling of a received packet, is one action together with the          *)
(* triggered update it ends in.                                            *)
(***************************************************************************)
EXTENDS RipRoute, FiniteSets, Sequences

CONSTANTS
  Link,         \* <<r, n>>: r has an interface on a link to n
  Dest,         \* the networks
  Attached,     \* Attached[d]: the routers with an interface on network d
  Dist,         \* Dist[d][r]: the metric of the shortest way from r to d
  MAX_FLIGHT,   \* bound on the frames under way on one link
  MAX_CRASHES,  \* bound on the routers that die in one run
  MAX_FAULTS    \* bound on the frames lost or overtaken in one run

ASSUME NetworkAssumption ==
  /\ Link \subseteq Router \X Router
  /\ \A r, n \in Router : <<r, n>> \in Link => <<n, r>> \in Link /\ r # n
  /\ Attached \in [Dest -> SUBSET Router]
  /\ MAX_FLIGHT \in Nat \ {0} /\ MAX_CRASHES \in Nat /\ MAX_FAULTS \in Nat

\* Dist is a distance: what a router's own networks cost, and at most one link
\* more than a neighbour's
ASSUME DistAssumption ==
  /\ Dist \in [Dest -> [Router -> Nat \ {0}]]
  /\ \A d \in Dest : \A r \in Attached[d] : Dist[d][r] <= Cost
  /\ \A d \in Dest, r, n \in Router :
       <<r, n>> \in Link => Dist[d][r] <= Dist[d][n] + Cost

VARIABLES
  status,    \* status[r]: how far the process of r has come
  table,     \* table[r][d]: the row for d in the routing table of r
  frames,    \* frames[l]: the RIP packets under way on l, oldest first
  silent,    \* routers whose periodic advertisement of this interval is due
  crashes,   \* routers that have died
  faults     \* frames that were lost or overtaken

vars == <<status, table, frames, silent, crashes, faults>>

Neighbours(r) == {n \in Router : <<r, n>> \in Link}

\* "started": the process is up and its main thread reads frames. "connected":
\* the direct routes are in the table (2 s after the start). "asked": the
\* requests have been sent (3 s), periodic advertisements follow.
Status == {"dead", "started", "connected", "asked"}

\* an entry with metric 0 stands for no entry
Request  == [kind : {"request"}]
Response == [kind : {"response"}, metric : [Dest -> 0 .. INFINITY]]
ASK      == [kind |-> "request"]

-----------------------------------------------------------------------------
\* a frame enters a link; the oldest makes room when MAX_FLIGHT are under way
Push(q, msg) == Append(IF Len(q) < MAX_FLIGHT THEN q ELSE Tail(q), msg)

Taken(f, l) == [f EXCEPT ![l] = Tail(@)]

\* the packet sr_rip_send_response builds from table t for the interface to n
ResponseTo(t, n) ==
  [kind |-> "response",
   metric |-> [d \in Dest |-> IF Present(t[d]) THEN AdvertisedMetric(t[d], n) ELSE 0]]

\* sr_rip_send_response on the interfaces of r to the routers of to; an empty
\* table is not sent
SendTable(f, r, to, t) ==
  [l \in Link |-> IF l[1] = r /\ l[2] \in to /\ \E d \in Dest : Present(t[d])
                  THEN Push(f[l], ResponseTo(t, l[2])) ELSE f[l]]

\* the table after the entries of a response from n
Updated(t, n, msg) ==
  [d \in Dest |->
     IF msg.metric[d] = 0 THEN t[d] ELSE UpdateRoute(t[d], n, msg.metric[d])]

Changed(t, n, msg) ==
  \E d \in Dest : msg.metric[d] # 0 /\ RouteChanged(t[d], n, msg.metric[d])

-----------------------------------------------------------------------------
Init ==
  /\ status = [r \in Router |-> "started"]
  /\ table = [r \in Router |-> [d \in Dest |-> NoRow]]
  /\ frames = [l \in Link |-> <<>>]
  /\ silent = Router
  /\ crashes = 0
  /\ faults = 0

Alive(r) == status[r] # "dead"

\* sr_rip_periodic_advertisement, after 2 s: rows for the router's own networks
\* that were learned meanwhile give way to the direct routes
Connect(r) ==
  /\ status[r] = "started"
  /\ status' = [status EXCEPT ![r] = "connected"]
  /\ table' = [table EXCEPT ![r] =
                [d \in Dest |-> IF r \in Attached[d] THEN DirectRow ELSE @[d]]]
  /\ UNCHANGED <<frames, silent, crashes, faults>>

\* sr_rip_send_requests, after 3 s: the whole table is asked of every neighbour
Ask(r) ==
  /\ status[r] = "connected"
  /\ status' = [status EXCEPT ![r] = "asked"]
  /\ frames' = [l \in Link |-> IF l[1] = r THEN Push(frames[l], ASK) ELSE frames[l]]
  /\ UNCHANGED <<table, silent, crashes, faults>>

\* sr_rip_periodic_advertisement, every 10 s
Advertise(r) ==
  /\ status[r] = "asked"
  /\ r \in silent
  /\ silent' = silent \ {r}
  /\ frames' = SendTable(frames, r, Neighbours(r), table[r])
  /\ UNCHANGED <<status, table, crashes, faults>>

\* sr_handle_rip_packet, a request: the table goes back the way it came
HandleRequest(n, r) ==
  /\ <<n, r>> \in Link
  /\ Alive(r)
  /\ frames[<<n, r>>] # <<>>
  /\ Head(frames[<<n, r>>]) = ASK
  /\ frames' = SendTable(Taken(frames, <<n, r>>), r, {n}, table[r])
  /\ UNCHANGED <<status, table, silent, crashes, faults>>

\* sr_handle_rip_packet, a response: every entry updates its row, and a change
\* is advertised at once on all interfaces, the incoming one included
HandleResponse(n, r) ==
  /\ <<n, r>> \in Link
  /\ Alive(r)
  /\ frames[<<n, r>>] # <<>>
  /\ LET msg == Head(frames[<<n, r>>])
         new == Updated(table[r], n, msg)
         rest == Taken(frames, <<n, r>>) IN
       /\ msg.kind = "response"
       /\ table' = [table EXCEPT ![r] = new]
       /\ frames' = IF Changed(table[r], n, msg)
                    THEN SendTable(rest, r, Neighbours(r), new) ELSE rest
  /\ UNCHANGED <<status, silent, crashes, faults>>

\* Fault: no triggered update after a timeout.
TimeoutPassUntold(r) ==
  /\ Alive(r)
  /\ \E d \in Dest : TimedOut(table[r][d])
  /\ table' = [table EXCEPT ![r] =
                [d \in Dest |-> IF TimedOut(@[d]) THEN Poisoned(@[d]) ELSE @[d]]]
  /\ UNCHANGED <<status, frames, silent, crashes, faults>>

\* a pass of sr_rip_timeout_manager that finds something, and its triggered update
TimeoutPass(r) ==
  /\ Alive(r)
  /\ \E d \in Dest : TimedOut(table[r][d])
  /\ LET new == [d \in Dest |-> IF TimedOut(table[r][d]) THEN Poisoned(table[r][d])
                                ELSE table[r][d]] IN
       /\ table' = [table EXCEPT ![r] = new]
       /\ frames' = SendTable(frames, r, Neighbours(r), new)
  /\ UNCHANGED <<status, silent, crashes, faults>>

\* a pass of sr_rip_garbage_collection_manager that finds something
GarbagePass(r) ==
  /\ Alive(r)
  /\ \E d \in Dest : Collected(table[r][d])
  /\ table' = [table EXCEPT ![r] =
                [d \in Dest |-> IF Collected(@[d]) THEN NoRow ELSE @[d]]]
  /\ UNCHANGED <<status, frames, silent, crashes, faults>>

-----------------------------------------------------------------------------
(***************************************************************************)
(* The environment.                                                        *)
(***************************************************************************)
\* a frame for a dead router goes nowhere
Unheard(n, r) ==
  /\ <<n, r>> \in Link
  /\ ~Alive(r)
  /\ frames[<<n, r>>] # <<>>
  /\ frames' = Taken(frames, <<n, r>>)
  /\ UNCHANGED <<status, table, silent, crashes, faults>>

Lose(l) ==
  /\ faults < MAX_FAULTS
  /\ frames[l] # <<>>
  /\ frames' = Taken(frames, l)
  /\ faults' = faults + 1
  /\ UNCHANGED <<status, table, silent, crashes>>

\* sr_rip_send_response builds the packet under the lock and sends it after the
\* unlock: what another thread of the router sends meanwhile arrives first
Overtake(l) ==
  /\ faults < MAX_FAULTS
  /\ Len(frames[l]) > 1
  /\ frames' = [frames EXCEPT ![l] = <<@[2], @[1]>> \o SubSeq(@, 3, Len(@))]
  /\ faults' = faults + 1
  /\ UNCHANGED <<status, table, silent, crashes>>

\* the process of r ends; nothing of its table survives
Crash(r) ==
  /\ Alive(r)
  /\ crashes < MAX_CRASHES
  /\ crashes' = crashes + 1
  /\ status' = [status EXCEPT ![r] = "dead"]
  /\ table' = [table EXCEPT ![r] = [d \in Dest |-> NoRow]]
  /\ UNCHANGED <<frames, silent, faults>>

Restart(r) ==
  /\ ~Alive(r)
  /\ status' = [status EXCEPT ![r] = "started"]
  /\ UNCHANGED <<table, frames, silent, crashes, faults>>

Quiet == \A l \in Link : frames[l] = <<>>

\* An advertisement interval (10 s) passes: by then every running router has
\* advertised, frames have arrived, and the two managers, which wake every
\* second, have seen every row that is due.
Tick ==
  /\ \A r \in Router : Alive(r) => status[r] = "asked" /\ r \notin silent
  /\ Quiet
  /\ \A r \in Router, d \in Dest : ~TimedOut(table[r][d]) /\ ~Collected(table[r][d])
  /\ silent' = Router
  /\ table' = [r \in Router |-> [d \in Dest |->
       IF Present(table[r][d]) THEN Aged(table[r][d]) ELSE table[r][d]]]
  /\ UNCHANGED <<status, frames, crashes, faults>>

RouterStep ==
  \/ \E r \in Router : Connect(r) \/ Ask(r) \/ Advertise(r) \/ TimeoutPass(r) \/ GarbagePass(r)
  \/ \E n, r \in Router : HandleRequest(n, r) \/ HandleResponse(n, r) \/ Unheard(n, r)

Next ==
  \/ RouterStep
  \/ \E l \in Link : Lose(l) \/ Overtake(l)
  \/ \E r \in Router : Crash(r) \/ Restart(r)
  \/ Tick

Spec == Init /\ [][Next]_vars

(***************************************************************************)
(* Threads run, frames arrive and time goes on. Between two ticks there    *)
(* are finitely many steps, so none of them can be left out for ever.      *)
(***************************************************************************)
FairSpec == Spec /\ WF_vars(RouterStep) /\ WF_vars(Tick)

-----------------------------------------------------------------------------
(***************************************************************************)
(* Properties.                                                             *)
(***************************************************************************)
\* Every variable has its type.
TypeOK ==
  /\ status \in [Router -> Status]
  /\ table \in [Router -> [Dest -> Row]]
  /\ frames \in [Link -> Seq(Request \cup Response)]
  /\ silent \subseteq Router
  /\ crashes \in Nat
  /\ faults \in Nat

\* No router ever believes to be nearer to a network than it is, whatever is
\* lost, overtaken, timed out or restarted: metrics may count up towards infinity,
\* never down past the truth (sr_rip_update_route adds the interface's cost).
NoUnderestimate ==
  \A r \in Router, d \in Dest : table[r][d].valid => table[r][d].metric >= Dist[d][r]

\* A direct route, once installed, is never replaced by a learned one, so that no
\* timeout and no garbage collection takes a router's own network away.
DirectStays ==
  \A d \in Dest : \A r \in Attached[d] :
    status[r] \in {"connected", "asked"} =>
      table[r][d].valid /\ table[r][d].from = Nobody /\ table[r][d].metric = Cost

\* Triggered updates work: once every frame has arrived, and none was lost or
\* overtaken, a router that is learned from still has the route and is strictly
\* nearer, so that following the next hops never goes round in circles. (A router
\* that started anew and has not heard of the network has no row.)
RoutesDescend ==
  Quiet /\ faults = 0 =>
    \A r, n \in Router, d \in Dest :
      table[r][d].valid /\ table[r][d].from = n /\ Present(table[n][d])
        => table[n][d].valid /\ table[n][d].metric < table[r][d].metric

\* Links that make no cycle: of two neighbours one is nearer to a network, and no
\* router has two neighbours that are nearer than itself.
NoCycle ==
  \A d \in Dest, r \in Router :
    /\ \A n \in Neighbours(r) : Dist[d][n] # Dist[d][r]
    /\ \A n, m \in Neighbours(r) :
         Dist[d][n] < Dist[d][r] /\ Dist[d][m] < Dist[d][r] => n = m

\* Poisoned reverse works: where links make no cycle no router ever counts to
\* infinity, a route has the metric of the only path or is gone.
NeverCounts ==
  \A r \in Router, d \in Dest : table[r][d].valid => table[r][d].metric = Dist[d][r]

(***************************************************************************)
(* What the tables should say once nothing dies any more. Within[k][d]:    *)
(* routers at most k links away from a living router on network d, over    *)
(* living routers.                                                         *)
(***************************************************************************)
Within[k \in 0 .. Cardinality(Router)] ==
  IF k = 0 THEN [d \in Dest |-> {r \in Attached[d] : Alive(r)}]
  ELSE LET nearer == Within[k - 1] IN
         [d \in Dest |-> nearer[d] \cup
            {r \in Router : Alive(r) /\ Neighbours(r) \cap nearer[d] # {}}]

\* Every living router has the metric of a shortest living path, and no valid row
\* where there is none.
TablesCorrect ==
  LET within == Within
      all == 0 .. Cardinality(Router) IN
    \A r \in Router, d \in Dest : Alive(r) =>
      /\ table[r][d].valid <=> \E k \in all : r \in within[k][d]
      /\ \A k \in all : r \in within[k][d] => table[r][d].metric <= k + Cost

\* Finitely many deaths and faults later the tables are right for good: counting to
\* infinity ends, and no timeout or garbage collection of the managers undoes it.
Converges == <>[]TablesCorrect
=============================================================================
