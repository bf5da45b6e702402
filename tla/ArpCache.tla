------------------------------ MODULE ArpCache ------------------------------
(***************************************************************************)
(* The ARP layer of one router (sr_arpcache.c, and the parts of            *)
(* sr_router.c that use it): the table of link addresses, the queue of     *)
(* ARP requests with the packets that wait on them, and the two threads    *)
(* that share them. "main" reads frames and handles them one by one;       *)
(* "sweep" wakes every second and walks the queue with cache->lock held.   *)
(* A critical section of main is one action, enabled while sweep does not  *)
(* hold the lock; handle_arpreq, which main calls WITHOUT the lock, is one *)
(* action per shared access, the same actions for both threads.            *)
(***************************************************************************)
EXTENDS Naturals, FiniteSets

CONSTANTS
  Neighbour,       \* addresses of the hosts and routers one hop away
  Own,             \* the router's own interface addresses
  OwnOf,           \* OwnOf[n]: the router's address on the link of n
  Pkt,             \* datagrams the router receives
  NextHop,         \* NextHop[p]: the neighbour the route to p's destination names
  BackHop,         \* BackHop[p]: the same for p's sender, or None
  None,            \* no address: no route, an empty slot, no request
  Req,             \* addresses calloc can give to a struct sr_arpreq
  SR_ARPCACHE_SZ,  \* slots of the table (100 in the code)
  MAX_SENDS        \* requests sent before giving up (5 in the code)

ASSUME ArpAssumption ==
  /\ Neighbour \cap Own = {}
  /\ None \notin Neighbour \cup Own \cup Req
  /\ OwnOf \in [Neighbour -> Own]
  /\ NextHop \in [Pkt -> Neighbour]
  /\ BackHop \in [Pkt -> Neighbour \cup {None}]
  /\ SR_ARPCACHE_SZ \in Nat \ {0}
  /\ MAX_SENDS \in Nat \ {0}
  \* one request per address and one that main still holds: calloc never fails
  /\ Cardinality(Req) > Cardinality(Neighbour \cup Own)

Address == Neighbour \cup Own
Slot    == 1 .. SR_ARPCACHE_SZ
Thread  == {"main", "sweep"}

(***************************************************************************)
(* Packets. <<p, 0>> is datagram p. <<p, 1>> is the ICMP error the router  *)
(* sends to the sender of p; its source is the router's own address, so    *)
(* the error about that error, <<p, 2>>, and the one about that, <<p, 3>>, *)
(* are addressed to the router and wait for its OWN link address.          *)
(***************************************************************************)
Packet == Pkt \X (0 .. 3)

HopOf(k) ==
  CASE k[2] = 0 -> NextHop[k[1]]
    [] k[2] = 1 -> BackHop[k[1]]
    [] OTHER    -> IF BackHop[k[1]] = None THEN None ELSE OwnOf[BackHop[k[1]]]

ErrorAbout(k)   == <<k[1], IF k[2] < 3 THEN k[2] + 1 ELSE 3>>
CanAnswer(k)    == k[2] < 3 /\ BackHop[k[1]] # None

(***************************************************************************)
(* Seconds are counted back from the present: req[r].sent is how many      *)
(* times the clock of time(NULL) has turned since the request was sent,    *)
(* now[t] how many times since thread t read it. No call of handle_arpreq  *)
(* lasts over two turns (CALL_SECONDS), so AGE_CAP loses no comparison.    *)
(***************************************************************************)
CALL_SECONDS == 1
AGE_CAP      == 2
NEVER        == 9        \* req->sent = 0

Request == [ip : Address \cup {None}, sent : (0 .. AGE_CAP) \cup {NEVER},
            times_sent : 0 .. MAX_SENDS + 1, packets : SUBSET Packet, probes : Nat]

VARIABLES
  entries,    \* entries[s]: the address slot s maps, None when it is not valid
  requests,   \* cache->requests: the requests linked in the queue
  req,        \* req[r]: the struct at address r; probes counts frames really sent
  fate,       \* fate[k]: what has become of packet k (see PacketFate)
  pc,         \* pc[t]: where thread t stands
  ref,        \* ref[t]: the request handle_arpreq was called with
  now,        \* now[t]: age of t's current_time
  work,       \* work[t]: packets host_unreachable has still to visit
  todo,       \* requests the pass of sweepreqs has still to visit
  undefined   \* a thread has touched a request after its free()

vars == <<entries, requests, req, fate, pc, ref, now, work, todo, undefined>>

InHandle == {"decide", "first", "again", "report"}

\* cache->lock is held by the sweep thread
Locked == pc["sweep"] # "idle"

\* Fault: the critical sections of main do not take the lock
MayAlwaysEnter(t) == TRUE

\* The lock is recursive: sweep may enter the critical sections it calls.
MayEnter(t) == t = "sweep" \/ ~Locked

-----------------------------------------------------------------------------
(***************************************************************************)
(* The operations on the two structures.                                   *)
(***************************************************************************)
\* sr_arpcache_lookup finds a valid slot for address h
Mapped(h) == \E s \in Slot : entries[s] = h

\* a struct sr_arpreq as calloc leaves it
Blank == [ip |-> None, sent |-> NEVER, times_sent |-> 0,
          packets |-> {}, probes |-> 0]

\* and as sr_arpcache_queuereq fills it for the first packet of an address
RequestWith(k) == [ip |-> HopOf(k), sent |-> NEVER, times_sent |-> 0,
                   packets |-> {k}, probes |-> 0]

\* the queued requests for address h (one at most: OneRequestPerAddress)
RequestsFor(h) == {r \in requests : req[r].ip = h}

\* The addresses calloc may return. One that a thread still holds is not handed
\* out again, so that a use of a freed request is always noticed (see Dangling).
FreeReq == Req \ (requests \cup {ref[t] : t \in Thread})

\* Fault: the queue is not searched, every packet gets a request of its own
QueueNewReq(k, r) ==
  /\ r \in FreeReq
  /\ r = CHOOSE a \in FreeReq : TRUE
  /\ requests' = requests \cup {r}
  /\ req' = [req EXCEPT ![r] = RequestWith(k)]

\* sr_arpcache_queuereq: packet k joins the request r of its next hop, or a new
\* one. Which free address calloc picks makes no difference.
QueueReq(k, r) ==
  \/ /\ r \in RequestsFor(HopOf(k))
     /\ req' = [req EXCEPT ![r].packets = @ \cup {k}]
     /\ UNCHANGED requests
  \/ /\ RequestsFor(HopOf(k)) = {}
     /\ r \in FreeReq
     /\ r = CHOOSE a \in FreeReq : TRUE
     /\ requests' = requests \cup {r}
     /\ req' = [req EXCEPT ![r] = RequestWith(k)]

\* sr_arpcache_insert, the table half: the first slot that is not valid takes
\* the mapping; a full table is left as it is.
Insert(h) ==
  \/ \E s \in Slot :
       /\ entries[s] = None
       /\ \A u \in 1 .. s - 1 : entries[u] # None
       /\ entries' = [entries EXCEPT ![s] = h]
  \/ /\ None \notin {entries[s] : s \in Slot}
     /\ UNCHANGED entries

\* Fault: the predecessors of the request for h leave the queue with it
UnlinkWithAll(h) ==
  /\ requests' = IF RequestsFor(h) = {} THEN requests ELSE {}
  /\ req' = [r \in Req |-> IF RequestsFor(h) = {} THEN req[r] ELSE Blank]

\* Fault: the request for h stays in the queue
UnlinkNothing(h) == UNCHANGED <<requests, req>>

\* sr_arpcache_insert, the queue half: the request for h leaves the queue
Unlink(h) ==
  /\ requests' = requests \ RequestsFor(h)
  /\ req' = [r \in Req |-> IF r \in RequestsFor(h) THEN Blank ELSE req[r]]

\* the packets that wait on the queued request for h
PacketsFor(h) == UNION {req[r].packets : r \in RequestsFor(h)}

\* the tests of handle_arpreq: the request has never been sent; a second has
\* passed since it was, by the time thread t has read; it was sent often enough
FirstTime(t)    == req[ref[t]].sent = NEVER
SecondPassed(t) == req[ref[t]].sent >= now[t] + 1

\* Fault: giving up one request early
AllSentButOne(t) == req[ref[t]].times_sent >= MAX_SENDS - 1

\* Fault: the bound is tested for equality
AllSentExactly(t) == req[ref[t]].times_sent = MAX_SENDS

AllSent(t) == req[ref[t]].times_sent >= MAX_SENDS

\* handle_arpreq returns: main goes on to its next frame, sweep to its next request
Return(t) ==
  /\ pc'  = [pc EXCEPT ![t] = IF t = "main" THEN "idle" ELSE "next"]
  /\ ref' = [ref EXCEPT ![t] = None]
  /\ now' = [now EXCEPT ![t] = 0]

-----------------------------------------------------------------------------
Init ==
  /\ entries = [s \in Slot |-> None]
  /\ requests = {}
  /\ req = [r \in Req |-> Blank]
  /\ fate = [k \in Packet |-> "fresh"]
  /\ pc = [t \in Thread |-> "idle"]
  /\ ref = [t \in Thread |-> None]
  /\ now = [t \in Thread |-> 0]
  /\ work = [t \in Thread |-> {}]
  /\ todo = {}
  /\ undefined = FALSE

MainFree == ~undefined /\ pc["main"] = "idle" /\ ~Locked

(***************************************************************************)
(* Frames the main thread handles.                                         *)
(***************************************************************************)
\* sr_handle_ip_packet forwards p (and sr_send_icmp_echo_reply_packet answers
\* it, with the sender's hop as NextHop): the mapping is there and the packet
\* leaves; or it is queued and handle_arpreq is called with the request. The
\* lookup and the queueing are two critical sections, but no step of sweep
\* between them changes what either of them finds.
ForwardMapped(p) ==
  /\ MainFree
  /\ fate[<<p, 0>>] = "fresh"
  /\ Mapped(NextHop[p])
  /\ fate' = [fate EXCEPT ![<<p, 0>>] = "forwarded"]
  /\ UNCHANGED <<entries, requests, req, pc, ref, now, work, todo, undefined>>

ForwardUnmapped(p) ==
  /\ MainFree
  /\ fate[<<p, 0>>] = "fresh"
  /\ ~Mapped(NextHop[p])
  /\ \E r \in Req :
       /\ QueueReq(<<p, 0>>, r)
       /\ ref' = [ref EXCEPT !["main"] = r]
  /\ fate' = [fate EXCEPT ![<<p, 0>>] = "pending"]
  /\ pc'  = [pc EXCEPT !["main"] = "decide"]
  /\ UNCHANGED <<entries, now, work, todo, undefined>>

\* sr_send_icmp_error_packet, for packet k: the error leaves if its next hop is
\* mapped and is queued if not, with no call of handle_arpreq. Without a route
\* to the sender nothing is sent.
SendError(k) ==
  IF ~CanAnswer(k)
  THEN /\ fate' = [fate EXCEPT ![k] = "discarded"]
       /\ UNCHANGED <<requests, req>>
  ELSE IF Mapped(HopOf(ErrorAbout(k)))
  THEN /\ fate' = [fate EXCEPT ![k] = "reported", ![ErrorAbout(k)] = "forwarded"]
       /\ UNCHANGED <<requests, req>>
  ELSE /\ fate' = [fate EXCEPT ![k] = "reported", ![ErrorAbout(k)] = "pending"]
       /\ \E r \in Req : QueueReq(ErrorAbout(k), r)

\* sr_handle_ip_packet answers p with time exceeded, port or net unreachable
AnswerWithError(p) ==
  /\ MainFree
  /\ fate[<<p, 0>>] = "fresh"
  /\ BackHop[p] # None
  /\ SendError(<<p, 0>>)
  /\ UNCHANGED <<entries, pc, ref, now, work, todo, undefined>>

\* sr_handle_arp_packet, a reply of neighbour n: the mapping is inserted, the
\* packets of its request are sent and the request is destroyed.
ArpReply(n) ==
  /\ MainFree
  /\ Insert(n)
  /\ Unlink(n)
  /\ fate' = [k \in Packet |-> IF k \in PacketsFor(n) THEN "forwarded" ELSE fate[k]]
  /\ UNCHANGED <<pc, ref, now, work, todo, undefined>>

\* sr_handle_arp_packet, a request of neighbour n for one of the router's
\* addresses: the mapping is inserted and an ARP reply leaves. The request that
\* sr_arpcache_insert unlinks and returns is not looked at.
ArpRequest(n) ==
  /\ MainFree
  /\ Insert(n)
  /\ Unlink(n)
  /\ fate' = [k \in Packet |-> IF k \in PacketsFor(n) THEN "orphaned" ELSE fate[k]]
  /\ UNCHANGED <<pc, ref, now, work, todo, undefined>>

(***************************************************************************)
(* handle_arpreq(ref[t]), by either thread.                                *)
(***************************************************************************)
Handling(t, at) == ~undefined /\ pc[t] = at /\ ref[t] \in requests

\* sent and times_sent are read and the branch is chosen
Decide(t) ==
  /\ Handling(t, "decide")
  /\ \/ /\ FirstTime(t)
        /\ pc' = [pc EXCEPT ![t] = "first"]
        /\ UNCHANGED <<ref, now, work>>
     \/ /\ ~FirstTime(t) /\ SecondPassed(t) /\ ~AllSent(t)
        /\ pc' = [pc EXCEPT ![t] = "again"]
        /\ UNCHANGED <<ref, now, work>>
     \/ /\ ~FirstTime(t) /\ SecondPassed(t) /\ AllSent(t)
        /\ pc' = [pc EXCEPT ![t] = "report"]
        /\ work' = [work EXCEPT ![t] = req[ref[t]].packets]
        /\ UNCHANGED <<ref, now>>
     \/ /\ ~FirstTime(t) /\ ~SecondPassed(t)
        /\ Return(t)
        /\ UNCHANGED work
  /\ UNCHANGED <<entries, requests, req, fate, todo, undefined>>

\* times_sent++ is a plain read and write: when the other thread is at the same
\* increment, the two may count as one
Incremented(t) ==
  {req[ref[t]].times_sent + 1} \cup
    {req[ref[t]].times_sent : u \in {v \in Thread \ {t} : pc[v] = "again" /\ ref[v] = ref[t]}}

\* the ARP request is sent (for an address of the router's own no frame leaves)
\* and sent and times_sent are written
Probe(t) ==
  /\ Handling(t, "first") \/ Handling(t, "again")
  /\ \E count \in IF pc[t] = "first" THEN {1} ELSE Incremented(t) :
       req' = [req EXCEPT ![ref[t]] =
         [ip |-> @.ip, sent |-> now[t], times_sent |-> count, packets |-> @.packets,
          probes |-> IF @.ip \in Own THEN @.probes ELSE @.probes + 1]]
  /\ Return(t)
  /\ UNCHANGED <<entries, requests, fate, work, todo, undefined>>

\* host_unreachable visits a packet. A packet the other thread has reported
\* meanwhile gets a second, identical error, of which no separate trace is kept.
Report(t) ==
  /\ Handling(t, "report")
  /\ MayEnter(t)
  /\ \E k \in work[t] :
       /\ work' = [work EXCEPT ![t] = @ \ {k}]
       /\ IF fate[k] \in {"reported", "discarded"}
          THEN UNCHANGED <<requests, req, fate>>
          ELSE SendError(k)
  /\ UNCHANGED <<entries, pc, ref, now, todo, undefined>>

\* sr_arpreq_destroy unlinks the request and frees it with all its packets
Destroy(t) ==
  /\ Handling(t, "report")
  /\ MayEnter(t)
  /\ work[t] = {}
  /\ requests' = requests \ {ref[t]}
  /\ req' = [req EXCEPT ![ref[t]] = Blank]
  /\ fate' = [k \in Packet |->
                IF k \in req[ref[t]].packets /\ fate[k] = "pending" THEN "freed" ELSE fate[k]]
  /\ Return(t)
  /\ UNCHANGED <<entries, work, todo, undefined>>

\* thread t reads or frees a request that has been freed: undefined behaviour,
\* after which nothing is claimed of the router
Dangling(t) ==
  /\ ~undefined
  /\ pc[t] \in InHandle
  /\ ref[t] \notin requests
  /\ undefined' = TRUE
  /\ UNCHANGED <<entries, requests, req, fate, pc, ref, now, work, todo>>

(***************************************************************************)
(* The sweep thread, sr_arpcache_timeout.                                  *)
(***************************************************************************)
\* Fault: the walk over the queue stops before the last request
ToVisitButLast == IF requests = {} THEN {} ELSE requests \ {CHOOSE r \in requests : TRUE}

\* the requests a pass of sr_arpcache_sweepreqs walks over
ToVisit == requests

\* It wakes, takes the lock and expires slots: which of them are over
\* SR_ARPCACHE_TO seconds old is left open. Then it starts at the head of the
\* queue; requests queued during the pass come before it and are not visited.
SweepStart ==
  /\ ~undefined
  /\ pc["sweep"] = "idle"
  /\ \E old \in SUBSET Slot :
       entries' = [s \in Slot |-> IF s \in old THEN None ELSE entries[s]]
  /\ todo' = ToVisit
  /\ pc' = [pc EXCEPT !["sweep"] = "next"]
  /\ UNCHANGED <<requests, req, fate, ref, now, work, undefined>>

SweepNext ==
  /\ ~undefined
  /\ pc["sweep"] = "next"
  /\ \E r \in todo :
       /\ todo' = todo \ {r}
       /\ ref' = [ref EXCEPT !["sweep"] = r]
  /\ pc' = [pc EXCEPT !["sweep"] = "decide"]
  /\ UNCHANGED <<entries, requests, req, fate, now, work, undefined>>

SweepEnd ==
  /\ ~undefined
  /\ pc["sweep"] = "next"
  /\ todo = {}
  /\ pc' = [pc EXCEPT !["sweep"] = "idle"]
  /\ UNCHANGED <<entries, requests, req, fate, ref, now, work, todo, undefined>>

\* time(NULL) turns
Tick ==
  /\ ~undefined
  /\ \A t \in Thread : pc[t] \in InHandle => now[t] < CALL_SECONDS
  /\ now' = [t \in Thread |-> IF pc[t] \in InHandle THEN now[t] + 1 ELSE now[t]]
  /\ req' = [r \in Req |->
       IF req[r].sent < AGE_CAP THEN [req[r] EXCEPT !.sent = @ + 1] ELSE req[r]]
  /\ UNCHANGED <<entries, requests, fate, pc, ref, work, todo, undefined>>

\* after undefined behaviour the model stands still
Collapsed == undefined /\ UNCHANGED vars

HandleStep(t) == Decide(t) \/ Probe(t) \/ Report(t) \/ Destroy(t)

Next ==
  \/ \E p \in Pkt : ForwardMapped(p) \/ ForwardUnmapped(p) \/ AnswerWithError(p)
  \/ \E n \in Neighbour : ArpReply(n) \/ ArpRequest(n)
  \/ \E t \in Thread : HandleStep(t) \/ Dangling(t)
  \/ SweepStart \/ SweepNext \/ SweepEnd
  \/ Tick
  \/ Collapsed

Spec == Init /\ [][Next]_vars

(***************************************************************************)
(* Both threads are scheduled and time goes on; frames need not arrive.    *)
(* main gets the lock in the end, because sweep releases it and sleeps for *)
(* a second between two passes: strong fairness for what main has begun.   *)
(***************************************************************************)
MainStep  == HandleStep("main") \/ Dangling("main")
SweepStep == SweepStart \/ SweepNext \/ SweepEnd \/ HandleStep("sweep") \/ Dangling("sweep")

Fairness == SF_vars(MainStep) /\ WF_vars(SweepStep) /\ WF_vars(Tick)

FairSpec == Spec /\ Fairness

-----------------------------------------------------------------------------
(***************************************************************************)
(* Properties.                                                             *)
(***************************************************************************)
\* Every variable has its type; times_sent goes one past MAX_SENDS, when both
\* threads pass the test before one of them counts, and never further.
TypeOK ==
  /\ entries \in [Slot -> Neighbour \cup {None}]
  /\ requests \subseteq Req
  /\ req \in [Req -> Request]
  /\ fate \in [Packet -> {"fresh", "pending", "forwarded", "reported", "discarded",
                          "orphaned", "freed"}]
  /\ pc \in [Thread -> {"idle", "next"} \cup InHandle]
  /\ ref \in [Thread -> Req \cup {None}]
  /\ now \in [Thread -> 0 .. CALL_SECONDS]
  /\ work \in [Thread -> SUBSET Packet]
  /\ todo \subseteq Req
  /\ undefined \in BOOLEAN

\* Two threads queue requests, and an address never has two: a reply, which
\* unlinks the first request it finds, would leave the packets of the other one
\* waiting (sr_arpcache_queuereq searches and links in one critical section).
OneRequestPerAddress ==
  \A r, s \in requests : req[r].ip = req[s].ip => r = s

\* A packet the router still owes somebody is on the queue, with the request of
\* its own next hop, whatever the other thread was doing when it was queued.
PendingIsQueued ==
  \A k \in Packet :
    fate[k] = "pending" =>
      \E r \in requests : req[r].ip = HopOf(k) /\ k \in req[r].packets

\* host_unreachable runs for a neighbour only after MAX_SENDS ARP requests have
\* really left for it, although both threads write sent and times_sent and one
\* of them does so without the lock.
GiveUpAfterAllProbes ==
  \A t \in Thread :
    (Handling(t, "report") /\ req[ref[t]].ip \in Neighbour)
      => req[ref[t]].probes >= MAX_SENDS

\* The sweep thread, which keeps the lock for the whole pass and the successor
\* of the request it is handling in a local, never meets a freed request.
SweepRequestsAreLinked ==
  /\ todo \subseteq requests
  /\ pc["sweep"] \in InHandle => ref["sweep"] \in requests

\* The ARP layer keeps the promise of PacketFate: a settled packet stays
\* settled, and the packets waiting for a next hop leave together.
Fate == INSTANCE PacketFate
KeepsPromise == Fate!Spec

\* No packet waits for ever: a reply, an ARP request of the next hop or the
\* silence after the last probe settles it, so that with finitely many datagrams
\* the queue is empty of packets again and again.
QueueDrains ==
  []<>(undefined \/ \A k \in Packet : fate[k] # "pending")

(***************************************************************************)
(* What comments of the code say and the code does not do.                 *)
(***************************************************************************)
\* sr_arpcache.h:24-32: what arpcache_insert returns has its packets sent.
\* sr_handle_arp_packet drops it when the mapping comes in an ARP request.
NothingOrphaned == \A k \in Packet : fate[k] # "orphaned"

\* sr_arpcache.c:302-303: the caller of sr_arpcache_queuereq gets a request it
\* can go on using and even destroy. main uses it after the lock is released,
\* when sweep may have freed it.
NoUseAfterFree == ~undefined

\* sr_arpcache.c:378: sr_arpcache_insert "inserts this IP to MAC mapping in the
\* cache, and marks it valid"; a full table is left as it is.
InsertedIsMapped ==
  [][\A n \in Neighbour :
       (ArpReply(n) \/ ArpRequest(n)) => \E s \in Slot : entries'[s] = n]_vars
=============================================================================
