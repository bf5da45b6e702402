--------------------------- MODULE ArpCacheProofs ---------------------------
(***************************************************************************)
(* Proofs about ArpCache, for any number of neighbours, datagrams, slots   *)
(* and probes: its invariants, and that it implements PacketFate.          *)
(***************************************************************************)
EXTENDS ArpCache, TLAPS

(***************************************************************************)
(* The inductive invariant: what the queue, the fates of the packets and   *)
(* the two threads know of each other.                                     *)
(***************************************************************************)
\* a queued request holds packets for its own address
Sound ==
  \A r \in requests :
    /\ req[r].ip \in Address
    /\ \A k \in req[r].packets : HopOf(k) = req[r].ip

\* a packet in the queue waits, or has been given up
QueuedFates ==
  \A r \in requests : \A k \in req[r].packets :
    fate[k] \in {"pending", "reported", "discarded"}

\* and it is given up by a thread that is going to free its request
GivenUpByReport ==
  \A r \in requests : \A k \in req[r].packets :
    fate[k] # "pending" => \E t \in Thread : pc[t] = "report" /\ ref[t] = r

\* nobody has made an error about an error that is itself still to be made
ErrorsInTurn ==
  \A p \in Pkt, i \in 0 .. 2 :
    fate[<<p, i>>] \in {"fresh", "pending"} => fate[<<p, i + 1>>] = "fresh"

\* a thread holds a request exactly while it is in handle_arpreq
References ==
  /\ pc["main"] # "next"
  /\ \A t \in Thread : IF pc[t] \in InHandle THEN ref[t] \in Req ELSE ref[t] = None

\* the pass of sweep visits linked requests, each once
Walk ==
  /\ SweepRequestsAreLinked
  /\ pc["sweep"] = "idle" => todo = {}
  /\ pc["sweep"] \in InHandle => ref["sweep"] \notin todo

\* what host_unreachable has still to visit waits in its request
WorkIsQueued ==
  \A t \in Thread :
    pc[t] = "report" /\ ref[t] \in requests => work[t] \subseteq req[ref[t]].packets

\* a thread about to send still may, and so may two of them
RoomToSend ==
  \A t \in Thread : pc[t] = "again" =>
    /\ req[ref[t]].times_sent <= MAX_SENDS
    /\ \A u \in Thread \ {t} :
         pc[u] = "again" /\ ref[u] = ref[t] => req[ref[t]].times_sent <= MAX_SENDS - 1

\* what is counted as sent to a neighbour was sent
CountedWasSent ==
  \A r \in requests : req[r].ip \in Neighbour => req[r].probes >= req[r].times_sent

\* GiveUpAfterAllProbes without the guard of Handling that undefined is FALSE
Probed ==
  \A t \in Thread :
    pc[t] = "report" /\ ref[t] \in requests /\ req[ref[t]].ip \in Neighbour
      => req[ref[t]].probes >= MAX_SENDS

Inv ==
  /\ TypeOK
  /\ Sound
  /\ OneRequestPerAddress
  /\ PendingIsQueued
  /\ QueuedFates
  /\ GivenUpByReport
  /\ ErrorsInTurn
  /\ References
  /\ Walk
  /\ WorkIsQueued
  /\ RoomToSend
  /\ CountedWasSent
  /\ Probed

(***************************************************************************)
(* Packets and requests.                                                   *)
(***************************************************************************)
LEMMA DatagramHop ==
  ASSUME NEW p \in Pkt
  PROVE  <<p, 0>> \in Packet /\ HopOf(<<p, 0>>) = NextHop[p] /\ NextHop[p] \in Address
BY ArpAssumption DEF Packet, HopOf, Address

LEMMA ErrorFacts ==
  ASSUME NEW k \in Packet, CanAnswer(k)
  PROVE  /\ ErrorAbout(k) \in Packet
         /\ ErrorAbout(k) # k
         /\ ErrorAbout(k) = <<k[1], k[2] + 1>>
         /\ HopOf(ErrorAbout(k)) \in Address
<1>1. k[1] \in Pkt /\ k[2] \in 0 .. 2 /\ k = <<k[1], k[2]>>
  BY DEF Packet, CanAnswer
<1>2. ErrorAbout(k) = <<k[1], k[2] + 1>>
  BY <1>1 DEF ErrorAbout
<1>3. BackHop[k[1]] \in Neighbour
  BY <1>1, ArpAssumption DEF CanAnswer
<1>4. HopOf(ErrorAbout(k)) = IF k[2] = 0 THEN BackHop[k[1]] ELSE OwnOf[BackHop[k[1]]]
  BY <1>1, <1>2, <1>3, ArpAssumption DEF HopOf
<1>5. OwnOf[BackHop[k[1]]] \in Own
  BY <1>3, ArpAssumption
<1>6. ErrorAbout(k) \in Packet /\ ErrorAbout(k) # k
  BY <1>1, <1>2 DEF Packet
<1> QED BY <1>2, <1>3, <1>4, <1>5, <1>6 DEF Address

LEMMA BlankType == Blank \in Request
BY ArpAssumption DEF Blank, Request

(***************************************************************************)
(* sr_arpcache_queuereq, seen from its caller.                             *)
(***************************************************************************)
Queued(k, r) ==
  /\ requests' = requests \cup {r}
  /\ req' \in [Req -> Request]
  /\ \A q \in Req \ {r} : req'[q] = req[q]
  /\ req'[r].ip = HopOf(k)
  /\ req'[r].packets = (IF r \in requests THEN req[r].packets ELSE {}) \cup {k}
  /\ IF r \in requests
     THEN /\ req[r].ip = HopOf(k)
          /\ req'[r].sent = req[r].sent
          /\ req'[r].times_sent = req[r].times_sent
          /\ req'[r].probes = req[r].probes
     ELSE /\ RequestsFor(HopOf(k)) = {}
          /\ \A t \in Thread : ref[t] # r
          /\ req'[r].sent = NEVER
          /\ req'[r].times_sent = 0
          /\ req'[r].probes = 0

LEMMA QueueReqFacts ==
  ASSUME TypeOK, NEW k \in Packet, HopOf(k) \in Address, NEW r \in Req, QueueReq(k, r)
  PROVE  Queued(k, r)
<1>0. req \in [Req -> Request] /\ requests \subseteq Req
  BY DEF TypeOK
<1>1. CASE r \in RequestsFor(HopOf(k)) /\ req' = [req EXCEPT ![r].packets = @ \cup {k}]
           /\ UNCHANGED requests
  <2>1. r \in requests /\ req[r].ip = HopOf(k)
    BY <1>1 DEF RequestsFor
  <2>2. req[r] \in Request
    BY <1>0
  <2>3. req'[r] = [req[r] EXCEPT !.packets = @ \cup {k}]
    BY <1>0, <1>1
  <2>4. req'[r] \in Request
    BY <2>2, <2>3 DEF Request
  <2>5. /\ req'[r].ip = req[r].ip
        /\ req'[r].packets = req[r].packets \cup {k}
        /\ req'[r].sent = req[r].sent
        /\ req'[r].times_sent = req[r].times_sent
        /\ req'[r].probes = req[r].probes
    BY <2>2, <2>3 DEF Request
  <2>6. \A q \in Req \ {r} : req'[q] = req[q]
    BY <1>0, <1>1
  <2>7. req' \in [Req -> Request]
    BY <1>0, <1>1, <2>2 DEF Request
  <2> QED BY <1>1, <2>1, <2>5, <2>6, <2>7 DEF Queued
<1>2. CASE /\ RequestsFor(HopOf(k)) = {}
           /\ r \in FreeReq
           /\ requests' = requests \cup {r}
           /\ req' = [req EXCEPT ![r] = RequestWith(k)]
  <2>1. r \notin requests /\ \A t \in Thread : ref[t] # r
    BY <1>2 DEF FreeReq
  <2>2. RequestWith(k) \in Request
    BY ArpAssumption DEF RequestWith, Request
  <2>4. req'[r] = RequestWith(k)
    BY <1>0, <1>2
  <2>5. \A q \in Req \ {r} : req'[q] = req[q]
    BY <1>0, <1>2
  <2>6. req' \in [Req -> Request]
    BY <1>0, <1>2, <2>2
  <2> QED BY <1>2, <2>1, <2>4, <2>5, <2>6 DEF Queued, RequestWith
<1> QED BY <1>1, <1>2 DEF QueueReq

(***************************************************************************)
(* A fresh packet k is queued, perhaps as the error about a packet j that  *)
(* is given up with that; j = k when there is none.                        *)
(***************************************************************************)
QueuedFor(k, j) ==
  /\ fate \in [Packet -> {"fresh", "pending", "forwarded", "reported", "discarded",
                          "orphaned", "freed"}]
  /\ fate' = [fate EXCEPT ![j] = "reported", ![k] = "pending"]

LEMMA QueueStep ==
  ASSUME Inv, NEW k \in Packet, NEW j \in Packet, NEW r \in Req, HopOf(k) \in Address,
         fate[k] = "fresh", Queued(k, r), QueuedFor(k, j)
  PROVE  Sound' /\ OneRequestPerAddress' /\ PendingIsQueued' /\ QueuedFates' /\ CountedWasSent'
<1> USE DEF Inv
<1>0. requests \subseteq Req /\ r \in Req /\ requests' = requests \cup {r}
  BY DEF TypeOK, Queued
<1>1. \A q \in requests \ {r} : req'[q] = req[q]
  BY <1>0 DEF Queued
<1>2. Sound'
  BY <1>0, <1>1 DEF Sound, Queued
<1>3. OneRequestPerAddress'
  BY <1>0, <1>1 DEF OneRequestPerAddress, Queued, RequestsFor
<1>4. PendingIsQueued'
  <2>1. ASSUME NEW x \in Packet, fate'[x] = "pending", x # k
        PROVE  \E q \in requests' : req'[q].ip = HopOf(x) /\ x \in req'[q].packets
    <3>1. fate[x] = "pending"
      BY <2>1 DEF QueuedFor
    <3>2. PICK q \in requests : req[q].ip = HopOf(x) /\ x \in req[q].packets
      BY <3>1 DEF PendingIsQueued
    <3>3. CASE q = r
      BY <1>0, <3>2, <3>3 DEF Queued
    <3>4. CASE q # r
      BY <1>0, <1>1, <3>2, <3>4
    <3> QED BY <3>3, <3>4
  <2>2. r \in requests' /\ req'[r].ip = HopOf(k) /\ k \in req'[r].packets
    BY <1>0 DEF Queued
  <2> QED BY <2>1, <2>2 DEF PendingIsQueued
<1>5. QueuedFates'
  <2>1. ASSUME NEW q \in requests, NEW x \in req[q].packets
        PROVE  fate'[x] \in {"pending", "reported", "discarded"}
    <3>1. fate[x] \in {"pending", "reported", "discarded"}
      BY DEF QueuedFates
    <3>2. x \in Packet
      BY <1>0 DEF TypeOK, Request
    <3> QED BY <3>1, <3>2 DEF QueuedFor
  <2>2. fate'[k] = "pending"
    BY DEF QueuedFor
  <2>3. \A q \in requests' : \A x \in req'[q].packets :
          x = k \/ (q \in requests /\ x \in req[q].packets)
    BY <1>0, <1>1 DEF Queued
  <2> QED BY <2>1, <2>2, <2>3 DEF QueuedFates
<1>6. CountedWasSent'
  BY <1>0, <1>1 DEF CountedWasSent, Queued
<1> QED BY <1>2, <1>3, <1>4, <1>5, <1>6

(***************************************************************************)
(* Frames the main thread handles: both threads are out of handle_arpreq.  *)
(***************************************************************************)
LEMMA BothOut ==
  ASSUME Inv, MainFree
  PROVE  \A t \in Thread : pc[t] = "idle" /\ ref[t] = None
BY DEF Inv, References, MainFree, Locked, Thread, InHandle

LEMMA ForwardMappedStep ==
  ASSUME Inv, NEW p \in Pkt, ForwardMapped(p)
  PROVE  Inv'
<1> DEFINE k == <<p, 0>>
<1> USE DEF Inv
<1>1. /\ fate[k] = "fresh" /\ fate' = [fate EXCEPT ![k] = "forwarded"] /\ k \in Packet
      /\ UNCHANGED <<entries, requests, req, pc, ref, now, work, todo, undefined>>
  BY DatagramHop DEF ForwardMapped
<1> HIDE DEF k
<1>2. TypeOK'
  BY <1>1 DEF TypeOK
<1>3. \A q \in requests : \A x \in req[q].packets : fate'[x] = fate[x]
  BY <1>1 DEF QueuedFates, TypeOK
<1>4. Sound' /\ OneRequestPerAddress' /\ References' /\ Walk' /\ WorkIsQueued'
      /\ RoomToSend' /\ CountedWasSent' /\ Probed'
  BY <1>1 DEF Sound, OneRequestPerAddress, References, Walk, SweepRequestsAreLinked,
              WorkIsQueued, RoomToSend, CountedWasSent, Probed
<1>5. PendingIsQueued'
  BY <1>1 DEF PendingIsQueued, TypeOK
<1>6. QueuedFates' /\ GivenUpByReport'
  BY <1>1, <1>3 DEF QueuedFates, GivenUpByReport
<1>7. ErrorsInTurn'
  <2>1. ASSUME NEW q \in Pkt, NEW i \in 0 .. 2, fate'[<<q, i>>] \in {"fresh", "pending"}
        PROVE  fate'[<<q, i + 1>>] = "fresh"
    <3>1. <<q, i>> \in Packet /\ <<q, i + 1>> \in Packet
      BY DEF Packet
    <3>2. fate[<<q, i>>] \in {"fresh", "pending"}
      BY <1>1, <2>1, <3>1 DEF TypeOK
    <3>3. fate[<<q, i + 1>>] = "fresh"
      BY <3>2 DEF ErrorsInTurn
    <3>4. <<q, i + 1>> # k
      BY DEF k
    <3> QED BY <1>1, <3>1, <3>3, <3>4 DEF TypeOK
  <2> QED BY <2>1 DEF ErrorsInTurn
<1> QED BY <1>2, <1>4, <1>5, <1>6, <1>7

\* Packet j is answered with the error k, or (j = k) datagram k is handed over: the
\* error about j becomes due only now that j has been given up.
LEMMA InTurnStep ==
  ASSUME Inv, NEW j \in Packet, NEW k \in Packet, NEW f,
         fate' = [fate EXCEPT ![j] = "reported", ![k] = f],
         fate[k] = "fresh", f \in {"pending", "forwarded"},
         \/ k = j /\ k[2] = 0
         \/ /\ k = <<j[1], j[2] + 1>>
            /\ fate[j] = "pending" \/ (fate[j] = "fresh" /\ j[2] = 0)
  PROVE  ErrorsInTurn'
<1> USE DEF Inv
<1>1. ASSUME NEW q \in Pkt, NEW i \in 0 .. 2, fate'[<<q, i>>] \in {"fresh", "pending"}
      PROVE  fate'[<<q, i + 1>>] = "fresh"
  <2>1. <<q, i>> \in Packet /\ <<q, i + 1>> \in Packet
    BY DEF Packet
  <2>2. fate[<<q, i>>] \in {"fresh", "pending"}
    BY <1>1, <2>1 DEF TypeOK
  <2>3. fate[<<q, i + 1>>] = "fresh"
    BY <2>2 DEF ErrorsInTurn
  <2>4. <<q, i + 1>> # j
    <3>1. CASE k = j /\ k[2] = 0
      BY <3>1
    <3>2. CASE fate[j] = "pending"
      BY <2>3, <3>2
    <3>3. CASE j[2] = 0
      BY <3>3
    <3> QED BY <3>1, <3>2, <3>3
  <2>5. ASSUME <<q, i + 1>> = k PROVE FALSE
    <3>1. CASE k = j
      BY <2>4, <2>5, <3>1
    <3>2. CASE k # j /\ k = <<j[1], j[2] + 1>>
      <4>1. j = <<j[1], j[2]>> /\ j[2] \in 0 .. 3
        BY DEF Packet
      <4>2. <<q, i>> = j
        BY <2>5, <3>2, <4>1
      <4>3. fate'[j] = "reported"
        BY <3>2 DEF TypeOK
      <4> QED BY <1>1, <4>2, <4>3
    <3> QED BY <3>1, <3>2
  <2> QED BY <2>1, <2>3, <2>4, <2>5 DEF TypeOK
<1> QED BY <1>1 DEF ErrorsInTurn

LEMMA ForwardUnmappedStep ==
  ASSUME Inv, NEW p \in Pkt, ForwardUnmapped(p)
  PROVE  Inv'
<1> DEFINE k == <<p, 0>>
<1> USE DEF Inv
<1>1. PICK r \in Req : QueueReq(k, r) /\ ref' = [ref EXCEPT !["main"] = r]
  BY DEF ForwardUnmapped
<1>2. /\ fate[k] = "fresh" /\ fate' = [fate EXCEPT ![k] = "pending"]
      /\ pc' = [pc EXCEPT !["main"] = "decide"]
      /\ UNCHANGED <<entries, now, work, todo, undefined>>
      /\ MainFree
  BY DEF ForwardUnmapped
<1>3. k \in Packet /\ HopOf(k) \in Address /\ k[2] = 0
  BY DatagramHop
<1> HIDE DEF k
<1>4. Queued(k, r)
  BY <1>1, <1>3, QueueReqFacts
<1>5. QueuedFor(k, k)
  BY <1>2, <1>3 DEF QueuedFor, TypeOK
<1>6. Sound' /\ OneRequestPerAddress' /\ PendingIsQueued' /\ QueuedFates' /\ CountedWasSent'
  BY <1>2, <1>3, <1>4, <1>5, QueueStep
<1>7. TypeOK'
  BY <1>1, <1>2, <1>3, <1>4 DEF TypeOK, Queued, Thread, InHandle
<1>8. ErrorsInTurn'
  <2>1. fate' = [fate EXCEPT ![k] = "reported", ![k] = "pending"]
    BY <1>5 DEF QueuedFor
  <2> QED BY <1>2, <1>3, <2>1, InTurnStep
<1>9. /\ \A t \in Thread : pc[t] = "idle" /\ ref[t] = None
      /\ pc'["main"] = "decide" /\ pc'["sweep"] = "idle"
      /\ ref'["main"] = r /\ ref'["sweep"] = None
  BY <1>1, <1>2, BothOut DEF TypeOK, Thread
<1>10. References' /\ WorkIsQueued' /\ RoomToSend' /\ Probed'
  BY <1>9 DEF References, WorkIsQueued, RoomToSend, Probed, Thread, InHandle
<1>11. Walk'
  BY <1>2, <1>4, <1>9 DEF Walk, SweepRequestsAreLinked, Queued, InHandle, Thread
<1>12. GivenUpByReport'
  <2>1. ASSUME NEW q \in requests', NEW x \in req'[q].packets
        PROVE  fate'[x] = "pending"
    <3>1. CASE x = k
      BY <1>2, <1>3, <3>1 DEF TypeOK
    <3>2. CASE x # k
      <4>1. q \in requests /\ x \in req[q].packets
        BY <1>4, <3>2 DEF Queued, TypeOK
      <4>2. fate[x] = "pending"
        BY <1>9, <4>1 DEF GivenUpByReport
      <4>3. x \in Packet
        BY <4>1 DEF TypeOK, Request
      <4> QED BY <1>2, <3>2, <4>2, <4>3 DEF TypeOK
    <3> QED BY <3>1, <3>2
  <2> QED BY <2>1 DEF GivenUpByReport
<1> QED BY <1>6, <1>7, <1>8, <1>10, <1>11, <1>12

(***************************************************************************)
(* sr_send_icmp_error_packet, seen from its callers: packet k is given up. *)
(***************************************************************************)
GivenUp(k) ==
  /\ requests \subseteq requests' /\ requests' \subseteq Req
  /\ req' \in [Req -> Request]
  /\ fate' \in [Packet -> {"fresh", "pending", "forwarded", "reported", "discarded",
                           "orphaned", "freed"}]
  /\ fate'[k] \in {"reported", "discarded"}
  \* what the threads see of the requests they hold
  /\ \A t \in Thread : ref[t] \in Req =>
       /\ ref[t] \in requests' <=> ref[t] \in requests
       /\ req'[ref[t]].ip = req[ref[t]].ip
       /\ req'[ref[t]].times_sent = req[ref[t]].times_sent
       /\ req'[ref[t]].probes = req[ref[t]].probes
       /\ req[ref[t]].packets \subseteq req'[ref[t]].packets
  \* k is the only queued packet that stops waiting
  /\ \A q \in requests' : \A x \in req'[q].packets :
       fate'[x] # "pending" =>
         /\ q \in requests
         /\ x \in req[q].packets
         /\ fate[x] # "pending" \/ x = k

LEMMA SendErrorStep ==
  ASSUME Inv, NEW k \in Packet, SendError(k),
         fate[k] = "pending" \/ (fate[k] = "fresh" /\ k[2] = 0 /\ CanAnswer(k))
  PROVE  /\ GivenUp(k)
         /\ Sound' /\ OneRequestPerAddress' /\ PendingIsQueued' /\ QueuedFates'
         /\ CountedWasSent' /\ ErrorsInTurn'
<1> USE DEF Inv
<1> DEFINE e == ErrorAbout(k)
<1>0. /\ requests \subseteq Req /\ req \in [Req -> Request]
      /\ fate \in [Packet -> {"fresh", "pending", "forwarded", "reported", "discarded",
                              "orphaned", "freed"}]
  BY DEF TypeOK
<1>1. \A q \in requests : req[q].packets \subseteq Packet
  BY <1>0 DEF Request
<1>2. CASE ~CanAnswer(k)
  <2>1. /\ fate[k] = "pending" /\ fate' = [fate EXCEPT ![k] = "discarded"]
        /\ UNCHANGED <<requests, req>>
    BY <1>2 DEF SendError
  <2>2. GivenUp(k)
    BY <1>0, <1>1, <2>1 DEF GivenUp
  <2>3. Sound' /\ OneRequestPerAddress' /\ CountedWasSent'
    BY <2>1 DEF Sound, OneRequestPerAddress, CountedWasSent
  <2>4. PendingIsQueued'
    BY <1>0, <2>1 DEF PendingIsQueued
  <2>5. QueuedFates'
    BY <1>0, <1>1, <2>1 DEF QueuedFates
  <2>6. ErrorsInTurn'
    <3>1. ASSUME NEW q \in Pkt, NEW i \in 0 .. 2, fate'[<<q, i>>] \in {"fresh", "pending"}
          PROVE  fate'[<<q, i + 1>>] = "fresh"
      <4>1. <<q, i>> \in Packet /\ <<q, i + 1>> \in Packet
        BY DEF Packet
      <4>2. fate[<<q, i>>] \in {"fresh", "pending"}
        BY <1>0, <2>1, <3>1, <4>1
      <4>3. fate[<<q, i + 1>>] = "fresh"
        BY <4>2 DEF ErrorsInTurn
      <4> QED BY <1>0, <2>1, <4>1, <4>3
    <3> QED BY <3>1 DEF ErrorsInTurn
  <2> QED BY <2>2, <2>3, <2>4, <2>5, <2>6
<1>3. ASSUME CanAnswer(k)
      PROVE  /\ e \in Packet /\ e # k /\ e = <<k[1], k[2] + 1>> /\ HopOf(e) \in Address
             /\ fate[e] = "fresh"
  <2>1. e \in Packet /\ e # k /\ e = <<k[1], k[2] + 1>> /\ HopOf(e) \in Address
    BY <1>3, ErrorFacts
  <2>2. k[1] \in Pkt /\ k[2] \in 0 .. 2 /\ k = <<k[1], k[2]>>
    BY <1>3 DEF CanAnswer, Packet
  <2>3. fate[<<k[1], k[2]>>] \in {"fresh", "pending"}
    BY <2>2
  <2>4. fate[e] = "fresh"
    BY <2>1, <2>2, <2>3 DEF ErrorsInTurn
  <2> QED BY <2>1, <2>4
<1>4. CASE CanAnswer(k) /\ Mapped(HopOf(e))
  <2>1. /\ fate' = [fate EXCEPT ![k] = "reported", ![e] = "forwarded"]
        /\ UNCHANGED <<requests, req>>
    BY <1>4 DEF SendError
  <2>2. e \in Packet /\ e # k /\ e = <<k[1], k[2] + 1>> /\ fate[e] = "fresh"
    BY <1>3, <1>4
  <2> HIDE DEF e
  <2>3. fate' \in [Packet -> {"fresh", "pending", "forwarded", "reported", "discarded",
                              "orphaned", "freed"}]
    BY <1>0, <2>1
  <2>4. \A x \in Packet : fate'[x] = IF x = e THEN "forwarded" ELSE
                                     IF x = k THEN "reported" ELSE fate[x]
    BY <1>0, <2>1, <2>2
  <2>5. \A q \in requests : e \notin req[q].packets
    BY <2>2 DEF QueuedFates
  <2>6. GivenUp(k)
    BY <1>0, <1>1, <2>1, <2>2, <2>3, <2>4, <2>5 DEF GivenUp
  <2>7. Sound' /\ OneRequestPerAddress' /\ CountedWasSent'
    BY <2>1 DEF Sound, OneRequestPerAddress, CountedWasSent
  <2>8. PendingIsQueued'
    BY <2>1, <2>4 DEF PendingIsQueued
  <2>9. QueuedFates'
    BY <1>1, <2>1, <2>4, <2>5 DEF QueuedFates
  <2>10. ErrorsInTurn'
    <3>1. \/ e = k /\ e[2] = 0
          \/ /\ e = <<k[1], k[2] + 1>>
             /\ fate[k] = "pending" \/ (fate[k] = "fresh" /\ k[2] = 0)
      BY <2>2
    <3> QED BY <2>1, <2>2, <3>1, InTurnStep
  <2> QED BY <2>6, <2>7, <2>8, <2>9, <2>10
<1>5. CASE CanAnswer(k) /\ ~Mapped(HopOf(e))
  <2>1. fate' = [fate EXCEPT ![k] = "reported", ![e] = "pending"]
    BY <1>5 DEF SendError
  <2>2. PICK r \in Req : QueueReq(e, r)
    BY <1>5 DEF SendError
  <2>3. e \in Packet /\ e # k /\ e = <<k[1], k[2] + 1>> /\ fate[e] = "fresh" /\ HopOf(e) \in Address
    BY <1>3, <1>5
  <2> HIDE DEF e
  <2>4. Queued(e, r) /\ QueuedFor(e, k)
    BY <1>0, <2>1, <2>2, <2>3, QueueReqFacts DEF QueuedFor
  <2>5. Sound' /\ OneRequestPerAddress' /\ PendingIsQueued' /\ QueuedFates' /\ CountedWasSent'
    BY <2>3, <2>4, QueueStep
  <2>6. ErrorsInTurn'
    <3>1. \/ e = k /\ e[2] = 0
          \/ /\ e = <<k[1], k[2] + 1>>
             /\ fate[k] = "pending" \/ (fate[k] = "fresh" /\ k[2] = 0)
      BY <2>3
    <3> QED BY <2>1, <2>3, <3>1, InTurnStep
  <2>7. fate' \in [Packet -> {"fresh", "pending", "forwarded", "reported", "discarded",
                              "orphaned", "freed"}]
    BY <1>0, <2>1
  <2>8. \A x \in Packet : fate'[x] = IF x = e THEN "pending" ELSE
                                     IF x = k THEN "reported" ELSE fate[x]
    BY <1>0, <2>1, <2>3
  <2>9. \A q \in requests' : \A x \in req'[q].packets :
          x = e \/ (q \in requests /\ x \in req[q].packets)
    BY <1>0, <2>4 DEF Queued
  <2>10. GivenUp(k)
    <3>1. requests \subseteq requests' /\ requests' \subseteq Req /\ req' \in [Req -> Request]
      BY <1>0, <2>4 DEF Queued
    <3>2. ASSUME NEW t \in Thread, ref[t] \in Req
          PROVE  /\ ref[t] \in requests' <=> ref[t] \in requests
                 /\ req'[ref[t]].ip = req[ref[t]].ip
                 /\ req'[ref[t]].times_sent = req[ref[t]].times_sent
                 /\ req'[ref[t]].probes = req[ref[t]].probes
                 /\ req[ref[t]].packets \subseteq req'[ref[t]].packets
      <4>1. CASE ref[t] = r
        BY <2>4, <4>1 DEF Queued
      <4>2. CASE ref[t] # r
        BY <2>4, <3>2, <4>2 DEF Queued
      <4> QED BY <4>1, <4>2
    <3>3. ASSUME NEW q \in requests', NEW x \in req'[q].packets, fate'[x] # "pending"
          PROVE  /\ q \in requests
                 /\ x \in req[q].packets
                 /\ fate[x] # "pending" \/ x = k
      <4>1. x # e
        BY <2>3, <2>8, <3>3
      <4>2. q \in requests /\ x \in req[q].packets
        BY <2>9, <4>1
      <4> QED BY <1>1, <2>8, <3>3, <4>1, <4>2
    <3>4. fate'[k] = "reported"
      BY <2>3, <2>8
    <3> QED BY <2>7, <3>1, <3>2, <3>3, <3>4 DEF GivenUp
  <2> QED BY <2>5, <2>6, <2>10
<1> QED BY <1>2, <1>4, <1>5

LEMMA AnswerWithErrorStep ==
  ASSUME Inv, NEW p \in Pkt, AnswerWithError(p)
  PROVE  Inv'
<1> DEFINE k == <<p, 0>>
<1> USE DEF Inv
<1>1. /\ fate[k] = "fresh" /\ k[2] = 0 /\ CanAnswer(k) /\ k \in Packet /\ SendError(k) /\ MainFree
      /\ UNCHANGED <<entries, pc, ref, now, work, todo, undefined>>
  BY DatagramHop DEF AnswerWithError, CanAnswer
<1> HIDE DEF k
<1>2. /\ GivenUp(k)
      /\ Sound' /\ OneRequestPerAddress' /\ PendingIsQueued' /\ QueuedFates'
      /\ CountedWasSent' /\ ErrorsInTurn'
  BY <1>1, SendErrorStep
<1>3. TypeOK'
  BY <1>1, <1>2 DEF TypeOK, GivenUp
<1>4. \A t \in Thread : pc'[t] = "idle" /\ pc[t] = "idle" /\ ref'[t] = None
  BY <1>1, BothOut
<1>5. References' /\ WorkIsQueued' /\ RoomToSend' /\ Probed'
  BY <1>4 DEF References, WorkIsQueued, RoomToSend, Probed, Thread, InHandle
<1>6. Walk'
  BY <1>1, <1>2, <1>4 DEF Walk, SweepRequestsAreLinked, GivenUp, InHandle, Thread
<1>7. GivenUpByReport'
  <2>1. ASSUME NEW q \in requests', NEW x \in req'[q].packets
        PROVE  fate'[x] = "pending"
    <3>1. SUFFICES ASSUME fate'[x] # "pending" PROVE FALSE
      OBVIOUS
    <3>2. q \in requests /\ x \in req[q].packets /\ (fate[x] # "pending" \/ x = k)
      BY <1>2, <3>1 DEF GivenUp
    <3>3. fate[x] = "pending"
      BY <1>4, <3>2 DEF GivenUpByReport
    <3> QED BY <1>1, <3>2, <3>3
  <2> QED BY <2>1 DEF GivenUpByReport
<1> QED BY <1>2, <1>3, <1>5, <1>6, <1>7

\* A mapping arrives: the request of its address leaves the queue, and the packets of
\* the request all meet the fate f.
LEMMA LearnStep ==
  ASSUME Inv, NEW n \in Neighbour, MainFree, Insert(n), Unlink(n),
         NEW f, f \in {"forwarded", "orphaned"},
         fate' = [k \in Packet |-> IF k \in PacketsFor(n) THEN f ELSE fate[k]],
         UNCHANGED <<pc, ref, now, work, todo, undefined>>
  PROVE  Inv'
<1> USE DEF Inv
<1>0. /\ requests \subseteq Req /\ req \in [Req -> Request] /\ entries \in [Slot -> Neighbour \cup {None}]
      /\ fate \in [Packet -> {"fresh", "pending", "forwarded", "reported", "discarded",
                              "orphaned", "freed"}]
  BY DEF TypeOK
<1>1. /\ requests' = {r \in requests : req[r].ip # n}
      /\ \A r \in requests' : r \in requests /\ req'[r] = req[r] /\ req[r].ip # n
  BY <1>0 DEF Unlink, RequestsFor
<1>2. req' \in [Req -> Request]
  BY <1>0, BlankType DEF Unlink
<1>3. entries' \in [Slot -> Neighbour \cup {None}]
  BY <1>0 DEF Insert
<1>4. TypeOK'
  BY <1>0, <1>1, <1>2, <1>3 DEF TypeOK
<1>5. \A t \in Thread : pc'[t] = "idle" /\ pc[t] = "idle" /\ ref'[t] = None
  BY BothOut
<1>6. References' /\ WorkIsQueued' /\ RoomToSend' /\ Probed'
  BY <1>5 DEF References, WorkIsQueued, RoomToSend, Probed, Thread, InHandle
<1>7. Walk'
  BY <1>5 DEF Walk, SweepRequestsAreLinked, InHandle, Thread
<1>8. Sound' /\ OneRequestPerAddress' /\ CountedWasSent'
  BY <1>1 DEF Sound, OneRequestPerAddress, CountedWasSent
<1>9. \A k \in Packet : k \in PacketsFor(n) =>
        fate[k] \in {"pending", "reported", "discarded"}
  BY DEF PacketsFor, RequestsFor, QueuedFates
<1>10. PendingIsQueued'
  <2>1. ASSUME NEW k \in Packet, fate'[k] = "pending"
        PROVE  \E r \in requests' : req'[r].ip = HopOf(k) /\ k \in req'[r].packets
    <3>1. k \notin PacketsFor(n) /\ fate[k] = "pending"
      BY <2>1
    <3>2. PICK r \in requests : req[r].ip = HopOf(k) /\ k \in req[r].packets
      BY <3>1 DEF PendingIsQueued
    <3>3. req[r].ip # n
      BY <3>1, <3>2 DEF PacketsFor, RequestsFor
    <3> QED BY <1>1, <3>2, <3>3
  <2> QED BY <2>1 DEF PendingIsQueued
<1>11. ASSUME NEW r \in requests', NEW k \in req'[r].packets
       PROVE  fate'[k] = "pending"
  <2>1. r \in requests /\ k \in req[r].packets /\ req[r].ip # n
    BY <1>1
  <2>2. k \in Packet /\ HopOf(k) = req[r].ip
    BY <1>0, <2>1 DEF Request, Sound
  <2>3. k \notin PacketsFor(n)
    BY <2>1, <2>2 DEF PacketsFor, RequestsFor, Sound
  <2>4. fate[k] = "pending"
    BY <1>5, <2>1 DEF GivenUpByReport
  <2> QED BY <2>2, <2>3, <2>4
<1>12. QueuedFates' /\ GivenUpByReport'
  BY <1>11 DEF QueuedFates, GivenUpByReport
<1>13. ErrorsInTurn'
  <2>1. ASSUME NEW q \in Pkt, NEW i \in 0 .. 2, fate'[<<q, i>>] \in {"fresh", "pending"}
        PROVE  fate'[<<q, i + 1>>] = "fresh"
    <3>1. <<q, i>> \in Packet /\ <<q, i + 1>> \in Packet
      BY DEF Packet
    <3>2. fate[<<q, i>>] \in {"fresh", "pending"}
      BY <2>1, <3>1
    <3>3. fate[<<q, i + 1>>] = "fresh"
      BY <3>2 DEF ErrorsInTurn
    <3> QED BY <1>9, <3>1, <3>3
  <2> QED BY <2>1 DEF ErrorsInTurn
<1> QED BY <1>4, <1>6, <1>7, <1>8, <1>10, <1>12, <1>13

(***************************************************************************)
(* handle_arpreq.                                                          *)
(***************************************************************************)
LEMMA ReturnFacts ==
  ASSUME Inv, NEW t \in Thread, Return(t)
  PROVE  /\ pc' \in [Thread -> {"idle", "next"} \cup InHandle]
         /\ ref' \in [Thread -> Req \cup {None}]
         /\ now' \in [Thread -> 0 .. CALL_SECONDS]
         /\ pc'[t] = (IF t = "main" THEN "idle" ELSE "next") /\ ref'[t] = None
         /\ \A u \in Thread \ {t} : pc'[u] = pc[u] /\ ref'[u] = ref[u]
BY DEF Inv, TypeOK, Return, CALL_SECONDS, Thread

LEMMA DecideStep ==
  ASSUME Inv, NEW t \in Thread, Decide(t)
  PROVE  Inv'
<1> USE DEF Inv
<1>1. /\ pc[t] = "decide" /\ ref[t] \in requests /\ ref[t] \in Req
      /\ UNCHANGED <<entries, requests, req, fate, todo, undefined>>
  BY DEF Decide, Handling, TypeOK
<1>2. Sound' /\ OneRequestPerAddress' /\ PendingIsQueued' /\ QueuedFates' /\ ErrorsInTurn'
      /\ CountedWasSent'
  BY <1>1 DEF Sound, OneRequestPerAddress, PendingIsQueued, QueuedFates, ErrorsInTurn,
              CountedWasSent
<1>3. GivenUpByReport'
  <2>1. ASSUME NEW u \in Thread, pc[u] = "report" PROVE pc'[u] = "report" /\ ref'[u] = ref[u]
    BY <1>1, <2>1 DEF Decide, Return, TypeOK
  <2> QED BY <1>1, <2>1 DEF GivenUpByReport
<1>4. CASE pc' = [pc EXCEPT ![t] = "first"] /\ UNCHANGED <<ref, now, work>>
  <2>1. TypeOK'
    BY <1>1, <1>4 DEF TypeOK, InHandle
  <2>2. References' /\ Walk' /\ WorkIsQueued' /\ RoomToSend' /\ Probed'
    BY <1>1, <1>4 DEF References, Walk, SweepRequestsAreLinked, WorkIsQueued, RoomToSend,
                      Probed, TypeOK, InHandle, Thread
  <2> QED BY <1>2, <1>3, <2>1, <2>2
<1>5. CASE ~AllSent(t) /\ pc' = [pc EXCEPT ![t] = "again"] /\ UNCHANGED <<ref, now, work>>
  <2>1. TypeOK'
    BY <1>1, <1>5 DEF TypeOK, InHandle
  <2>2. References' /\ Walk' /\ WorkIsQueued' /\ Probed'
    BY <1>1, <1>5 DEF References, Walk, SweepRequestsAreLinked, WorkIsQueued,
                      Probed, TypeOK, InHandle, Thread
  <2>3. RoomToSend'
    <3>1. req[ref[t]].times_sent \in Nat /\ MAX_SENDS \in Nat
      BY <1>1, ArpAssumption DEF TypeOK, Request
    <3>2. req[ref[t]].times_sent <= MAX_SENDS - 1
      BY <1>5, <3>1 DEF AllSent
    <3> QED BY <1>1, <1>5, <3>1, <3>2 DEF RoomToSend, TypeOK
  <2> QED BY <1>2, <1>3, <2>1, <2>2, <2>3
<1>6. CASE /\ AllSent(t) /\ pc' = [pc EXCEPT ![t] = "report"]
           /\ work' = [work EXCEPT ![t] = req[ref[t]].packets] /\ UNCHANGED <<ref, now>>
  <2>1. TypeOK'
    BY <1>1, <1>6 DEF TypeOK, InHandle, Request
  <2>2. References' /\ Walk' /\ RoomToSend'
    BY <1>1, <1>6 DEF References, Walk, SweepRequestsAreLinked, RoomToSend,
                      TypeOK, InHandle, Thread
  <2>3. WorkIsQueued'
    BY <1>1, <1>6 DEF WorkIsQueued, TypeOK
  <2>4. Probed'
    <3>1. /\ req[ref[t]].times_sent >= MAX_SENDS
          /\ req[ref[t]].times_sent \in Nat /\ req[ref[t]].probes \in Nat /\ MAX_SENDS \in Nat
      BY <1>1, <1>6, ArpAssumption DEF AllSent, TypeOK, Request
    <3>2. req[ref[t]].ip \in Neighbour => req[ref[t]].probes >= MAX_SENDS
      BY <1>1, <3>1 DEF CountedWasSent
    <3> QED BY <1>1, <1>6, <3>2 DEF Probed, TypeOK
  <2> QED BY <1>2, <1>3, <2>1, <2>2, <2>3, <2>4
<1>7. CASE Return(t) /\ UNCHANGED work
  <2>1. TypeOK'
    BY <1>1, <1>7, ReturnFacts DEF TypeOK
  <2>2. References' /\ Walk' /\ WorkIsQueued' /\ RoomToSend' /\ Probed'
    BY <1>1, <1>7, ReturnFacts DEF References, Walk, SweepRequestsAreLinked, WorkIsQueued,
                                   RoomToSend, Probed, InHandle, Thread
  <2> QED BY <1>2, <1>3, <2>1, <2>2
<1> QED BY <1>4, <1>5, <1>6, <1>7 DEF Decide

LEMMA ProbeStep ==
  ASSUME Inv, NEW t \in Thread, Probe(t)
  PROVE  Inv'
<1> USE DEF Inv
<1> DEFINE a == ref[t]
<1>1. /\ pc[t] \in {"first", "again"} /\ a \in requests /\ a \in Req /\ Return(t)
      /\ UNCHANGED <<entries, requests, fate, work, todo, undefined>>
  BY DEF Probe, Handling, TypeOK
<1>2. req \in [Req -> Request] /\ now[t] \in 0 .. CALL_SECONDS /\ MAX_SENDS \in Nat \ {0}
  BY ArpAssumption DEF TypeOK
<1>3. PICK count \in IF pc[t] = "first" THEN {1} ELSE Incremented(t) :
        req' = [req EXCEPT ![a] =
          [ip |-> @.ip, sent |-> now[t], times_sent |-> count, packets |-> @.packets,
           probes |-> IF @.ip \in Own THEN @.probes ELSE @.probes + 1]]
  BY DEF Probe
<1>4. /\ req[a].times_sent \in 0 .. MAX_SENDS + 1 /\ req[a].probes \in Nat
      /\ req[a].ip \in Address /\ req[a].packets \subseteq Packet
  BY <1>1, <1>2 DEF Request, Sound
<1>5. /\ count \in 0 .. MAX_SENDS + 1 /\ count <= req[a].times_sent + 1
      /\ \A u \in Thread \ {t} : pc[u] = "again" /\ ref[u] = a => count <= MAX_SENDS
  <2>1. CASE pc[t] = "first"
    BY <1>2, <1>3, <1>4, <2>1
  <2>2. CASE pc[t] = "again"
    <3>1. /\ req[a].times_sent <= MAX_SENDS
          /\ \A u \in Thread \ {t} :
               pc[u] = "again" /\ ref[u] = a => req[a].times_sent <= MAX_SENDS - 1
      BY <2>2 DEF RoomToSend
    <3>2. count \in {req[a].times_sent, req[a].times_sent + 1}
      BY <1>3, <2>2 DEF Incremented
    <3> QED BY <1>2, <1>4, <3>1, <3>2
  <2> QED BY <1>1, <2>1, <2>2
<1>6. /\ req'[a].ip = req[a].ip /\ req'[a].packets = req[a].packets
      /\ req'[a].times_sent = count
      /\ req'[a].probes = (IF req[a].ip \in Own THEN req[a].probes ELSE req[a].probes + 1)
      /\ \A q \in Req \ {a} : req'[q] = req[q]
  BY <1>1, <1>2, <1>3
<1>7. req' \in [Req -> Request]
  BY <1>1, <1>2, <1>3, <1>4, <1>5 DEF Request, CALL_SECONDS, AGE_CAP
<1> HIDE DEF a
<1>8. TypeOK'
  BY <1>1, <1>7, ReturnFacts DEF TypeOK
<1>9. \A q \in requests : req'[q].ip = req[q].ip /\ req'[q].packets = req[q].packets
  BY <1>6, <1>8 DEF TypeOK
<1>10. Sound' /\ OneRequestPerAddress' /\ PendingIsQueued' /\ QueuedFates' /\ ErrorsInTurn'
  BY <1>1, <1>9 DEF Sound, OneRequestPerAddress, PendingIsQueued, QueuedFates, ErrorsInTurn
<1>11. \A u \in Thread \ {t} : pc'[u] = pc[u] /\ ref'[u] = ref[u]
  BY <1>1, ReturnFacts
<1>12. pc'[t] \in {"idle", "next"} /\ ref'[t] = None /\ (t = "main" => pc'[t] = "idle")
  BY <1>1, ReturnFacts
<1>13. GivenUpByReport'
  BY <1>1, <1>9, <1>11 DEF GivenUpByReport
<1>14. References' /\ Walk'
  <2>1. \A u \in Thread : pc'[u] \in InHandle => pc[u] \in InHandle /\ ref'[u] = ref[u]
    BY <1>11, <1>12 DEF InHandle
  <2>2. \A u \in Thread : pc'[u] \notin InHandle => ref'[u] = None
    BY <1>11, <1>12 DEF References
  <2>3. pc'["main"] # "next"
    BY <1>11, <1>12 DEF References, Thread
  <2>4. References'
    BY <2>1, <2>2, <2>3 DEF References
  <2>5. pc'["sweep"] = "idle" => pc["sweep"] = "idle"
    <3>1. t = "sweep" => pc'[t] = "next"
      BY <1>1, ReturnFacts DEF Thread
    <3> QED BY <1>11, <3>1 DEF Thread
  <2>6. Walk'
    BY <1>1, <2>1, <2>5 DEF Walk, SweepRequestsAreLinked, Thread
  <2> QED BY <2>4, <2>6
<1>15. WorkIsQueued'
  BY <1>1, <1>9, <1>11, <1>12 DEF WorkIsQueued
<1>16. RoomToSend'
  <2>1. ASSUME NEW u \in Thread, pc'[u] = "again"
        PROVE  /\ req'[ref'[u]].times_sent <= MAX_SENDS
               /\ \A v \in Thread \ {u} : ~(pc'[v] = "again" /\ ref'[v] = ref'[u])
                    \/ req'[ref'[u]].times_sent <= MAX_SENDS - 1
    <3>1. u # t /\ pc[u] = "again" /\ ref'[u] = ref[u] /\ ref[u] \in Req
      BY <1>11, <1>12, <2>1 DEF References, InHandle
    <3>2. \A v \in Thread \ {u} : v = t
      BY <3>1 DEF Thread
    <3>3. req'[ref[u]].times_sent <= MAX_SENDS
      <4>1. CASE ref[u] = a
        BY <1>5, <1>6, <3>1, <4>1
      <4>2. CASE ref[u] # a
        BY <1>6, <3>1, <4>2 DEF RoomToSend
      <4> QED BY <4>1, <4>2
    <3> QED BY <1>12, <3>1, <3>2, <3>3
  <2> QED BY <2>1 DEF RoomToSend
<1>17. CountedWasSent'
  <2>1. ASSUME NEW q \in requests, req'[q].ip \in Neighbour
        PROVE  req'[q].probes >= req'[q].times_sent
    <3>1. CASE q = a
      <4>1. req[a].ip \notin Own
        BY <1>6, <2>1, <3>1, ArpAssumption
      <4>2. req[a].probes >= req[a].times_sent
        BY <1>1, <1>6, <2>1, <3>1 DEF CountedWasSent
      <4> QED BY <1>4, <1>5, <1>6, <3>1, <4>1, <4>2
    <3>2. CASE q # a
      BY <1>6, <1>8, <2>1, <3>2 DEF CountedWasSent, TypeOK
    <3> QED BY <3>1, <3>2
  <2> QED BY <1>1, <2>1 DEF CountedWasSent
<1>18. Probed'
  <2>1. \A q \in requests : req'[q].probes >= req[q].probes
    BY <1>4, <1>6, <1>8 DEF TypeOK, Request
  <2>2. ASSUME NEW u \in Thread, pc'[u] = "report", ref'[u] \in requests,
               req'[ref'[u]].ip \in Neighbour
        PROVE  req'[ref'[u]].probes >= MAX_SENDS
    <3>1. u # t /\ pc[u] = "report" /\ ref'[u] = ref[u]
      BY <1>11, <1>12, <2>2
    <3>2. req[ref[u]].probes >= MAX_SENDS
      BY <1>9, <2>2, <3>1 DEF Probed
    <3>3. req[ref[u]].probes \in Nat /\ req'[ref[u]].probes \in Nat
      BY <1>1, <1>8, <2>2, <3>1 DEF TypeOK, Request
    <3> QED BY <1>2, <2>1, <2>2, <3>1, <3>2, <3>3
  <2> QED BY <1>1, <2>2 DEF Probed
<1> QED BY <1>8, <1>10, <1>13, <1>14, <1>15, <1>16, <1>17, <1>18

\* the fates a packet can have that is still to be visited
LEMMA VisitedFates ==
  ASSUME Inv, NEW t \in Thread, Handling(t, "report"), NEW k \in work[t]
  PROVE  /\ k \in Packet /\ k \in req[ref[t]].packets
         /\ fate[k] \in {"pending", "reported", "discarded"}
BY DEF Inv, Handling, WorkIsQueued, QueuedFates, TypeOK

LEMMA ReportStep ==
  ASSUME Inv, NEW t \in Thread, Report(t)
  PROVE  Inv'
<1> USE DEF Inv
<1>1. PICK k \in work[t] :
        /\ work' = [work EXCEPT ![t] = @ \ {k}]
        /\ IF fate[k] \in {"reported", "discarded"}
           THEN UNCHANGED <<requests, req, fate>>
           ELSE SendError(k)
  BY DEF Report
<1>2. /\ pc[t] = "report" /\ ref[t] \in requests /\ ref[t] \in Req /\ Handling(t, "report")
      /\ UNCHANGED <<entries, pc, ref, now, todo, undefined>>
  BY DEF Report, Handling, TypeOK
<1>3. /\ k \in Packet /\ k \in req[ref[t]].packets
      /\ fate[k] \in {"pending", "reported", "discarded"}
  BY <1>2, VisitedFates
<1>4. work' \in [Thread -> SUBSET Packet] /\ \A u \in Thread : work'[u] \subseteq work[u]
  BY <1>1 DEF TypeOK
<1>5. CASE UNCHANGED <<requests, req, fate>>
  <2>1. TypeOK'
    BY <1>2, <1>4, <1>5 DEF TypeOK
  <2>2. Sound' /\ OneRequestPerAddress' /\ PendingIsQueued' /\ QueuedFates' /\ ErrorsInTurn'
        /\ CountedWasSent' /\ GivenUpByReport'
    BY <1>2, <1>5 DEF Sound, OneRequestPerAddress, PendingIsQueued, QueuedFates,
                      ErrorsInTurn, CountedWasSent, GivenUpByReport
  <2>3. References' /\ Walk' /\ RoomToSend' /\ Probed'
    BY <1>2, <1>5 DEF References, Walk, SweepRequestsAreLinked, RoomToSend, Probed
  <2>4. WorkIsQueued'
    BY <1>2, <1>4, <1>5 DEF WorkIsQueued
  <2> QED BY <2>1, <2>2, <2>3, <2>4
<1>6. CASE fate[k] = "pending" /\ SendError(k)
  <2>1. /\ GivenUp(k)
        /\ Sound' /\ OneRequestPerAddress' /\ PendingIsQueued' /\ QueuedFates'
        /\ CountedWasSent' /\ ErrorsInTurn'
    BY <1>3, <1>6, SendErrorStep
  <2>2. TypeOK'
    BY <1>2, <1>4, <2>1 DEF TypeOK, GivenUp
  <2>3. ASSUME NEW u \in Thread, ref[u] \in Req
        PROVE  /\ ref[u] \in requests' <=> ref[u] \in requests
               /\ req'[ref[u]].ip = req[ref[u]].ip
               /\ req'[ref[u]].times_sent = req[ref[u]].times_sent
               /\ req'[ref[u]].probes = req[ref[u]].probes
               /\ req[ref[u]].packets \subseteq req'[ref[u]].packets
    BY <2>1, <2>3 DEF GivenUp
  <2>4. \A u \in Thread : pc[u] \in InHandle => ref[u] \in Req
    BY DEF References
  <2>5. References' /\ Walk'
    BY <1>2, <2>1 DEF References, Walk, SweepRequestsAreLinked, GivenUp
  <2>6. WorkIsQueued'
    BY <1>2, <1>4, <2>3, <2>4 DEF WorkIsQueued, InHandle
  <2>7. RoomToSend'
    BY <1>2, <2>3, <2>4 DEF RoomToSend, InHandle
  <2>8. Probed'
    BY <1>2, <2>3, <2>4 DEF Probed, InHandle
  <2>9. GivenUpByReport'
    <3>1. ASSUME NEW q \in requests', NEW x \in req'[q].packets, fate'[x] # "pending"
          PROVE  \E u \in Thread : pc'[u] = "report" /\ ref'[u] = q
      <4>1. q \in requests /\ x \in req[q].packets /\ (fate[x] # "pending" \/ x = k)
        BY <2>1, <3>1 DEF GivenUp
      <4>2. CASE fate[x] # "pending"
        BY <1>2, <4>1, <4>2 DEF GivenUpByReport
      <4>3. CASE x = k
        <5>1. req[q].ip = HopOf(k) /\ req[ref[t]].ip = HopOf(k)
          BY <1>2, <1>3, <4>1, <4>3 DEF Sound
        <5>2. q = ref[t]
          BY <1>2, <4>1, <5>1 DEF OneRequestPerAddress
        <5> QED BY <1>2, <5>2
      <4> QED BY <4>1, <4>2, <4>3
    <3> QED BY <3>1 DEF GivenUpByReport
  <2> QED BY <2>1, <2>2, <2>5, <2>6, <2>7, <2>8, <2>9
<1> QED BY <1>1, <1>3, <1>5, <1>6

LEMMA DestroyStep ==
  ASSUME Inv, NEW t \in Thread, Destroy(t)
  PROVE  Inv'
<1> USE DEF Inv
<1> DEFINE a == ref[t]
<1>1. /\ pc[t] = "report" /\ a \in requests /\ a \in Req /\ Return(t) /\ MayEnter(t)
      /\ requests' = requests \ {a}
      /\ UNCHANGED <<entries, work, todo, undefined>>
  BY DEF Destroy, Handling, TypeOK
<1>2. req' = [req EXCEPT ![a] = Blank]
  BY DEF Destroy
<1>3. \A k \in Packet : fate'[k] =
        IF k \in req[a].packets /\ fate[k] = "pending" THEN "freed" ELSE fate[k]
  BY DEF Destroy
<1>4. fate' \in [Packet -> {"fresh", "pending", "forwarded", "reported", "discarded",
                            "orphaned", "freed"}]
  BY DEF Destroy, TypeOK
<1> HIDE DEF a
<1>5. req' \in [Req -> Request] /\ \A q \in Req \ {a} : req'[q] = req[q]
  BY <1>1, <1>2, BlankType DEF TypeOK
<1>6. TypeOK'
  BY <1>1, <1>4, <1>5, ReturnFacts DEF TypeOK
<1>7. \A q \in requests' : q \in requests /\ q # a /\ req'[q] = req[q]
  BY <1>1, <1>5, <1>6 DEF TypeOK
<1>8. Sound' /\ OneRequestPerAddress' /\ CountedWasSent'
  BY <1>7 DEF Sound, OneRequestPerAddress, CountedWasSent
<1>9. PendingIsQueued'
  <2>1. ASSUME NEW k \in Packet, fate'[k] = "pending"
        PROVE  \E q \in requests' : req'[q].ip = HopOf(k) /\ k \in req'[q].packets
    <3>1. fate[k] = "pending" /\ k \notin req[a].packets
      BY <1>3, <2>1
    <3>2. PICK q \in requests : req[q].ip = HopOf(k) /\ k \in req[q].packets
      BY <3>1 DEF PendingIsQueued
    <3> QED BY <1>1, <1>7, <3>1, <3>2
  <2> QED BY <2>1 DEF PendingIsQueued
<1>10. ASSUME NEW q \in requests', NEW k \in req'[q].packets
       PROVE  k \in Packet /\ k \in req[q].packets /\ fate'[k] = fate[k]
  <2>1. k \in req[q].packets /\ q \in requests /\ q # a
    BY <1>7
  <2>2. k \in Packet
    BY <2>1 DEF TypeOK, Request
  <2>3. k \notin req[a].packets
    BY <1>1, <2>1 DEF Sound, OneRequestPerAddress
  <2> QED BY <1>3, <2>1, <2>2, <2>3
<1>11. QueuedFates'
  BY <1>7, <1>10 DEF QueuedFates
<1>12. /\ \A u \in Thread \ {t} : pc'[u] = pc[u] /\ ref'[u] = ref[u]
       /\ pc'[t] \in {"idle", "next"} /\ ref'[t] = None /\ (t = "main" => pc'[t] = "idle")
       /\ t = "sweep" => pc'[t] = "next"
  BY <1>1, ReturnFacts DEF Thread
<1>13. GivenUpByReport'
  <2>1. ASSUME NEW q \in requests', NEW k \in req'[q].packets, fate'[k] # "pending"
        PROVE  \E u \in Thread : pc'[u] = "report" /\ ref'[u] = q
    <3>1. q \in requests /\ q # a /\ k \in req[q].packets /\ fate[k] # "pending"
      BY <1>7, <1>10, <2>1
    <3>2. PICK u \in Thread : pc[u] = "report" /\ ref[u] = q
      BY <3>1 DEF GivenUpByReport
    <3>3. u # t
      BY <3>1, <3>2 DEF a
    <3> QED BY <1>12, <3>2, <3>3
  <2> QED BY <2>1 DEF GivenUpByReport
<1>14. ErrorsInTurn'
  <2>1. ASSUME NEW q \in Pkt, NEW i \in 0 .. 2, fate'[<<q, i>>] \in {"fresh", "pending"}
        PROVE  fate'[<<q, i + 1>>] = "fresh"
    <3>1. <<q, i>> \in Packet /\ <<q, i + 1>> \in Packet
      BY DEF Packet
    <3>2. fate[<<q, i>>] \in {"fresh", "pending"}
      BY <1>3, <2>1, <3>1
    <3>3. fate[<<q, i + 1>>] = "fresh"
      BY <3>2 DEF ErrorsInTurn
    <3> QED BY <1>3, <3>1, <3>3
  <2> QED BY <2>1 DEF ErrorsInTurn
<1>15. /\ \A u \in Thread :
            pc'[u] \in InHandle => u # t /\ pc'[u] = pc[u] /\ ref'[u] = ref[u]
       /\ \A u \in Thread : pc'[u] \notin InHandle => ref'[u] = None
       /\ pc'["main"] # "next"
  BY <1>12 DEF References, InHandle, Thread
<1>16. References'
  BY <1>15 DEF References
<1>17. Walk'
  <2>1. CASE t = "sweep"
    BY <1>1, <1>12, <2>1 DEF Walk, SweepRequestsAreLinked, InHandle, a
  <2>2. CASE t = "main"
    \* main gets here only while sweep is out of its pass
    <3>1. pc["sweep"] = "idle" /\ pc'["sweep"] = "idle"
      BY <1>1, <1>12, <2>2 DEF MayEnter, Locked, Thread
    <3> QED BY <1>1, <3>1 DEF Walk, SweepRequestsAreLinked, InHandle
  <2> QED BY <2>1, <2>2 DEF Thread
<1>18. WorkIsQueued'
  BY <1>1, <1>7, <1>15 DEF WorkIsQueued, InHandle
<1>19. Probed'
  BY <1>7, <1>15 DEF Probed, InHandle
<1>20. RoomToSend'
  <2>1. \A u \in Thread : pc'[u] = "again" =>
          u # t /\ pc[u] = "again" /\ ref'[u] = ref[u] /\ ref[u] \in Req
    BY <1>15 DEF References, InHandle
  <2>2. Blank.times_sent <= MAX_SENDS - 1 /\ Blank.times_sent <= MAX_SENDS
    BY ArpAssumption DEF Blank
  <2>3. req'[a] = Blank
    BY <1>1, <1>2 DEF TypeOK
  <2>4. ASSUME NEW u \in Thread, pc'[u] = "again"
        PROVE  /\ req'[ref'[u]].times_sent <= MAX_SENDS
               /\ \A v \in Thread \ {u} :
                    pc'[v] = "again" /\ ref'[v] = ref'[u]
                      => req'[ref'[u]].times_sent <= MAX_SENDS - 1
    <3>1. CASE ref[u] = a
      BY <2>1, <2>2, <2>3, <2>4, <3>1
    <3>2. CASE ref[u] # a
      <4>1. req'[ref[u]] = req[ref[u]]
        BY <1>5, <2>1, <2>4, <3>2
      <4> QED BY <2>1, <2>4, <4>1 DEF RoomToSend
    <3> QED BY <3>1, <3>2
  <2> QED BY <2>4 DEF RoomToSend
<1> QED BY <1>6, <1>8, <1>9, <1>11, <1>13, <1>14, <1>16, <1>17, <1>18, <1>19, <1>20

(***************************************************************************)
(* The sweep thread, the clock, and what changes none of the above.        *)
(***************************************************************************)
LEMMA SweepPassStep ==
  ASSUME Inv, SweepStart \/ SweepNext \/ SweepEnd
  PROVE  Inv'
<1> USE DEF Inv
<1>1. /\ UNCHANGED <<requests, req, fate, now, work, undefined>>
      /\ pc["sweep"] \in {"idle", "next"}
      /\ pc'["main"] = pc["main"] /\ ref'["main"] = ref["main"]
      /\ pc'["sweep"] \in {"idle", "next", "decide"}
  <2>1. pc \in [Thread -> {"idle", "next"} \cup InHandle] /\ "sweep" \in Thread
    BY DEF TypeOK, Thread
  <2>2. ref \in [Thread -> Req \cup {None}]
    BY DEF TypeOK
  <2>3. CASE SweepStart
    BY <2>1, <2>3 DEF SweepStart
  <2>4. CASE SweepNext
    BY <2>1, <2>2, <2>4 DEF SweepNext
  <2>5. CASE SweepEnd
    BY <2>1, <2>5 DEF SweepEnd
  <2> QED BY <2>3, <2>4, <2>5
<1>2. Sound' /\ OneRequestPerAddress' /\ PendingIsQueued' /\ QueuedFates' /\ ErrorsInTurn'
      /\ CountedWasSent'
  BY <1>1 DEF Sound, OneRequestPerAddress, PendingIsQueued, QueuedFates, ErrorsInTurn,
              CountedWasSent
<1>3. GivenUpByReport' /\ WorkIsQueued' /\ RoomToSend' /\ Probed'
  BY <1>1 DEF GivenUpByReport, WorkIsQueued, RoomToSend, Probed, Thread, InHandle
<1>4. CASE SweepStart
  <2>1. TypeOK'
    BY <1>4 DEF SweepStart, ToVisit, TypeOK, Thread
  <2>2. References' /\ Walk'
    BY <1>4 DEF SweepStart, ToVisit, References, Walk, SweepRequestsAreLinked, TypeOK,
                InHandle, Thread
  <2> QED BY <1>2, <1>3, <2>1, <2>2
<1>5. CASE SweepNext
  <2>1. PICK r \in todo : todo' = todo \ {r} /\ ref' = [ref EXCEPT !["sweep"] = r]
    BY <1>5 DEF SweepNext
  <2>2. r \in requests /\ r \in Req
    BY <2>1 DEF Walk, SweepRequestsAreLinked, TypeOK
  <2>3. TypeOK'
    BY <1>5, <2>1, <2>2 DEF SweepNext, TypeOK, Thread, InHandle
  <2>4. References' /\ Walk'
    BY <1>5, <2>1, <2>2 DEF SweepNext, References, Walk, SweepRequestsAreLinked, TypeOK,
                            InHandle, Thread
  <2> QED BY <1>2, <1>3, <2>3, <2>4
<1>6. CASE SweepEnd
  <2>1. TypeOK'
    BY <1>6 DEF SweepEnd, TypeOK, Thread
  <2>2. References' /\ Walk'
    BY <1>6 DEF SweepEnd, References, Walk, SweepRequestsAreLinked, TypeOK, InHandle, Thread
  <2> QED BY <1>2, <1>3, <2>1, <2>2
<1> QED BY <1>4, <1>5, <1>6

LEMMA TickStep ==
  ASSUME Inv, Tick
  PROVE  Inv'
<1> USE DEF Inv
<1>1. UNCHANGED <<entries, requests, fate, pc, ref, work, todo, undefined>>
  BY DEF Tick
<1>2. ASSUME NEW r \in Req
      PROVE  /\ req'[r] \in Request
             /\ req'[r].ip = req[r].ip /\ req'[r].packets = req[r].packets
             /\ req'[r].times_sent = req[r].times_sent /\ req'[r].probes = req[r].probes
  <2>1. req[r] \in Request
    BY DEF TypeOK
  <2>2. req'[r] = IF req[r].sent < AGE_CAP THEN [req[r] EXCEPT !.sent = @ + 1] ELSE req[r]
    BY DEF Tick
  <2> QED BY <2>1, <2>2 DEF Request, AGE_CAP, NEVER
<1>3. req' \in [Req -> Request]
  BY <1>2 DEF Tick
<1>4. now' \in [Thread -> 0 .. CALL_SECONDS]
  BY DEF Tick, TypeOK, CALL_SECONDS
<1>5. TypeOK'
  BY <1>1, <1>3, <1>4 DEF TypeOK
<1>6. requests \subseteq Req /\ \A t \in Thread : pc[t] \in InHandle => ref[t] \in Req
  BY DEF TypeOK, References
<1>7. Sound' /\ OneRequestPerAddress' /\ PendingIsQueued' /\ CountedWasSent'
  BY <1>1, <1>2, <1>6 DEF Sound, OneRequestPerAddress, PendingIsQueued, CountedWasSent
<1>8. QueuedFates' /\ GivenUpByReport'
  BY <1>1, <1>2, <1>6 DEF QueuedFates, GivenUpByReport
<1>9. ErrorsInTurn' /\ References' /\ Walk'
  BY <1>1 DEF ErrorsInTurn, References, Walk, SweepRequestsAreLinked
<1>10. WorkIsQueued' /\ Probed'
  BY <1>1, <1>2, <1>6 DEF WorkIsQueued, Probed, InHandle
<1>11. RoomToSend'
  BY <1>1, <1>2, <1>6 DEF RoomToSend, InHandle
<1> QED BY <1>5, <1>7, <1>8, <1>9, <1>10, <1>11

LEMMA StutterStep ==
  ASSUME Inv, UNCHANGED <<entries, requests, req, fate, pc, ref, now, work, todo>>,
         undefined' \in BOOLEAN
  PROVE  Inv'
BY DEF Inv, TypeOK, Sound, OneRequestPerAddress, PendingIsQueued, QueuedFates,
       GivenUpByReport, ErrorsInTurn, References, Walk, SweepRequestsAreLinked, WorkIsQueued,
       RoomToSend, CountedWasSent, Probed

LEMMA InitInv == Init => Inv
<1> SUFFICES ASSUME Init PROVE Inv
  OBVIOUS
<1>1. TypeOK
  <2>1. req \in [Req -> Request] /\ entries \in [Slot -> Neighbour \cup {None}]
    BY BlankType DEF Init
  <2>2. /\ pc \in [Thread -> {"idle", "next"} \cup InHandle]
        /\ ref \in [Thread -> Req \cup {None}]
        /\ now \in [Thread -> 0 .. CALL_SECONDS]
        /\ work \in [Thread -> SUBSET Packet]
    BY DEF Init, CALL_SECONDS
  <2>3. fate \in [Packet -> {"fresh", "pending", "forwarded", "reported", "discarded",
                            "orphaned", "freed"}]
    BY DEF Init
  <2> QED BY <2>1, <2>2, <2>3 DEF Init, TypeOK
<1>2. Sound /\ OneRequestPerAddress /\ QueuedFates /\ GivenUpByReport /\ CountedWasSent
  BY DEF Init, Sound, OneRequestPerAddress, QueuedFates, GivenUpByReport, CountedWasSent
<1>3. PendingIsQueued
  BY DEF Init, PendingIsQueued
<1>4. ErrorsInTurn
  BY DEF Init, ErrorsInTurn, Packet
<1>5. References /\ Walk /\ WorkIsQueued /\ RoomToSend /\ Probed
  BY DEF Init, References, Walk, SweepRequestsAreLinked, WorkIsQueued, RoomToSend, Probed,
         Thread, InHandle
<1> QED BY <1>1, <1>2, <1>3, <1>4, <1>5 DEF Inv

LEMMA NextInv == Inv /\ [Next]_vars => Inv'
<1> SUFFICES ASSUME Inv, [Next]_vars PROVE Inv'
  OBVIOUS
<1>1. ASSUME NEW p \in Pkt, ForwardMapped(p) PROVE Inv'
  BY <1>1, ForwardMappedStep
<1>2. ASSUME NEW p \in Pkt, ForwardUnmapped(p) PROVE Inv'
  BY <1>2, ForwardUnmappedStep
<1>3. ASSUME NEW p \in Pkt, AnswerWithError(p) PROVE Inv'
  BY <1>3, AnswerWithErrorStep
<1>4. ASSUME NEW n \in Neighbour, ArpReply(n) PROVE Inv'
  <2>1. /\ MainFree /\ Insert(n) /\ Unlink(n)
        /\ fate' = [k \in Packet |-> IF k \in PacketsFor(n) THEN "forwarded" ELSE fate[k]]
        /\ UNCHANGED <<pc, ref, now, work, todo, undefined>>
    BY <1>4 DEF ArpReply
  <2> QED BY <2>1, LearnStep
<1>5. ASSUME NEW n \in Neighbour, ArpRequest(n) PROVE Inv'
  <2>1. /\ MainFree /\ Insert(n) /\ Unlink(n)
        /\ fate' = [k \in Packet |-> IF k \in PacketsFor(n) THEN "orphaned" ELSE fate[k]]
        /\ UNCHANGED <<pc, ref, now, work, todo, undefined>>
    BY <1>5 DEF ArpRequest
  <2> QED BY <2>1, LearnStep
<1>6. ASSUME NEW t \in Thread, HandleStep(t) PROVE Inv'
  BY <1>6, DecideStep, ProbeStep, ReportStep, DestroyStep DEF HandleStep
<1>7. ASSUME NEW t \in Thread, Dangling(t) PROVE Inv'
  BY <1>7, StutterStep DEF Dangling
<1>8. CASE SweepStart \/ SweepNext \/ SweepEnd
  BY <1>8, SweepPassStep
<1>9. CASE Tick
  BY <1>9, TickStep
<1>10. CASE Collapsed \/ UNCHANGED vars
  BY <1>10, StutterStep DEF Collapsed, vars, Inv, TypeOK
<1> QED BY <1>1, <1>2, <1>3, <1>4, <1>5, <1>6, <1>7, <1>8, <1>9, <1>10 DEF Next

THEOREM Invariance == Spec => []Inv
BY InitInv, NextInv, PTL DEF Spec

(***************************************************************************)
(* The properties of ArpCache.                                             *)
(***************************************************************************)
LEMMA InvImplies ==
  Inv => /\ TypeOK /\ OneRequestPerAddress /\ PendingIsQueued /\ SweepRequestsAreLinked
         /\ GiveUpAfterAllProbes
<1> SUFFICES ASSUME Inv PROVE GiveUpAfterAllProbes /\ SweepRequestsAreLinked
  BY DEF Inv
<1>1. SweepRequestsAreLinked
  BY DEF Inv, Walk
<1>2. GiveUpAfterAllProbes
  BY DEF Inv, Probed, GiveUpAfterAllProbes, Handling
<1> QED BY <1>1, <1>2

\* Every variable keeps its type; in particular req->times_sent, which both threads
\* increment and one of them without cache->lock, never passes MAX_SENDS + 1.
THEOREM TypeCorrect == Spec => []TypeOK
BY Invariance, InvImplies, PTL

\* sr_arpcache_queuereq never links a second request for an address.
THEOREM RequestsAreUnique == Spec => []OneRequestPerAddress
BY Invariance, InvImplies, PTL

\* A packet that is neither sent nor given up is linked in cache->requests, with the
\* request of its own next hop, in every interleaving of the two threads.
THEOREM NoPacketForgotten == Spec => []PendingIsQueued
BY Invariance, InvImplies, PTL

\* sr_arpcache_sweepreqs never follows a pointer to a request that has been freed.
THEOREM SweepIsSafe == Spec => []SweepRequestsAreLinked
BY Invariance, InvImplies, PTL

\* handle_arpreq tells senders that a neighbour is unreachable only after MAX_SENDS
\* ARP requests have left for it.
THEOREM NoEarlyGiveUp == Spec => []GiveUpAfterAllProbes
BY Invariance, InvImplies, PTL

(***************************************************************************)
(* ArpCache implements PacketFate.                                         *)
(***************************************************************************)
\* the packets that wait for h are those of the request for h, as long as no thread is
\* giving that request up
LEMMA WaitingIsQueued ==
  ASSUME Inv, NEW r \in requests
  PROVE  Fate!Waiting(req[r].ip) = {k \in req[r].packets : fate[k] = "pending"}
<1> USE DEF Inv
<1>1. ASSUME NEW k \in req[r].packets
      PROVE  k \in Packet /\ HopOf(k) = req[r].ip
  BY DEF TypeOK, Request, Sound
<1>2. ASSUME NEW k \in Packet, fate[k] = "pending", HopOf(k) = req[r].ip
      PROVE  k \in req[r].packets
  <2>1. PICK q \in requests : req[q].ip = HopOf(k) /\ k \in req[q].packets
    BY <1>2 DEF PendingIsQueued
  <2>2. q = r
    BY <1>2, <2>1 DEF OneRequestPerAddress
  <2> QED BY <2>1, <2>2
<1> QED BY <1>1, <1>2 DEF Fate!Waiting

LEMMA LearnImplements ==
  ASSUME Inv, NEW n \in Neighbour, MainFree, NEW f \in {"forwarded", "orphaned"},
         fate' = [k \in Packet |-> IF k \in PacketsFor(n) THEN f ELSE fate[k]]
  PROVE  [Fate!Next]_fate
<1> USE DEF Inv
<1>1. CASE PacketsFor(n) = {}
  BY <1>1 DEF TypeOK
<1>2. CASE PacketsFor(n) # {}
  <2>1. PICK r \in requests : req[r].ip = n
    BY <1>2 DEF PacketsFor, RequestsFor
  <2>2. PacketsFor(n) = req[r].packets
    BY <2>1 DEF PacketsFor, RequestsFor, OneRequestPerAddress
  <2>3. \A t \in Thread : pc[t] = "idle"
    BY BothOut
  <2>4. \A k \in req[r].packets : fate[k] = "pending"
    BY <2>3 DEF GivenUpByReport
  <2>5. Fate!Waiting(n) = PacketsFor(n)
    BY <2>1, <2>2, <2>4, WaitingIsQueued
  <2>6. Fate!Learn(n)
    BY <1>2, <2>5 DEF Fate!Learn
  <2> QED BY <2>6 DEF Fate!Next, Address
<1> QED BY <1>1, <1>2

LEMMA SendErrorImplements ==
  ASSUME Inv, NEW k \in Packet, SendError(k),
         fate[k] = "pending" \/ (fate[k] = "fresh" /\ k[2] = 0 /\ CanAnswer(k))
  PROVE  Fate!Next
<1> USE DEF Inv
<1> DEFINE e == ErrorAbout(k)
<1>1. CASE ~CanAnswer(k)
  <2>1. Fate!Discard(k)
    BY <1>1 DEF SendError, Fate!Discard
  <2> QED BY <2>1 DEF Fate!Next
<1>2. CASE CanAnswer(k)
  <2>1. e \in Packet /\ e # k /\ e = <<k[1], k[2] + 1>>
    BY <1>2, ErrorFacts
  <2>2. k[1] \in Pkt /\ k[2] \in 0 .. 2 /\ k = <<k[1], k[2]>>
    BY <1>2 DEF CanAnswer, Packet
  <2>3. fate[<<k[1], k[2]>>] \in {"fresh", "pending"}
    BY <2>2
  <2>4. fate[e] = "fresh"
    BY <2>1, <2>2, <2>3 DEF ErrorsInTurn
  <2>5. \E f \in {"forwarded", "pending"} :
          fate' = [fate EXCEPT ![k] = "reported", ![e] = f]
    BY <1>2 DEF SendError
  <2> HIDE DEF e
  <2>6. Fate!Answer(k, e)
    BY <2>1, <2>4, <2>5 DEF Fate!Answer
  <2> QED BY <2>1, <2>6 DEF Fate!Next
<1> QED BY <1>1, <1>2

LEMMA StepImplements == Inv /\ [Next]_vars => [Fate!Next]_fate
<1> SUFFICES ASSUME Inv, [Next]_vars PROVE [Fate!Next]_fate
  OBVIOUS
<1>1. ASSUME NEW p \in Pkt, ForwardMapped(p) \/ ForwardUnmapped(p) PROVE Fate!Next
  <2>1. Fate!Accept(<<p, 0>>)
    BY <1>1 DEF ForwardMapped, ForwardUnmapped, Fate!Accept
  <2> QED BY <2>1, DatagramHop DEF Fate!Next
<1>2. ASSUME NEW p \in Pkt, AnswerWithError(p) PROVE Fate!Next
  BY <1>2, DatagramHop, SendErrorImplements DEF AnswerWithError, CanAnswer
<1>3. ASSUME NEW n \in Neighbour, ArpReply(n) \/ ArpRequest(n) PROVE [Fate!Next]_fate
  <2>1. MainFree /\ \E f \in {"forwarded", "orphaned"} :
          fate' = [k \in Packet |-> IF k \in PacketsFor(n) THEN f ELSE fate[k]]
    BY <1>3 DEF ArpReply, ArpRequest
  <2> QED BY <2>1, LearnImplements
<1>4. ASSUME NEW t \in Thread, Decide(t) \/ Probe(t) \/ Dangling(t) PROVE UNCHANGED fate
  BY <1>4 DEF Decide, Probe, Dangling
<1>5. ASSUME NEW t \in Thread, Report(t) PROVE [Fate!Next]_fate
  <2>1. Handling(t, "report")
    BY <1>5 DEF Report
  <2>2. PICK k \in work[t] : IF fate[k] \in {"reported", "discarded"}
                             THEN UNCHANGED <<requests, req, fate>> ELSE SendError(k)
    BY <1>5 DEF Report
  <2> QED BY <2>1, <2>2, VisitedFates, SendErrorImplements
<1>6. ASSUME NEW t \in Thread, Destroy(t) PROVE [Fate!Next]_fate
  <2> DEFINE r == ref[t]
             h == req[r].ip
  <2>1. r \in requests /\ fate' = [k \in Packet |->
          IF k \in req[r].packets /\ fate[k] = "pending" THEN "freed" ELSE fate[k]]
    BY <1>6 DEF Destroy, Handling
  <2>2. Fate!Waiting(h) = {k \in req[r].packets : fate[k] = "pending"} /\ h \in Address
    BY <2>1, WaitingIsQueued DEF Inv, Sound
  <2> HIDE DEF h, r
  <2>3. fate' = [k \in Packet |-> IF k \in Fate!Waiting(h) THEN "freed" ELSE fate[k]]
    BY <2>1, <2>2
  <2>4. CASE Fate!Waiting(h) = {}
    BY <2>3, <2>4 DEF Inv, TypeOK
  <2>5. CASE Fate!Waiting(h) # {}
    BY <2>2, <2>3, <2>5 DEF Fate!Next, Fate!Release
  <2> QED BY <2>4, <2>5
<1>7. CASE SweepStart \/ SweepNext \/ SweepEnd \/ Tick \/ Collapsed \/ UNCHANGED vars
  BY <1>7 DEF SweepStart, SweepNext, SweepEnd, Tick, Collapsed, vars
<1> QED BY <1>1, <1>2, <1>3, <1>4, <1>5, <1>6, <1>7 DEF Next, HandleStep

\* Every behaviour of the two threads over the table and the queue is one of
\* PacketFate: a settled packet is never settled again, the packets of a next hop leave
\* together, and an ICMP error is made of a packet at most once.
THEOREM Implementation == Spec => KeepsPromise
<1>1. Init => Fate!Init
  BY DEF Init, Fate!Init
<1> QED BY <1>1, Invariance, StepImplements, PTL DEF Spec, KeepsPromise, Fate!Spec
=============================================================================
