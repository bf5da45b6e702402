----------------------------- MODULE PacketFate -----------------------------
(***************************************************************************)
(* What the router promises about the packets it hands to its ARP layer,   *)
(* with no cache, no request queue and no thread: a packet waits for the   *)
(* link address of one next hop, and the packets waiting for a next hop    *)
(* leave in one of four ways.                                              *)
(***************************************************************************)
CONSTANTS
  Packet,      \* every packet that can reach the ARP layer
  Address,     \* the next hops
  HopOf(_)     \* the next hop a packet waits for

VARIABLE fate  \* fate[k]: what has become of packet k

(***************************************************************************)
(* "fresh"     not handed over yet                                         *)
(* "pending"   waiting for the link address of its next hop                *)
(* "forwarded" put on the wire                                             *)
(* "reported"  given up, with an ICMP error made for its sender            *)
(* "discarded" given up, with no route to its sender                       *)
(* "orphaned"  unlinked with its request by an ARP request of its next hop *)
(* "freed"     released with its request before anybody looked at it       *)
(***************************************************************************)
Lost      == {"orphaned", "freed"}
Settled   == {"forwarded", "reported", "discarded"} \cup Lost
Fates     == {"fresh", "pending"} \cup Settled

Waiting(h) == {k \in Packet : fate[k] = "pending" /\ HopOf(k) = h}

Init == fate = [k \in Packet |-> "fresh"]

\* A packet is handed over: it leaves at once or it waits.
Accept(k) ==
  /\ fate[k] = "fresh"
  /\ \E f \in {"forwarded", "pending"} : fate' = [fate EXCEPT ![k] = f]

\* A packet is answered with an ICMP error, and the error is handed over.
Answer(k, e) ==
  /\ k # e
  /\ fate[k] \in {"fresh", "pending"}
  /\ fate[e] = "fresh"
  /\ \E f \in {"forwarded", "pending"} :
       fate' = [fate EXCEPT ![k] = "reported", ![e] = f]

\* A packet is given up and nobody can be told.
Discard(k) ==
  /\ fate[k] = "pending"
  /\ fate' = [fate EXCEPT ![k] = "discarded"]

\* The link address of h becomes known: ALL the packets waiting for h share
\* one outcome, they are forwarded or they are all orphaned.
Learn(h) ==
  /\ Waiting(h) # {}
  /\ \E f \in {"forwarded", "orphaned"} :
       fate' = [k \in Packet |-> IF k \in Waiting(h) THEN f ELSE fate[k]]

\* The request of h is released with the packets nobody looked at.
Release(h) ==
  /\ Waiting(h) # {}
  /\ fate' = [k \in Packet |-> IF k \in Waiting(h) THEN "freed" ELSE fate[k]]

Next ==
  \/ \E k \in Packet : Accept(k) \/ Discard(k)
  \/ \E k, e \in Packet : Answer(k, e)
  \/ \E h \in Address : Learn(h) \/ Release(h)

Spec == Init /\ [][Next]_fate
=============================================================================
