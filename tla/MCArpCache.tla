----------------------------- MODULE MCArpCache -----------------------------
(***************************************************************************)
(* A router between two neighbours. Datagram p1 comes from m and goes to   *)
(* n; p2 comes from n and goes back to n, the hairpin that makes an error  *)
(* wait for the very neighbour that does not answer.                       *)
(***************************************************************************)
EXTENDS ArpCache, TLC

CONSTANTS m, n, om, on, p1, p2

MCOwnOf   == (m :> om) @@ (n :> on)
MCNextHop == [p \in Pkt |-> n]
MCBackHop == [p \in Pkt |-> IF p = p1 THEN m ELSE n]
=============================================================================
