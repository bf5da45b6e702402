---------------------------- MODULE MCRipNetwork ----------------------------
(***************************************************************************)
(* The topologies of the checks: network net hangs off the first router of *)
(* a triangle (vhost1, vhost2 and vhost3 of the project's topology), or of *)
(* a line.                                                                 *)
(***************************************************************************)
EXTENDS RipNetwork, TLC

CONSTANTS v1, v2, v3, net

Both(l) == l \cup {<<x[2], x[1]>> : x \in l}

Triangle     == Both({<<v1, v2>>, <<v2, v3>>, <<v3, v1>>})
TriangleDist == net :> (v1 :> 1 @@ v2 :> 2 @@ v3 :> 2)

Line     == Both({<<v1, v2>>, <<v2, v3>>})
LineDist == net :> (v1 :> 1 @@ v2 :> 2 @@ v3 :> 3)

\* NoCycle tells a line from a triangle
ASSUME TopologyAssumption == NoCycle <=> Link = Line

AtFirst == net :> {v1}

\* the two routers of the triangle that are not on the network are alike
Alike == Permutations({v2, v3})
=============================================================================
