-------------------------- MODULE MCRouterProcess --------------------------
(***************************************************************************)
(* A router with one interface. The address of the packets is on the       *)
(* network "near" of that interface and in "wide" around it. The file may  *)
(* hold a row for either; neighbours advertise both, so that a row for     *)
(* "near" may come from the file, from a neighbour and from the interface. *)
(***************************************************************************)
EXTENDS RouterProcess

MCPrefix == {"wide", "near"}
MCLength == [p \in MCPrefix |-> IF p = "wide" THEN 16 ELSE 24]

MCAddress == {"host"}
MCCovers  == [p \in MCPrefix |-> MCAddress]

MCNetOf     == <<"near">>
MCFileRow   == MCPrefix
MCLearnable == MCPrefix
=============================================================================
