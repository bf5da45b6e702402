----------------------------- MODULE VnsSession -----------------------------
(***************************************************************************)
(* The main thread of the router from main() on: the handshake with the    *)
(* VNS server, the loading of the routing table, and the loop that reads   *)
(* one command after another (sr_main.c, sr_vns_comm.c). What the server   *)
(* sends is chosen when main reads it. Commands that change nothing        *)
(* (VNSBANNER, unknown ones) are left out once the handshake is over.      *)
(***************************************************************************)
EXTENDS Naturals

CONSTANT NUM_IF    \* the interfaces the server describes in its VNSHWINFO

ASSUME SessionAssumption == NUM_IF \in Nat

VARIABLES
  stage,       \* how far the main thread has come
  linked,      \* interfaces on if_list
  configured   \* interfaces on if_list whose address and mask are set

sessionVars == <<stage, linked, configured>>

(***************************************************************************)
(* "request", "status", "rtable": in sr_connect_to_server, waiting for that *)
(* one command. "loop": waiting for any. "hwinfo", "packet": handling it.   *)
(* "returned": main is over. "failed": main returned 1 or called exit(1).   *)
(* "spinning": reading a stream that has ended, for ever. "undefined": some *)
(* thread has used memory that was freed or not written (RouterProcess).    *)
(***************************************************************************)
Handshake == {"request", "status", "rtable"}
Stage == Handshake \cup {"loop", "hwinfo", "packet", "returned", "failed", "spinning", "undefined"}

\* The threads of sr_init run. (They do while main is spinning too, as they would
\* if no command came any more; that is left out.)
Up == stage \in {"loop", "hwinfo", "packet"}

SessionInit ==
  /\ stage = "request"
  /\ linked = 0
  /\ configured = 0

\* sr_handle_auth_request: "auth_key" may be missing or unreadable
AuthRequest ==
  /\ stage = "request"
  /\ stage' \in {"status", "failed"}
  /\ UNCHANGED <<linked, configured>>

\* sr_handle_auth_status, when the server refuses
AuthRefused ==
  /\ stage = "status"
  /\ stage' = "failed"
  /\ UNCHANGED <<linked, configured>>

\* ... and when it does not: with a template the server sends the table
AskForTemplate ==
  /\ stage = "status"
  /\ stage' = "rtable"
  /\ UNCHANGED <<linked, configured>>

\* sr_load_rt_wrap finds no table it can read and calls exit(1)
NoTable ==
  /\ stage \in {"status", "rtable"}
  /\ stage' = "failed"
  /\ UNCHANGED <<linked, configured>>

\* sr_load_rt_wrap and sr_init, then the loop
Started ==
  /\ stage \in {"status", "rtable"}
  /\ stage' = "loop"
  /\ UNCHANGED <<linked, configured>>

\* any other command, VNSCLOSE included, a length out of range, a failing recv
BreakOff ==
  /\ stage \in Handshake \cup {"loop"}
  /\ stage' = IF stage = "loop" THEN "returned" ELSE "failed"
  /\ UNCHANGED <<linked, configured>>

\* recv returns 0 and the loops of sr_read_from_server_expect do not look
EndOfStream ==
  /\ stage \in Handshake \cup {"loop"}
  /\ stage' = "spinning"
  /\ UNCHANGED <<linked, configured>>

\* VNSHWINFO comes once, before any packet
HwInfo ==
  /\ stage = "loop"
  /\ linked = 0
  /\ NUM_IF > 0
  /\ stage' = "hwinfo"
  /\ UNCHANGED <<linked, configured>>

\* HWINTERFACE: sr_add_interface links a struct with a name and a cost only
AddInterface ==
  /\ stage = "hwinfo"
  /\ linked = configured /\ linked < NUM_IF
  /\ linked' = linked + 1
  /\ UNCHANGED <<stage, configured>>

\* HWETHER, HWETHIP, HWMASK: sr_set_ether_addr, _ip, _mask of the last interface
SetInterface ==
  /\ stage = "hwinfo"
  /\ configured < linked
  /\ configured' = linked
  /\ stage' = IF linked = NUM_IF THEN "loop" ELSE stage
  /\ UNCHANGED linked

\* every step but Started, which loads the table
SessionStep ==
  \/ AuthRequest \/ AuthRefused \/ AskForTemplate \/ NoTable
  \/ BreakOff \/ EndOfStream
  \/ HwInfo \/ AddInterface \/ SetInterface
=============================================================================
