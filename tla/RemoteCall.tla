----------------------------- MODULE RemoteCall -----------------------------
(***************************************************************************)
(* What the XML-RPC pair promises a program that makes one call after the  *)
(* other: a procedure runs at most once for a call, only after the call    *)
(* was made, and its value comes back only if it ran for that very call.   *)
(* Instead of a value there may be a fault or an exception, and those say  *)
(* nothing about whether the procedure ran.                                *)
(***************************************************************************)
EXTENDS Naturals, Sequences

CONSTANT Caller

VARIABLES
  asked,   \* asked[c]: how many calls c has made
  runs,    \* runs[c]: the calls of c whose procedure has run
  got      \* got[c]: how the calls of c came back, in order

Init ==
  /\ asked = [c \in Caller |-> 0]
  /\ runs = [c \in Caller |-> {}]
  /\ got = [c \in Caller |-> <<>>]

Ask(c) ==
  /\ asked[c] = Len(got[c])
  /\ asked' = [asked EXCEPT ![c] = @ + 1]
  /\ UNCHANGED <<runs, got>>

Run(c) ==
  /\ asked[c] \notin runs[c] /\ asked[c] > Len(got[c])
  /\ runs' = [runs EXCEPT ![c] = @ \cup {asked[c]}]
  /\ UNCHANGED <<asked, got>>

Return(c) ==
  /\ asked[c] > Len(got[c])
  /\ \E r \in {"value", "fault", "exception"} :
       /\ r = "value" => asked[c] \in runs[c]
       /\ got' = [got EXCEPT ![c] = Append(@, r)]
  /\ UNCHANGED <<asked, runs>>

Next == \E c \in Caller : Ask(c) \/ Run(c) \/ Return(c)

Spec == Init /\ [][Next]_<<asked, runs, got>>
=============================================================================
