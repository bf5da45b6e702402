------------------------------ MODULE MCXmlRpc ------------------------------
(***************************************************************************)
(* A client of client.py that makes three calls, the last with a character *)
(* of two bytes, and one that sends three requests ahead, the first with   *)
(* blanks after its document, and may leave.                               *)
(***************************************************************************)
EXTENDS XmlRpc

LOCAL INSTANCE TLC

CONSTANTS ana, bea

P(k) == [of |-> k, kind |-> "P"]
H(k) == [of |-> k, kind |-> "H"]
B(k) == [of |-> k, kind |-> "b"]

MCStream ==
  ana :> <<P(1), H(1), B(1), P(2), H(2), B(2),
           P(3), H(3), [of |-> 3, kind |-> "u"], [of |-> 3, kind |-> "U"]>> @@
  bea :> <<P(1), H(1), B(1), [of |-> 1, kind |-> "s"], P(2), H(2), B(2), P(3), H(3), B(3)>>

MCDoes ==
  ana :> <<"value", "value", "type">> @@
  bea :> <<"value", "bad", "arity">>
=============================================================================
