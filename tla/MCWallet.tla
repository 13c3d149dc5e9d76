------------------------------ MODULE MCWallet ------------------------------
(* Two payments, two refunds and a chargeback that together exceed what the  *)
(* first payment put in, a refund of the second one, and two orders; the     *)
(* largest amount is what both payments come to, less than the reversals of   *)
(* the first one.                                                             *)
EXTENDS Wallet

MCTopUpMinor == [p \in Payments |-> IF p = "p1" THEN 3 ELSE 2]

MCAgainst == [r \in Reversals |-> IF r = "r3" THEN "p2" ELSE "p1"]

MCReversalMinor == [r \in Reversals |-> CASE r = "r1" -> 1 [] r = "r2" -> 2 [] r = "cb" -> 3 [] OTHER -> 2]

MCPriceMinor == [o \in Orders |-> IF o = "o1" THEN 2 ELSE 1]
=============================================================================
