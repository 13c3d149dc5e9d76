--------------------------- MODULE MCTopUpRefund ---------------------------
(* A payment of three units, two refunds of it of two units each, and another *)
(* payment that keeps the wallet able to hold more than the first one paid.   *)
EXTENDS TopUpRefund

MCTopUpMinor == [p \in Payments |-> 3]

MCAgainst == [r \in Reversals |-> Payment]

MCReversalMinor == [r \in Reversals |-> 2]

MCPriceMinor == [o \in Orders |-> 1]
=============================================================================
