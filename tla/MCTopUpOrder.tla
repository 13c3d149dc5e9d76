---------------------------- MODULE MCTopUpOrder ----------------------------
(* One order of three units and refunds of one and of two units made at the  *)
(* provider, outside the refund approval.                                    *)
EXTENDS TopUpOrder

MCTopUpMinor == [p \in Payments |-> 3]

MCAgainst == [r \in Reversals |-> Payment]

MCReversalMinor == [r \in Reversals |-> IF r = "r1" THEN 1 ELSE 2]

MCPriceMinor == [o \in Orders |-> 1]
=============================================================================
