-------------------------- MODULE MCPurchaseOrder --------------------------
(* A resource order, one the resource owner refuses and a storage order, each *)
(* of one unit, and a wallet that holds two; pages of one order.              *)
EXTENDS PurchaseOrder

MCTopUpMinor == [p \in Payments |-> 2]

MCAgainst == [r \in Reversals |-> "p"]

MCReversalMinor == [r \in Reversals |-> 1]

MCPriceMinor == [o \in Orders |-> 1]

MCOrderOf == <<"refused", "storage", "resource">>
=============================================================================
