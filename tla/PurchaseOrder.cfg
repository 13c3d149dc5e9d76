SPECIFICATION PurchaseSpec
CONSTANTS
  MaxInt = 5
  Payments = {"p"}
  TopUpMinor <- MCTopUpMinor
  Reversals = {}
  Chargebacks = {}
  Against <- MCAgainst
  ReversalMinor <- MCReversalMinor
  Orders = {"refused", "storage", "resource"}
  PriceMinor <- MCPriceMinor
  Storage = {"storage"}
  Grantable = {"resource"}
  Buyer = "buyer"
  Recovery = "recovery"
  OrderOf <- MCOrderOf
  BatchLimit = 1
  MaxFaults = 2
INVARIANTS PurchaseAgrees
PROPERTIES PurchaseSettles
