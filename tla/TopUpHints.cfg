SPECIFICATION OrderSpec
CONSTANTS
  MaxInt = 6
  Payments = {"p"}
  Payment = "p"
  TopUpMinor <- MCTopUpMinor
  Reversals = {"r1", "r2"}
  Chargebacks = {}
  Against <- MCAgainst
  ReversalMinor <- MCReversalMinor
  Orders = {}
  PriceMinor <- MCPriceMinor
  Workers = {"w1"}
  Client = "c"
  Abnormal = {"r1", "r2"}
  RefundResults = {"refunded"}
  MaxFaults = 0
INVARIANT NothingForgotten
CHECK_DEADLOCK FALSE
