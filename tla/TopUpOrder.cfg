SPECIFICATION FairOrderSpec
CONSTANTS
  MaxInt = 6
  Payments = {"p"}
  Payment = "p"
  TopUpMinor <- MCTopUpMinor
  Reversals = {"r1"}
  Chargebacks = {}
  Against <- MCAgainst
  ReversalMinor <- MCReversalMinor
  Orders = {}
  PriceMinor <- MCPriceMinor
  Workers = {"w1", "w2"}
  Client = "c"
  Abnormal = {"r1"}
  RefundResults = {"refunded"}
  MaxFaults = 1
INVARIANTS NothingForgotten ClosedIsUnpaid
PROPERTIES PaidIsCredited
CHECK_DEADLOCK FALSE
