SPECIFICATION RefundSpec
CONSTANTS
  MaxInt = 9
  Payments = {"p", "q"}
  Payment = "p"
  TopUpMinor <- MCTopUpMinor
  Reversals = {"r1", "r2"}
  Chargebacks = {}
  Against <- MCAgainst
  ReversalMinor <- MCReversalMinor
  Orders = {}
  PriceMinor <- MCPriceMinor
  Approver = "a"
  Workers = {"w"}
  MaxFaults = 1
INVARIANTS RefundAgrees RefundsWithinPayment
PROPERTIES RefundSettles
