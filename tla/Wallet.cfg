SPECIFICATION MoneySpec
CONSTANTS
  MaxInt = 5
  Payments = {"p1", "p2"}
  TopUpMinor <- MCTopUpMinor
  Reversals = {"r1", "r2", "cb", "r3"}
  Chargebacks = {"cb"}
  Against <- MCAgainst
  ReversalMinor <- MCReversalMinor
  Orders = {"o1", "o2"}
  PriceMinor <- MCPriceMinor
INVARIANTS WalletConserved WalletShape WalletSettles
