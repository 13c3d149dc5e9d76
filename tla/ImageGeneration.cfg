SPECIFICATION ImageSpec
CONSTANTS
  MaxInt = 2
  InputRate = 1
  OutputRate = 2
  Scale = 2
  Members = {"ann"}
  Models = {}
  Images = {"g1"}
  Payer <- MCPayer
  MaxTokens <- MCMaxTokens
  ImagePoints <- MCImagePoints
  GrantOps = {"o1"}
  Sources = {"s1"}
  GrantQuantity <- MCGrantQuantity
  LimitOps = {"t1", "t2"}
  LimitCommands <- MCLimitCommands
  MaxMonth = 1
  MaxIncurred = 1
  Workers = {"w1", "w2"}
INVARIANTS OnePost SettlementFits NoOrphanHold
PROPERTIES PaidContract
