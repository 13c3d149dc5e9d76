SPECIFICATION InvocationSpec
CONSTANTS
  MaxInt = 5
  InputRate = 1
  OutputRate = 2
  Scale = 2
  Members = {"ann"}
  Models = {"g1", "g2"}
  Images = {"g3"}
  Payer <- MCPayer
  MaxTokens <- MCMaxTokens
  ImagePoints <- MCImagePoints
  GrantOps = {"o1", "o2"}
  Sources = {"s1", "s2"}
  GrantQuantity <- MCGrantQuantity
  LimitOps = {"t1"}
  LimitCommands <- MCLimitCommands
  MaxMonth = 1
  MaxIncurred = 0
  BatchLimit = 1
  MaxFaults = 1
  Demands <- MCDemands
INVARIANTS WithinLimit PointsBacked Finalizable BilledOnce
PROPERTIES CallContract RecordedIsSettled
\* Once every request of the finite instance is served the ledger rests.
CHECK_DEADLOCK FALSE
