SPECIFICATION FairSpec
CONSTANTS
  MaxInt = 9
  Members = {"m1", "m2"}
  Charges = {"c1", "c2"}
  Intent <- MCIntent
  GrantOps = {"o1", "o2"}
  Sources = {"s1", "s2"}
  GrantQuantity <- MCGrantQuantity
  TransferOps = {"t1", "t2"}
  TransferCommands <- MCTransferCommands
  MaxIncurred = 2
  Loops = {loop}
  Callers = {caller}
  BatchLimit = 1
  MaxFaults = 1
INVARIANTS Conservation MintedOnce BooksBacked Settleable SettledAsProved
PROPERTIES DebtFirst ProvedIsSettled
CHECK_DEADLOCK FALSE
