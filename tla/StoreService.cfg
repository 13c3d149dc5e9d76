SPECIFICATION Spec
CONSTANTS
  MaxInt = 20
  m1 = m1
  Members = {m1}
  Charges = {c1, c2}
  Intent <- MCIntent
  GrantOps = {o1}
  Sources = {s1}
  GrantQuantity <- MCGrantQuantity
  TransferOps = {t1}
  TransferCommands <- MCTransferCommands
  MaxIncurred = 0
  Loops = {loop}
  Callers = {p1, p2}
  BatchLimit = 1
  MaxFaults = 0
  Refs = {r1, r2}
  Promotable = {}
  MaxVersion = 3
INVARIANTS PeriodsPaid
PROPERTIES RevokedNeverServed OwnerContract
CONSTRAINT MCBound
SYMMETRY MCSymmetry
CHECK_DEADLOCK FALSE
