SPECIFICATION SlotSpec
CONSTANTS
  Attempts = {a1, a2, a3}
  Slots = {"m1", "m2"}
  Outputs = {x, y}
  Quote <- MCQuoteOne
  Limit = 1
  Plans <- MCPlans
  None = None
SYMMETRY MCSymmetry
CHECK_DEADLOCK FALSE
INVARIANTS OneGeneration GeneratedIsHeld BudgetBacked OneContent EvidenceStored
PROPERTIES StaleHolderIsHarmless StoppedIsNotDispatched
