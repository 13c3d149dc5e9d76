SPECIFICATION SlotSpec
CONSTANTS
  Attempts = {a1, a2}
  Slots = {"m1"}
  Outputs = {x}
  Quote <- MCQuoteOne
  Limit = 1
  Plans <- MCPersonal
  None = None
SYMMETRY MCSymmetry
CHECK_DEADLOCK FALSE
INVARIANTS ReviewedBeforePublished
