CONSTANTS
  None = None
  Run = {r1}
  Creative = FALSE
  MaxStops = 0
SPECIFICATION Spec
INVARIANTS CallbackNeverBlocks
CHECK_DEADLOCK FALSE
