CONSTANTS
  Run = {r1, r2}
  None = None
  HoldLimit = 2
  MaxTicks = 3
SPECIFICATION Spec
INVARIANT HeldInFull
CHECK_DEADLOCK FALSE
