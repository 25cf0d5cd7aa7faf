CONSTANTS
  r1 = r1
  r2 = r2
  r3 = r3
  t1 = t1
  t2 = t2
  t3 = t3
  f1 = f1
  f2 = f2
  f3 = f3
  f4 = f4
  Creative = TRUE
  None = None
  NoTest = None
  Run <- MCRun
  Breaker <- MCRun3
  MaxBreakStops = 2
  InputHolder <- MCRun3
  HoldLimit = 2
  MaxTicks = 3
  Suites <- MCSuites
  Skipped = {t3}
  MaxTracked = 2
  Walker = {t1}
  Form <- MCForm
  MaxForms = 3
  Reader <- MCRun3
  FreeSlots = 2
  MaxWrites = 2
  MaxStops = 1
  CooldownTicks = 2
  FruitlessLimit = 2
  EmptyWaitTicks = 1
  NoProgressLimit = 1
  MaxDist = 2
SPECIFICATION InstructionsSpec
INVARIANTS
  CallbackHasLeg
  ReachedIsTruthful
  FailureExplained
  OneTruthfulAnswer
  VerdictsTruthful
  LeaksOnlyPastDeadline
  WalkFaithful
  SyncedInTurn
PROPERTIES
  EveryInstructionReturns
  RunEnds
CHECK_DEADLOCK FALSE
