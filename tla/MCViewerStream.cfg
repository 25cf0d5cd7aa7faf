CONSTANTS
  a = a
  b = b
  e = e
  Column <- MCColumn
  Entity = {e}
  ColumnBudget = 1
  NoView = NoView
  MaxChanges = 3
SPECIFICATION FairSpec
INVARIANTS
  DeltaFitsClient
  SentColumnsCurrent
  EntitiesCurrentUnlessSuperseded
PROPERTIES
  WorldArrives
CHECK_DEADLOCK FALSE
