CONSTANTS
  a = a
  b = b
  e = e
  Column <- MCColumn
  Entity = {e}
  ColumnBudget = 1
  NoView = NoView
  MaxChanges = 3
SPECIFICATION Spec
INVARIANT
  RefreshArrives
CHECK_DEADLOCK FALSE
