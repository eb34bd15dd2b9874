CONSTANTS
  t1 = t1
  t2 = t2
  Tasks <- MCTaskSet
  Columns = {"todo", "doing"}
  Dues = {0, 9}
  Starts <- MCStarts
  Targets = {"completed", "closed", "reopened"}
  MaxCalls = 2
  MaxTime = 1
  MaxFaults = 1
  NoEntry = NoEntry
  BREACH_BATCH_SIZE = 1
  Fields = {"user", "role"}
  Assignees = {"ann", "bob", "head"}
  Wishes <- MCWishes
  NoUser = NoUser
  MaxOrders = 3
SPECIFICATION MCSpec
INVARIANTS
  TasksTypeOK
  EscalationsAddUp
  StatusIsEarned
  CompletionIsDated
  CopiesKeepUp
  HolderIsShown
PROPERTY
  OverdueTaskIsMarked
CHECK_DEADLOCK FALSE
