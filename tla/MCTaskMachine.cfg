SPECIFICATION Spec
CONSTANTS
  i1 = i1
  i2 = i2
  Items = {i1, i2}
  Labels = {"execution", "other"}
  NoItem = NoItem
  ValidationItem = i2
  NoTask = NoTask
  NoAttempt = NoAttempt
  MaxSteps = 2
INVARIANTS
  TypeOK
  StoredTaskIsValid
  DeadEndsAreMigrated
PROPERTIES
  DoneIsValidated
  CompletedWorkIsKept
  NoMidChainSnapshot
CHECK_DEADLOCK FALSE
