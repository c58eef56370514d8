SPECIFICATION Spec
CONSTANTS
  Budget = 5
  Limits <- MCLimits
  Attempts = 2
INVARIANTS
  ResultIsTrue
  AnsweredIsTraced
PROPERTIES
  AskedOnce
  SessionEnds
CHECK_DEADLOCK FALSE
