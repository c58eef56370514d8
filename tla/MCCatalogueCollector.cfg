SPECIFICATION Spec
CONSTANTS
  Budget = 5
  Limits <- MCLimits
  Attempts = 2
INVARIANT CollectorIsNeutral
CHECK_DEADLOCK FALSE
