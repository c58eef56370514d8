SPECIFICATION Spec
CONSTANTS
  MaxSteps = 8
  MaxCandidates = 3
  MaxCalls = 2
  Public = 1
INVARIANTS
  WithinBudget
  OneBatch
  ReportIsTrue
  CommitAwaitsUser
PROPERTIES
  AcceptedWasJudged
  AttemptEnds
