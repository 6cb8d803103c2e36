SPECIFICATION FairSpec
CONSTANTS
  Callers <- MCCallers
  MaxAttempts = 2
  FailureThreshold = 2
  HalfOpenMaxCalls = 2
  SuccessThreshold = 2
INVARIANT TypeOK
INVARIANT TrialLimit
INVARIANT NeverWedged
PROPERTY EveryCallReturns
PROPERTY Recovers
