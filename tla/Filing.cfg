CONSTANTS
  Requests <- MCRequests
  ContentOf <- MCContents
  PeriodOf <- MCPeriods
  None = None
SPECIFICATION FairSpec
INVARIANTS
  TypeOK
  OneSetPerPeriod
  SetsCiteStoredFilings
PROPERTIES
  PeriodKeepsFigures
  NoBlindReplacement
  EveryFilingAnswered
  ImplementsContentStore
