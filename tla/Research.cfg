CONSTANTS
  GrainPlaces = 2
  PowerOf <- MCPowerOf
  Magnitudes <- MCMagnitudes
  YearRange <- MCYearRange
  Requests <- MCRequests
  None = None
  Versions = {first, restated}
  Computed <- MCComputed
  Reported <- MCReported
  Worth <- MCWorth
  Invalid = Invalid
  SourceOf <- MCSourceOf
  Drafts <- MCDrafts
  Default = claude
  Fallbacks <- MCFallbacks
  Optional = {ollama}
  MaxRegenerations = 1
  MaxAttempts = 2
  PageLimit = 1
  first = first
  restated = restated
  filing = filing
  amendment = amendment
  phantom = phantom
  r1 = r1
  r2 = r2
  claude = claude
  ollama = ollama
SPECIFICATION Spec
SYMMETRY Twins
INVARIANTS
  TypeOK
  PublishableIsGrounded
  FaultsAreNamed
  RequestsEndTruthfully
CHECK_DEADLOCK FALSE
