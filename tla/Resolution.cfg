SPECIFICATION Spec
CONSTANTS
  d1 = d1
  d2 = d2
  Documents = {d1, d2}
  MaxMentions = 2
  Mentions <- MCMentions
  Names <- MCNames
  Identifiers <- MCIdentifiers
  TypeOf <- MCTypeOf
  BlockOf <- MCBlockOf
  Score <- MCScore
  SharesTokens <- MCSharesTokens
  CandidateScore = 80
  FuzzyThreshold = 92
  NameLimit = 5
  Absent = Absent
INVARIANTS TypeOK IndexSound OneCompanyPerNode NodesAreJustified
