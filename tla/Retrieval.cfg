CONSTANTS
  Entities <- MCEntities
  TypeOf <- MCTypeOf
  Order <- MCOrder
  Schema <- MCSchema
  TypeOrder <- MCTypeOrder
  Symmetric = {"COMPETES_WITH", "PARTNERS_WITH"}
  Validities = {"unknown", "until"}
  Statements <- MCStatements
  Documents = {filing, news}
  MentionsOf <- MCMentionsOf
  Similarity <- MCSimilarity
  MinimumSimilarity = 1
  EmbeddingModels = {old, new}
  Current = new
  None = None
  Phantom = Phantom
  TopK = 1
  MaxSeeds = 2
  MaxNeighbours = 2
  GraphDepth = 1
  Depths = {1, 2}
  Filters <- MCFilters
  PathDepth = 3
  NodeCap = 3
  acme = acme
  zenith = zenith
  robotics = robotics
  filing = filing
  news = news
  old = old
  new = new
SPECIFICATION Spec
INVARIANTS
  TypeOK
  AnswersStandOnSources
  FactsAreEdges
  ViewsAreTrue
CHECK_DEADLOCK FALSE
