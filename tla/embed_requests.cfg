\* Two requests of every provider with restarts under three settings, chunks
\* of two texts, one retry, replies of any form, and a counter that ends at 3.
CONSTANTS
  Blank <- TheBlanks
  Stop <- TheStops
  Fold <- TheFold
  Default <- TheDefault
  PlainNames = {"us-east-1", "us-central1", "eu", "us", "global", "p", "vertex_project", "own.", "2"}
  CohereModels = {"cohere"}
  TitanModels = {"titan"}
  MaxBatch = 2
  GeminiBatch = 2
  MaxRetries = 1
  Settings <- TheSettings
  Requests <- TheRequests
  MaxRequests = 2
  TokenCounts = {1, 2}
  TokenMax = 3
SPECIFICATION Spec
INVARIANTS
  TypeOK
  AnswersTellTheirInputs
  DeleteEvictsWhatPostHits
  UsageNeverUnderstated
CHECK_DEADLOCK FALSE
