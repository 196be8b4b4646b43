\* on_demand; half of the layers keep a window of four tokens.  A prompt of seven tokens
\* is over the watermark by itself; above the watermark there is room for two tokens.
SPECIFICATION Spec
CONSTANTS
  KvPerToken = 2
  SwaShare = 1
  SwaWindow = 4
  N = 4
  PromptLens = {1, 3, 7}
  OutputLens = {2}
  NP = 1
  ND = 2
  MaxBatch = 3
  Policy = "on_demand"
  KvBudget = 14
  Usable = 10
INVARIANTS
  TypeOK
  KvLedger
  BatchIntact
  TokenConservation
  WatermarkAtRest
  HardBudget
  WorkConserving
PROPERTIES
  EmitsInTurn
  ImplementsService
  AllServed
