\* reserve, with two replicas in each pool.
SPECIFICATION Spec
CONSTANTS
  KvPerToken = 2
  SwaShare = 1
  SwaWindow = 2
  N = 4
  PromptLens = {1, 4}
  OutputLens = {3}
  NP = 2
  ND = 2
  MaxBatch = 3
  Policy = "reserve"
  KvBudget = 13
  Usable = 13
INVARIANTS
  ReserveCovers
