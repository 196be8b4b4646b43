SPECIFICATION DesSpec
CONSTANTS
  Fine = 1
  Eps = 0
  Graphs <- FirstGraphs
  Jobs <- PipeJobs
  Rtol = 1
INVARIANTS SerialOracle StagePaced WorkConserved
PROPERTY DesReturns
