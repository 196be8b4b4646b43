SPECIFICATION Spec
CONSTANTS
  Fine = 12
  Eps = 1
  Graphs <- SomeGraphs
INVARIANTS
  GreedyFifo
  FluidShare
  LanesPacked
  LinkLoads
  TileBuffers
  NeverOptimistic
PROPERTY
  EndsOrCycle
