SPECIFICATION BridgeSpec
CONSTANTS
  Specs <- SomeSpecs
  Machines <- SomeMachines
  Finer <- SomeFiner
INVARIANTS
  MaxFlowIsMinCut
  WidestIsBest
  RoundTrip
  SameMachine
