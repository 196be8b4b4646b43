SPECIFICATION BridgeSpec
CONSTANTS
  Specs = {}
  Machines <- Uneven
  Finer = {}
INVARIANT SameMachine
