SPECIFICATION Spec
CONSTANTS
  Holds = {"HoldBackoff"}
  Initial = 2
  FactorNum = 3
  FactorDen = 2
  Max = 9
  Repeats = 6
INVARIANTS EveryChangeToldOnce NoStream
PROPERTIES HoldIsKnown
