CONSTANTS
  Hops = 5
  Cycles = 2
  Routes <- RoutesOfThree
  Numberings <- InOrder
  Predictions <- HalfFrameEarly
  Frame = 4
  MaxBusy = 4
  MaxCut = 1
SPECIFICATION Spec
INVARIANTS
  NeverCrashes
\* The program ends.
CHECK_DEADLOCK FALSE
