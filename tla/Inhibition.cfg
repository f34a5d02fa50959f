CONSTANTS
  Hops = 3
  Cycles = 4
  Routes <- TwoSatellites
  Numberings <- NumbersInOrder
  Predictions <- EarlyAndLate
  Frame = 2
  MaxBusy = 3
  MaxCut = 1
  Duration = 5
  MaxRest = 12
SPECIFICATION InhibitionSpec
INVARIANTS
  InhibitionCovers
  InhibitionIsDue
  SomeHandoverCompletes
PROPERTIES
  InhibitionEnds
\* The program ends.
CHECK_DEADLOCK FALSE
