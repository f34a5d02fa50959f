CONSTANTS
  Hops = 5
  Cycles = 4
  Routes <- RoutesOfThree
  Numberings <- MCNumberings
  Predictions <- AsMeasured
  Frame = 4
  MaxBusy = 5
  MaxCut = 1
SPECIFICATION FairSpec
INVARIANTS
  TypeOK
  NetworkFollowsFile
  PredictionsMatch
  ReportsAreTrue
  ReportsOnTime
  HandoversAreReported
PROPERTIES
  PlaybackEnds
\* The program ends.
CHECK_DEADLOCK FALSE
