CONSTANTS
  Nodes <- MCNodes
  OldPaths <- MCOldPaths
  NewPaths <- MCNewPaths
SPECIFICATION Spec
INVARIANTS
  MarksAreNewLinks
  NoMarkMeansSameRoute
  NoIndexError
\* The function returns.
CHECK_DEADLOCK FALSE
