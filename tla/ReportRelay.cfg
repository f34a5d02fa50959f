CONSTANTS
  Duration = 2
  StackValues <- FreshStack
  MaxTime = 8
  MaxReports = 3
  MaxRestarts = 1
SPECIFICATION FairSpec
INVARIANTS
  FlagMatchesStatus
PROPERTIES
  NeverClearedEarly
  ImplementsTimer
  FlagIsCleared
  RelayedUnlessStarved
\* The relay never ends: when the bounds on clock, reports and restarts are
\* reached the spinning thread goes on.
