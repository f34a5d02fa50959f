CONSTANTS
  Duration = 2
  StackValues <- UsedStack
  MaxTime = 8
  MaxReports = 2
  MaxRestarts = 0
SPECIFICATION Spec
PROPERTIES
  NeverClearedEarly
\* The relay never ends, but without restarts the bounds on the clock and
\* on the reports are no deadlock: the spinning thread goes on.
