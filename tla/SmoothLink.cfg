CONSTANTS
  None = None
  Zero = Zero
  d1 = d1
  d2 = d2
  j1 = j1
  j9 = j9
  l1 = l1
  l9 = l9
  q1 = q1
  InRange = {b1, b2}
  OutOfRange = {b9}
  Delays = {d1, d2}
  Jitters = {j1}
  NegativeJitters = {j9}
  Losses = {l1}
  BadLosses = {l9}
  Queues = {q1}
  Calls <- SomeCalls
SPECIFICATION Spec
INVARIANTS
  TypeOK
  ConfiguredAsAsked
  NoCommandFails
PROPERTIES
  SmoothKeepsShaping
  HardCallsAreStock
