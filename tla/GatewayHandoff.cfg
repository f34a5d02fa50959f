SPECIFICATION Spec
CONSTANTS
  Sats = {s1, s2, s3}
  None = None
  Interval = 2
  Offsets <- NearFarAway
  Reach = 3
SYMMETRY SatSymmetry
INVARIANTS LatencyIsRecent
PROPERTIES NoRouteMissed NoNeedlessHandoff
