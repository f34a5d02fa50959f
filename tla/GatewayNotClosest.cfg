SPECIFICATION Spec
CONSTANTS
  Sats = {s1, s2}
  None = None
  Interval = 3
  Offsets <- BesideAbove
  Reach = 3
SYMMETRY SatSymmetry
INVARIANT MinimumIsClosest
