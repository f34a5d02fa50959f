CONSTANT Hops = 8
SPECIFICATION FairSpec
INVARIANTS
  OneInterfacePerNode
  NoHandoverLost
PROPERTIES
  ImplementsLinkBreaks
  PhaseEnds
