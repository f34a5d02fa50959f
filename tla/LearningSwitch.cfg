CONSTANTS
  Hops = 2
  Packets = {"arp", "data", "reply", "bad"}
  Src <- MCSrc
  Dst <- MCDst
  Parsed <- MCParsed
  Everyone = Everyone
  MaxBreaks = 1
  MaxConnects = 2
SPECIFICATION Spec
INVARIANTS
  TypeOK
  PortsPointHome
  OneCopy
PROPERTIES
  EndsSomewhere
\* Everything has arrived or is lost.
CHECK_DEADLOCK FALSE
