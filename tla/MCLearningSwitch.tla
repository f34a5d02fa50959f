---------------------------- MODULE MCLearningSwitch --------------------------
(***************************************************************************)
(* Two switches, an address resolution that is broadcast, the answers and  *)
(* data in both directions, and a packet that POX cannot parse.            *)
(***************************************************************************)
EXTENDS LearningSwitch

MCSrc(p)    == IF p \in {"arp", "data", "bad"} THEN 0 ELSE 3
MCDst(p)    == IF p = "arp" THEN Everyone ELSE IF p \in {"data", "bad"} THEN 3 ELSE 0
MCParsed(p) == p # "bad"
==============================================================================
