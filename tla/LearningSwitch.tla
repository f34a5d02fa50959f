---------------------------- MODULE LearningSwitch ----------------------------
(***************************************************************************)
(* emulation_stage/Mininet_config/learning_switch.py: the POX controller   *)
(* of the chain of switches that MyTopo of emulator.py builds between the  *)
(* two hosts. It keeps one Tutorial object, a table from addresses to      *)
(* ports, for every switch that is connected, and puts flows without a     *)
(* timeout into the switches, whose links the emulator breaks and mends.   *)
(*                                                                         *)
(* The node at position 0 is h1, the one at Hops + 1 is h2, those between  *)
(* are switches; a port is the position of the neighbour behind it. The    *)
(* switch (a flow that matches, else a packet-in; its answers in order)    *)
(* and POX (flows are deleted when a switch connects) are external.        *)
(***************************************************************************)
EXTENDS Integers, Sequences, SequencesExt, Functions, FiniteSets

CONSTANTS
  Hops,         \* intermediate_hop_num, the number of switches
  Packets,      \* what is sent, each packet once
  Src(_),       \* its sender, 0 or Hops + 1
  Dst(_),       \* its receiver, or Everyone
  Everyone,     \* the broadcast address
  Parsed(_),    \* POX can parse it
  MaxBreaks,    \* bound on links taken down
  MaxConnects   \* bound on connections made

Switches == 1..Hops
Hosts    == {0, Hops + 1}
Nodes    == Switches \cup Hosts
NoPort   == -1
Adjacent(i, j) == i = j + 1 \/ j = i + 1
Wires == {w \in Nodes \X Nodes : Adjacent(w[1], w[2])}

ASSUME PacketsAreSane ==
  /\ Hops \in Nat \ {0} /\ MaxBreaks \in Nat /\ MaxConnects \in Nat
  /\ Everyone \notin Nodes
  /\ \A p \in Packets : /\ Src(p) \in Hosts /\ Parsed(p) \in BOOLEAN
                        /\ Dst(p) \in (Hosts \ {Src(p)}) \cup {Everyone}

VARIABLES
  sent,         \* packets sent so far
  wire,         \* wire[<<i, j>>]: packets on their way from i to j
  down,         \* links that are down, as sets of two nodes
  connected,    \* switches that are connected to the controller
  flows,        \* flows[s][<<src, dst>>]: port of the flow, or NoPort
  packetIns,    \* packetIns[s]: on their way to the controller
  orders,       \* orders[s]: messages on their way to the switch
  macToPort,    \* mac_to_port of the Tutorial of each switch
  received,     \* packets that arrived at a host
  lost,         \* packets that were dropped
  breaks, connects    \* how often so far

vars == <<sent, wire, down, connected, flows, packetIns, orders, macToPort,
          received, lost, breaks, connects>>

NoFlows == [pair \in Hosts \X (Hosts \cup {Everyone}) |-> NoPort]
NoMacs  == [h \in Hosts \cup {Everyone} |-> NoPort]

Init ==
  /\ sent = {} /\ received = {} /\ lost = {}
  /\ wire = [w \in Wires |-> << >>]
  /\ down = {} /\ connected = {}
  /\ flows = [s \in Switches |-> NoFlows]
  /\ packetIns = [s \in Switches |-> << >>]
  /\ orders = [s \in Switches |-> << >>]
  /\ macToPort = [s \in Switches |-> NoMacs]
  /\ breaks = 0 /\ connects = 0

------------------------------------------------------------------------------
(* Hosts, wires and switches. *)

\* p leaves node i for node j, and is lost when the link is down.
Put(w, i, j, p) == IF {i, j} \in down THEN w ELSE [w EXCEPT ![<<i, j>>] = Append(@, p)]
Drop(i, j, p)   == IF {i, j} \in down THEN {p} ELSE {}

\* resend_packet to OFPP_ALL: of the two ports, the one it did not come from.
OtherPort(s, in) == IF in = s - 1 THEN s + 1 ELSE s - 1

Send(p) ==
  LET h == Src(p)
      s == IF h = 0 THEN 1 ELSE Hops
  IN  /\ p \notin sent
      /\ sent' = sent \cup {p}
      /\ wire' = Put(wire, h, s, p)
      /\ lost' = lost \cup Drop(h, s, p)
      /\ UNCHANGED <<down, connected, flows, packetIns, orders, macToPort,
                     received, breaks, connects>>

Arrive(s, in) ==
  LET q == wire[<<in, s>>]
      p == Head(q)
      rest == [wire EXCEPT ![<<in, s>>] = Tail(@)]
      out == flows[s][<<Src(p), Dst(p)>>]
  IN  /\ q # << >>
      /\ \/ /\ out # NoPort
            /\ wire' = Put(rest, s, out, p)
            /\ lost' = lost \cup Drop(s, out, p)
            /\ UNCHANGED packetIns
         \/ /\ out = NoPort /\ s \in connected
            /\ wire' = rest
            /\ packetIns' = [packetIns EXCEPT ![s] = Append(@, [packet |-> p, in |-> in])]
            /\ UNCHANGED lost
         \/ /\ out = NoPort /\ s \notin connected
            /\ wire' = rest
            /\ lost' = lost \cup {p}
            /\ UNCHANGED packetIns
      /\ UNCHANGED <<sent, down, connected, flows, orders, macToPort, received,
                     breaks, connects>>

\* An order of the controller: a packet to send on, or a flow to keep.
Obey(s) ==
  LET m == Head(orders[s])
  IN  /\ orders[s] # << >>
      /\ orders' = [orders EXCEPT ![s] = Tail(@)]
      /\ \/ /\ m.op = "packet_out"
            /\ wire' = Put(wire, s, m.port, m.packet)
            /\ lost' = lost \cup Drop(s, m.port, m.packet)
            /\ UNCHANGED flows
         \/ /\ m.op = "flow_mod"
            /\ flows' = [flows EXCEPT ![s][m.match] = m.port]
            /\ UNCHANGED <<wire, lost>>
      /\ UNCHANGED <<sent, down, connected, packetIns, macToPort, received,
                     breaks, connects>>

Receive(h) ==
  LET s == IF h = 0 THEN 1 ELSE Hops
  IN  /\ wire[<<s, h>>] # << >>
      /\ received' = received \cup {<<h, Head(wire[<<s, h>>])>>}
      /\ wire' = [wire EXCEPT ![<<s, h>>] = Tail(@)]
      /\ UNCHANGED <<sent, down, connected, flows, packetIns, orders, macToPort,
                     lost, breaks, connects>>

------------------------------------------------------------------------------
(* The controller. *)

\* Slip: the port that is learned is the one of the receiver.
LearnBackwards(s, p, in) == [macToPort EXCEPT ![s][Src(p)] = OtherPort(s, in)]

Learn(s, p, in) == [macToPort EXCEPT ![s][Src(p)] = in]

\* resend_packet
ResendPacket(p, port) == [op |-> "packet_out", packet |-> p, port |-> port]

FlowMod(p, port) == [op |-> "flow_mod", match |-> <<Src(p), Dst(p)>>, port |-> port]

\* Slip: the packet that asked for the flow is not sent on.
AnswerFlowOnly(s, p, in) ==
  LET port == Learn(s, p, in)[s][Dst(p)]
  IN  IF port # NoPort THEN <<FlowMod(p, port)>>
      ELSE <<ResendPacket(p, OtherPort(s, in))>>

\* Slip: a port that is not known is used all the same.
AnswerUnchecked(s, p, in) ==
  LET port == Learn(s, p, in)[s][Dst(p)]
  IN  <<ResendPacket(p, port), FlowMod(p, port)>>

\* Slip: the packet is broadcast as well as sent to the known port.
AnswerTwice(s, p, in) ==
  LET port == Learn(s, p, in)[s][Dst(p)]
  IN  IF port # NoPort
        THEN <<ResendPacket(p, port), FlowMod(p, port), ResendPacket(p, OtherPort(s, in))>>
      ELSE <<ResendPacket(p, OtherPort(s, in))>>

\* The packet first, then the flow; a receiver not seen yet gets no flow.
Answer(s, p, in) ==
  LET port == Learn(s, p, in)[s][Dst(p)]
  IN  IF port # NoPort THEN <<ResendPacket(p, port), FlowMod(p, port)>>
      ELSE <<ResendPacket(p, OtherPort(s, in))>>

HandlePacketIn(s) ==
  LET p == Head(packetIns[s]).packet
      in == Head(packetIns[s]).in
  IN  /\ packetIns[s] # << >>
      /\ packetIns' = [packetIns EXCEPT ![s] = Tail(@)]
      /\ \/ /\ ~Parsed(p)
            /\ lost' = lost \cup {p}
            /\ UNCHANGED <<macToPort, orders>>
         \/ /\ Parsed(p)
            /\ macToPort' = Learn(s, p, in)
            /\ orders' = [orders EXCEPT ![s] = @ \o Answer(s, p, in)]
            /\ UNCHANGED lost
      /\ UNCHANGED <<sent, wire, down, connected, flows, received, breaks, connects>>

\* Packets that the connection to a switch still carried.
InTransit(s) ==
  {packetIns[s][i].packet : i \in DOMAIN packetIns[s]} \cup
  {orders[s][i].packet : i \in {j \in DOMAIN orders[s] : orders[s][j].op = "packet_out"}}

\* start_switch: a connection, the first one or one more, gets a new Tutorial.
ConnectionUp(s) ==
  /\ connects < MaxConnects
  /\ connects' = connects + 1
  /\ connected' = connected \cup {s}
  /\ macToPort' = [macToPort EXCEPT ![s] = NoMacs]
  /\ flows' = [flows EXCEPT ![s] = NoFlows]
  /\ packetIns' = [packetIns EXCEPT ![s] = << >>]
  /\ orders' = [orders EXCEPT ![s] = << >>]
  /\ lost' = lost \cup InTransit(s)
  /\ UNCHANGED <<sent, wire, down, received, breaks>>

\* configLinkStatus of the emulator: what is on a wire is lost with it.
LinkDown(i) ==
  LET link == {i, i + 1}
      cut == {<<i, i + 1>>, <<i + 1, i>>}
  IN  /\ breaks < MaxBreaks /\ link \notin down
      /\ breaks' = breaks + 1
      /\ down' = down \cup {link}
      /\ lost' = lost \cup UNION {ToSet(wire[w]) : w \in cut}
      /\ wire' = [w \in Wires |-> IF w \in cut THEN << >> ELSE wire[w]]
      /\ UNCHANGED <<sent, connected, flows, packetIns, orders, macToPort,
                     received, connects>>

LinkUp(i) ==
  /\ {i, i + 1} \in down
  /\ down' = down \ {{i, i + 1}}
  /\ UNCHANGED <<sent, wire, connected, flows, packetIns, orders, macToPort,
                 received, lost, breaks, connects>>

Next ==
  \/ \E p \in Packets : Send(p)
  \/ \E w \in Wires : w[2] \in Switches /\ Arrive(w[2], w[1])
  \/ \E s \in Switches : Obey(s) \/ HandlePacketIn(s) \/ ConnectionUp(s)
  \/ \E h \in Hosts : Receive(h)
  \/ \E i \in 0..Hops : LinkDown(i) \/ LinkUp(i)

\* Switches, wires and POX's event loop go on by themselves.
Fairness ==
  /\ \A w \in Wires : w[2] \in Switches => WF_vars(Arrive(w[2], w[1]))
  /\ \A s \in Switches : WF_vars(Obey(s)) /\ WF_vars(HandlePacketIn(s))
  /\ \A h \in Hosts : WF_vars(Receive(h))

Spec == Init /\ [][Next]_vars /\ Fairness

------------------------------------------------------------------------------
Towards(s, h) == IF h = 0 THEN s - 1 ELSE s + 1
Orders == [op : {"packet_out"}, packet : Packets, port : Nodes] \cup
          [op : {"flow_mod"}, match : Hosts \X (Hosts \cup {Everyone}), port : Nodes]

\* The shape of the state.
TypeOK ==
  /\ sent \subseteq Packets /\ lost \subseteq Packets
  /\ received \subseteq Hosts \X Packets
  /\ wire \in [Wires -> Seq(Packets)]
  /\ down \subseteq {{i, i + 1} : i \in 0..Hops}
  /\ connected \subseteq Switches
  /\ flows \in [Switches -> [Hosts \X (Hosts \cup {Everyone}) -> Nodes \cup {NoPort}]]
  /\ packetIns \in [Switches -> Seq([packet : Packets, in : Nodes])]
  /\ orders \in [Switches -> Seq(Orders)]
  /\ macToPort \in [Switches -> [Hosts \cup {Everyone} -> Nodes \cup {NoPort}]]
  /\ breaks \in 0..MaxBreaks /\ connects \in 0..MaxConnects

\* "Since right now the topology is static, we can ignore entry timeout": no
\* port that a switch has learned, and no flow, ever leads away from its host,
\* though links break and mend and switches connect again under the traffic.
PortsPointHome ==
  \A s \in Switches, h \in Hosts :
    /\ macToPort[s][h] \in {NoPort, Towards(s, h)}
    /\ \A g \in Hosts : flows[s][<<g, h>>] \in {NoPort, Towards(s, h)}

\* No packet is doubled or vanishes: what was sent is on one wire, in one
\* packet-in, in one packet-out, received by one host, or lost, whichever of
\* the flow, the controller and the broadcast moved it along.
OneCopy ==
  \A p \in sent :
    LET onWires == UNION {{<<w, i>> : i \in {j \in DOMAIN wire[w] : wire[w][j] = p}} : w \in Wires}
        asked   == UNION {{<<s, i>> : i \in {j \in DOMAIN packetIns[s] :
                                               packetIns[s][j].packet = p}} : s \in Switches}
        ordered == UNION {{<<s, i>> : i \in {j \in DOMAIN orders[s] :
                             orders[s][j].op = "packet_out" /\ orders[s][j].packet = p}} : s \in Switches}
        ended   == {h \in Hosts : <<h, p>> \in received} \cup {x \in {NoPort} : p \in lost}
    IN  Cardinality(onWires) + Cardinality(asked) + Cardinality(ordered) + Cardinality(ended) = 1

\* Every packet arrives in the end or is dropped at a link that is down, a
\* switch that is not connected or a packet-in that cannot be parsed: none
\* waits for ever for an answer of the controller.
EndsSomewhere ==
  \A p \in Packets : p \in sent ~> (p \in lost \/ \E h \in Hosts : <<h, p>> \in received)
==============================================================================
