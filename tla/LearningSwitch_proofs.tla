------------------------ MODULE LearningSwitch_proofs ------------------------
(***************************************************************************)
(* Proofs about the learning switches, for chains of any length and any    *)
(* packets, breaks and connections. A packet only ever moves away from its *)
(* sender: a broadcast leaves on the other port, and a port that was       *)
(* learned points to the other host. So the port it arrives by is the one  *)
(* that leads to its sender, and that is what is learned. And a packet is  *)
(* always in one place: every action takes it from the queue it is in, or  *)
(* lets it be, and what it takes it puts into one other queue.             *)
(***************************************************************************)
EXTENDS LearningSwitch, FiniteSetTheorems, TLAPS

------------------------------------------------------------------------------
(* Sequences. *)

\* What is left of a queue, and what is taken from it.
LEMMA HeadAndTail ==
  ASSUME NEW S, NEW q \in Seq(S), q # << >>
  PROVE  Head(q) \in S /\ Tail(q) \in Seq(S)
  OBVIOUS

\* What is put into a queue.
LEMMA AppendTo ==
  ASSUME NEW S, NEW q \in Seq(S), NEW x \in S
  PROVE  Append(q, x) \in Seq(S)
  OBVIOUS

LEMMA ConcatTo ==
  ASSUME NEW S, NEW q \in Seq(S), NEW r \in Seq(S)
  PROVE  q \o r \in Seq(S)
  OBVIOUS

LEMMA OneOrTwo ==
  ASSUME NEW S, NEW x \in S, NEW y \in S
  PROVE  <<x>> \in Seq(S) /\ <<x, y>> \in Seq(S)
  OBVIOUS

\* What a queue holds.
LEMMA Elements ==
  ASSUME NEW S, NEW q \in Seq(S), NEW n \in DOMAIN q
  PROVE  q[n] \in S
  OBVIOUS

LEMMA SeqOfMore ==
  ASSUME NEW S, NEW T, S \subseteq T, NEW q \in Seq(S)
  PROVE  q \in Seq(T)
<1>1. Len(q) \in Nat /\ DOMAIN q = 1..Len(q) /\ \A n \in 1..Len(q) : q[n] \in T
  OBVIOUS
<1>2. q = [n \in 1..Len(q) |-> q[n]]
  OBVIOUS
<1> QED
  BY <1>1, <1>2

------------------------------------------------------------------------------
(* The chain. *)

\* The neighbour of node i on the side that host h is not on.
Away(i, h) == IF h = 0 THEN i + 1 ELSE i - 1

LEMMA Chain ==
  ASSUME NEW s \in Switches, NEW h \in Hosts
  PROVE  /\ Towards(s, h) \in Nodes /\ Away(s, h) \in Nodes
         /\ <<s, Towards(s, h)>> \in Wires /\ <<s, Away(s, h)>> \in Wires
         /\ Towards(s, h) # NoPort
         /\ OtherPort(s, Towards(s, h)) = Away(s, h)
         /\ \A g \in Hosts : g # h => Towards(s, g) = Away(s, h)
  BY PacketsAreSane DEF Switches, Hosts, Nodes, Wires, Adjacent, Towards, Away, OtherPort, NoPort

\* A packet that comes from its sender's side goes on to the other.
LEMMA Passing ==
  ASSUME NEW s \in Switches, NEW in \in Nodes, <<in, s>> \in Wires,
         NEW h \in Hosts, s = Away(in, h)
  PROVE  in = Towards(s, h)
  BY PacketsAreSane DEF Switches, Hosts, Nodes, Wires, Adjacent, Towards, Away

\* The first switch on a packet's way.
LEMMA FirstHop ==
  ASSUME NEW h \in Hosts, NEW s, s = IF h = 0 THEN 1 ELSE Hops
  PROVE  <<h, s>> \in Wires /\ s = Away(h, h)
  BY PacketsAreSane DEF Switches, Hosts, Nodes, Wires, Adjacent, Away

LEMMA LastHop ==
  ASSUME NEW h \in Hosts, NEW s, s = IF h = 0 THEN 1 ELSE Hops
  PROVE  <<s, h>> \in Wires
  BY PacketsAreSane DEF Switches, Hosts, Nodes, Wires, Adjacent

LEMMA Senders ==
  ASSUME NEW p \in Packets
  PROVE  Src(p) \in Hosts /\ Dst(p) \in Hosts \cup {Everyone} /\ Dst(p) # Src(p)
  BY PacketsAreSane DEF Hosts, Nodes

------------------------------------------------------------------------------
(* The invariant. *)

Addresses == Hosts \cup {Everyone}

\* Packets on a wire lead away from their senders, packets in packet-ins came
\* from there.
OnTheWay(w) == {p \in Packets : w[2] = Away(w[1], Src(p))}

Asks     == [packet : Packets, in : Nodes]
Asked(s) == {r \in Asks : r.in = Towards(s, Src(r.packet))}

PacketOuts(s) == {m \in [op : {"packet_out"}, packet : Packets, port : Nodes] :
                    m.port = Away(s, Src(m.packet))}
FlowMods(s)   == {m \in [op : {"flow_mod"}, match : Hosts \X Hosts, port : Nodes] :
                    m.port = Towards(s, m.match[2])}
Ordered(s)    == PacketOuts(s) \cup FlowMods(s)

WireOK(wr) ==
  wr \in [Wires -> Seq(Packets)] /\ \A w \in Wires : wr[w] \in Seq(OnTheWay(w))

AsksOK(a) ==
  a \in [Switches -> Seq(Asks)] /\ \A s \in Switches : a[s] \in Seq(Asked(s))

OrdersOK(o) ==
  o \in [Switches -> Seq(Orders)] /\ \A s \in Switches : o[s] \in Seq(Ordered(s))

\* Nobody sends from the broadcast address, so it has no port.
MacsOK(m) ==
  /\ m \in [Switches -> [Addresses -> Nodes \cup {NoPort}]]
  /\ \A s \in Switches : /\ m[s][Everyone] = NoPort
                         /\ \A h \in Hosts : m[s][h] \in {NoPort, Towards(s, h)}

FlowsOK(f) ==
  /\ f \in [Switches -> [Hosts \X Addresses -> Nodes \cup {NoPort}]]
  /\ \A s \in Switches, g \in Hosts :
       /\ f[s][<<g, Everyone>>] = NoPort
       /\ \A h \in Hosts : f[s][<<g, h>>] \in {NoPort, Towards(s, h)}

Books ==
  /\ sent \subseteq Packets /\ lost \subseteq Packets
  /\ received \subseteq Hosts \X Packets
  /\ down \subseteq {{i, i + 1} : i \in 0..Hops}
  /\ connected \subseteq Switches
  /\ breaks \in 0..MaxBreaks /\ connects \in 0..MaxConnects

IInv ==
  /\ Books
  /\ WireOK(wire) /\ AsksOK(packetIns) /\ OrdersOK(orders)
  /\ MacsOK(macToPort) /\ FlowsOK(flows)

LEMMA Strengthens == IInv => TypeOK /\ PortsPointHome
  BY DEF IInv, Books, WireOK, AsksOK, OrdersOK, MacsOK, FlowsOK, TypeOK, PortsPointHome,
         Asks, Addresses

------------------------------------------------------------------------------
(* Wires, tables and queues. *)

LEMMA PutOK ==
  ASSUME NEW wr, WireOK(wr), NEW i, NEW j, <<i, j>> \in Wires,
         NEW p \in OnTheWay(<<i, j>>)
  PROVE  WireOK(Put(wr, i, j, p)) /\ Drop(i, j, p) \subseteq Packets
<1>1. p \in Packets
  BY DEF OnTheWay
<1>2. Append(wr[<<i, j>>], p) \in Seq(OnTheWay(<<i, j>>))
  BY AppendTo DEF WireOK
<1>3. Append(wr[<<i, j>>], p) \in Seq(Packets)
  BY <1>1, AppendTo DEF WireOK
<1>4. WireOK([wr EXCEPT ![<<i, j>>] = Append(@, p)])
  BY <1>2, <1>3 DEF WireOK
<1> QED
  BY <1>1, <1>4 DEF Put, Drop

LEMMA TakeOK ==
  ASSUME NEW wr, WireOK(wr), NEW w \in Wires, wr[w] # << >>
  PROVE  /\ WireOK([wr EXCEPT ![w] = Tail(@)])
         /\ Head(wr[w]) \in OnTheWay(w)
<1>1. wr[w] \in Seq(Packets) /\ wr[w] \in Seq(OnTheWay(w))
  BY DEF WireOK
<1>2. Tail(wr[w]) \in Seq(Packets) /\ Tail(wr[w]) \in Seq(OnTheWay(w))
      /\ Head(wr[w]) \in OnTheWay(w)
  BY <1>1, HeadAndTail
<1> QED
  BY <1>2 DEF WireOK

\* A packet that has reached a switch on its way.
LEMMA ArrivedOK ==
  ASSUME NEW s \in Switches, NEW in, <<in, s>> \in Wires, NEW p \in OnTheWay(<<in, s>>)
  PROVE  /\ p \in Packets /\ in \in Nodes /\ in = Towards(s, Src(p))
         /\ p \in OnTheWay(<<s, Away(s, Src(p))>>)
<1>1. in \in Nodes /\ p \in Packets /\ s = Away(in, Src(p))
  BY DEF Wires, OnTheWay
<1> QED
  BY <1>1, Passing, Senders DEF OnTheWay

\* What a switch does with a packet: a flow leads to the other host.
LEMMA FlowLeadsOn ==
  ASSUME FlowsOK(flows), NEW s \in Switches, NEW p \in Packets,
         flows[s][<<Src(p), Dst(p)>>] # NoPort
  PROVE  flows[s][<<Src(p), Dst(p)>>] = Away(s, Src(p))
<1>1. Src(p) \in Hosts /\ Dst(p) \in Hosts \cup {Everyone} /\ Dst(p) # Src(p)
  BY Senders
<1>2. Dst(p) \in Hosts
  BY <1>1 DEF FlowsOK
<1>3. flows[s][<<Src(p), Dst(p)>>] = Towards(s, Dst(p))
  BY <1>1, <1>2 DEF FlowsOK
<1> QED
  BY <1>1, <1>2, <1>3, Chain

------------------------------------------------------------------------------
(* The actions. *)

LEMMA InitInvariant == Init => IInv
<1> SUFFICES ASSUME Init PROVE IInv
  OBVIOUS
<1>1. Books
  BY PacketsAreSane DEF Init, Books
<1>2. WireOK(wire) /\ AsksOK(packetIns) /\ OrdersOK(orders)
  BY DEF Init, WireOK, AsksOK, OrdersOK
<1>3. MacsOK(macToPort)
  BY DEF Init, MacsOK, NoMacs, Addresses
<1>4. FlowsOK(flows)
  BY DEF Init, FlowsOK, NoFlows, Addresses
<1> QED
  BY <1>1, <1>2, <1>3, <1>4 DEF IInv

LEMMA SendInvariant ==
  ASSUME IInv, NEW p \in Packets, Send(p)
  PROVE  IInv'
<1> DEFINE h == Src(p)
           s == IF h = 0 THEN 1 ELSE Hops
<1>1. h \in Hosts
  BY Senders
<1>2. <<h, s>> \in Wires /\ p \in OnTheWay(<<h, s>>)
  BY <1>1, FirstHop DEF OnTheWay
<1>3. WireOK(Put(wire, h, s, p)) /\ Drop(h, s, p) \subseteq Packets
  BY <1>2, PutOK DEF IInv
<1>4. WireOK(wire') /\ Books'
  BY <1>3 DEF Send, IInv, Books
<1> QED
  BY <1>4 DEF Send, IInv

LEMMA ArriveInvariant ==
  ASSUME IInv, NEW s \in Switches, NEW in, <<in, s>> \in Wires, Arrive(s, in)
  PROVE  IInv'
<1> DEFINE p == Head(wire[<<in, s>>])
           rest == [wire EXCEPT ![<<in, s>>] = Tail(@)]
           out == flows[s][<<Src(p), Dst(p)>>]
<1>1. WireOK(rest) /\ p \in OnTheWay(<<in, s>>)
  BY TakeOK DEF Arrive, IInv
<1>2. /\ p \in Packets /\ in \in Nodes /\ in = Towards(s, Src(p))
      /\ p \in OnTheWay(<<s, Away(s, Src(p))>>)
  BY <1>1, ArrivedOK
<1>3. Src(p) \in Hosts
  BY <1>2, Senders
<1>4. UNCHANGED <<sent, down, connected, flows, orders, macToPort, received,
                  breaks, connects>>
  BY DEF Arrive
<1>5. CASE /\ out # NoPort
           /\ wire' = Put(rest, s, out, p)
           /\ lost' = lost \cup Drop(s, out, p)
           /\ UNCHANGED packetIns
  <2>1. out = Away(s, Src(p))
    BY <1>2, <1>5, FlowLeadsOn DEF IInv
  <2>2. <<s, out>> \in Wires
    BY <1>3, <2>1, Chain
  <2>3. WireOK(wire') /\ lost' \subseteq Packets
    BY <1>1, <1>2, <1>5, <2>1, <2>2, PutOK DEF IInv, Books
  <2> QED
    BY <1>4, <1>5, <2>3 DEF IInv, Books
<1>6. CASE /\ wire' = rest
           /\ packetIns' = [packetIns EXCEPT ![s] = Append(@, [packet |-> p, in |-> in])]
           /\ UNCHANGED lost
  <2>1. [packet |-> p, in |-> in] \in Asks /\ [packet |-> p, in |-> in] \in Asked(s)
    BY <1>2 DEF Asks, Asked
  <2>2. /\ Append(packetIns[s], [packet |-> p, in |-> in]) \in Seq(Asks)
        /\ Append(packetIns[s], [packet |-> p, in |-> in]) \in Seq(Asked(s))
    BY <2>1, AppendTo DEF IInv, AsksOK
  <2>3. AsksOK(packetIns')
    BY <1>6, <2>2 DEF IInv, AsksOK
  <2> QED
    BY <1>1, <1>4, <1>6, <2>3 DEF IInv, Books
<1>7. CASE wire' = rest /\ lost' = lost \cup {p} /\ UNCHANGED packetIns
  BY <1>1, <1>2, <1>4, <1>7 DEF IInv, Books
<1> QED
  BY <1>5, <1>6, <1>7 DEF Arrive

LEMMA ObeyInvariant ==
  ASSUME IInv, NEW s \in Switches, Obey(s)
  PROVE  IInv'
<1> DEFINE m == Head(orders[s])
<1>1. UNCHANGED <<sent, down, connected, packetIns, macToPort, received,
                  breaks, connects>>
  BY DEF Obey
<1>2. /\ orders[s] \in Seq(Orders) /\ orders[s] \in Seq(Ordered(s)) /\ orders[s] # << >>
      /\ orders' = [orders EXCEPT ![s] = Tail(@)]
  BY DEF Obey, IInv, OrdersOK
<1>3. m \in Ordered(s) /\ Tail(orders[s]) \in Seq(Orders) /\ Tail(orders[s]) \in Seq(Ordered(s))
  BY <1>2, HeadAndTail
<1>4. OrdersOK(orders')
  BY <1>2, <1>3 DEF IInv, OrdersOK
<1>5. CASE /\ m.op = "packet_out"
           /\ wire' = Put(wire, s, m.port, m.packet)
           /\ lost' = lost \cup Drop(s, m.port, m.packet)
           /\ UNCHANGED flows
  <2>1. m.packet \in Packets /\ m.port = Away(s, Src(m.packet))
    BY <1>3, <1>5 DEF Ordered, PacketOuts, FlowMods
  <2>2. <<s, m.port>> \in Wires
    BY <2>1, Senders, Chain
  <2>3. m.packet \in OnTheWay(<<s, m.port>>)
    BY <2>1 DEF OnTheWay
  <2>4. WireOK(wire') /\ lost' \subseteq Packets
    BY <1>5, <2>2, <2>3, PutOK DEF IInv, Books
  <2> QED
    BY <1>1, <1>4, <1>5, <2>4 DEF IInv, Books
<1>6. CASE /\ m.op = "flow_mod"
           /\ flows' = [flows EXCEPT ![s][m.match] = m.port]
           /\ UNCHANGED <<wire, lost>>
  <2>1. PICK g \in Hosts, h \in Hosts : m.match = <<g, h>> /\ m.port = Towards(s, h)
    BY <1>3, <1>6 DEF Ordered, PacketOuts, FlowMods
  <2>2. Towards(s, h) \in Nodes
    BY <2>1, Chain
  <2>3. Everyone \notin Hosts
    BY PacketsAreSane DEF Nodes
  <2>4. flows \in [Switches -> [Hosts \X Addresses -> Nodes \cup {NoPort}]]
    BY DEF IInv, FlowsOK
  <2>5. flows' \in [Switches -> [Hosts \X Addresses -> Nodes \cup {NoPort}]]
    BY <1>6, <2>1, <2>2, <2>4
  <2>6. ASSUME NEW t \in Switches, NEW pair \in Hosts \X Addresses
        PROVE  flows'[t][pair] = IF t = s /\ pair = <<g, h>> THEN Towards(s, h)
                                 ELSE flows[t][pair]
    BY <1>6, <2>1, <2>4
  <2>7. ASSUME NEW t \in Switches, NEW k \in Hosts, NEW a \in Addresses
        PROVE  flows'[t][<<k, a>>] = IF t = s /\ k = g /\ a = h THEN Towards(s, h)
                                     ELSE flows[t][<<k, a>>]
    BY <2>6
  <2>8. ASSUME NEW t \in Switches, NEW k \in Hosts
        PROVE  /\ flows'[t][<<k, Everyone>>] = NoPort
               /\ \A a \in Hosts : flows'[t][<<k, a>>] \in {NoPort, Towards(t, a)}
    <3>1. flows'[t][<<k, Everyone>>] = NoPort
      <4>1. flows'[t][<<k, Everyone>>] = flows[t][<<k, Everyone>>]
        BY <2>3, <2>7 DEF Addresses
      <4> QED
        BY <4>1 DEF IInv, FlowsOK
    <3>2. ASSUME NEW a \in Hosts
          PROVE  flows'[t][<<k, a>>] \in {NoPort, Towards(t, a)}
      <4>1. flows[t][<<k, a>>] \in {NoPort, Towards(t, a)}
        BY DEF IInv, FlowsOK
      <4> QED
        BY <2>7, <4>1 DEF Addresses
    <3> QED
      BY <3>1, <3>2
  <2>9. FlowsOK(flows')
    BY <2>5, <2>8 DEF FlowsOK
  <2> QED
    BY <1>1, <1>4, <1>6, <2>9 DEF IInv, Books
<1> QED
  BY <1>5, <1>6 DEF Obey

LEMMA ReceiveInvariant ==
  ASSUME IInv, NEW h \in Hosts, Receive(h)
  PROVE  IInv'
<1> DEFINE s == IF h = 0 THEN 1 ELSE Hops
<1>1. <<s, h>> \in Wires
  BY LastHop
<1>2. /\ wire[<<s, h>>] # << >>
      /\ received' = received \cup {<<h, Head(wire[<<s, h>>])>>}
      /\ wire' = [wire EXCEPT ![<<s, h>>] = Tail(@)]
  BY DEF Receive
<1>3. WireOK(wire') /\ Head(wire[<<s, h>>]) \in Packets
  BY <1>1, <1>2, TakeOK DEF IInv, OnTheWay
<1>4. received' \subseteq Hosts \X Packets
  BY <1>2, <1>3 DEF IInv, Books
<1> QED
  BY <1>3, <1>4 DEF Receive, IInv, Books

LEMMA AnswerOK ==
  ASSUME MacsOK(macToPort), NEW s \in Switches, NEW r \in Asked(s)
  PROVE  /\ MacsOK(Learn(s, r.packet, r.in))
         /\ Answer(s, r.packet, r.in) \in Seq(Ordered(s))
         /\ Ordered(s) \subseteq Orders
<1> DEFINE p == r.packet
           learned == Learn(s, p, r.in)
           port == learned[s][Dst(p)]
<1>1. /\ p \in Packets /\ r.in \in Nodes /\ r.in = Towards(s, Src(p))
      /\ Src(p) \in Hosts /\ Dst(p) \in Addresses /\ Dst(p) # Src(p)
  BY Senders DEF Asked, Asks, Addresses
<1>2. Everyone \notin Hosts
  BY PacketsAreSane DEF Nodes
<1>3. MacsOK(learned)
  BY <1>1, <1>2 DEF MacsOK, Learn, Addresses
<1>4. /\ OtherPort(s, r.in) = Away(s, Src(p)) /\ Away(s, Src(p)) \in Nodes
      /\ \A h \in Hosts : h # Src(p) => Towards(s, h) = Away(s, Src(p))
  BY <1>1, Chain
<1>5. ASSUME port # NoPort
      PROVE  Answer(s, p, r.in) \in Seq(Ordered(s))
  <2>1. Dst(p) \in Hosts /\ port = Towards(s, Dst(p)) /\ port = Away(s, Src(p))
    BY <1>1, <1>3, <1>4, <1>5 DEF MacsOK, Addresses
  <2>2. ResendPacket(p, port) \in Ordered(s)
    BY <1>1, <1>4, <2>1 DEF Ordered, PacketOuts, ResendPacket
  <2>3. FlowMod(p, port) \in Ordered(s)
    BY <1>1, <1>4, <2>1 DEF Ordered, FlowMods, FlowMod
  <2>4. Answer(s, p, r.in) = <<ResendPacket(p, port), FlowMod(p, port)>>
    BY <1>5 DEF Answer
  <2>5. <<ResendPacket(p, port), FlowMod(p, port)>> \in Seq(Ordered(s))
    BY <2>2, <2>3, OneOrTwo
  <2> QED
    BY <2>4, <2>5, Zenon
<1>6. ASSUME port = NoPort
      PROVE  Answer(s, p, r.in) \in Seq(Ordered(s))
  <2>1. ResendPacket(p, OtherPort(s, r.in)) \in Ordered(s)
    BY <1>1, <1>4 DEF Ordered, PacketOuts, ResendPacket
  <2>2. Answer(s, p, r.in) = <<ResendPacket(p, OtherPort(s, r.in))>>
    BY <1>6 DEF Answer
  <2>3. <<ResendPacket(p, OtherPort(s, r.in))>> \in Seq(Ordered(s))
    BY <2>1, OneOrTwo
  <2> QED
    BY <2>2, <2>3, Zenon
<1>7. Ordered(s) \subseteq Orders
  BY DEF Ordered, PacketOuts, FlowMods, Orders
<1> QED
  BY <1>3, <1>5, <1>6, <1>7

LEMMA HandlePacketInInvariant ==
  ASSUME IInv, NEW s \in Switches, HandlePacketIn(s)
  PROVE  IInv'
<1> DEFINE r == Head(packetIns[s])
<1>1. UNCHANGED <<sent, wire, down, connected, flows, received, breaks, connects>>
  BY DEF HandlePacketIn
<1>2. /\ packetIns[s] \in Seq(Asks) /\ packetIns[s] \in Seq(Asked(s))
      /\ packetIns[s] # << >>
      /\ packetIns' = [packetIns EXCEPT ![s] = Tail(@)]
  BY DEF HandlePacketIn, IInv, AsksOK
<1>3. /\ r \in Asked(s)
      /\ Tail(packetIns[s]) \in Seq(Asks) /\ Tail(packetIns[s]) \in Seq(Asked(s))
  BY <1>2, HeadAndTail
<1>4. AsksOK(packetIns') /\ r.packet \in Packets
  BY <1>2, <1>3 DEF IInv, AsksOK, Asked, Asks
<1>5. CASE lost' = lost \cup {r.packet} /\ UNCHANGED <<macToPort, orders>>
  BY <1>1, <1>4, <1>5 DEF IInv, Books
<1>6. CASE /\ macToPort' = Learn(s, r.packet, r.in)
           /\ orders' = [orders EXCEPT ![s] = @ \o Answer(s, r.packet, r.in)]
           /\ UNCHANGED lost
  <2> DEFINE a == Answer(s, r.packet, r.in)
  <2>1. MacsOK(macToPort') /\ a \in Seq(Ordered(s)) /\ Ordered(s) \subseteq Orders
    BY <1>3, <1>6, AnswerOK DEF IInv
  <2>2. a \in Seq(Orders)
    BY <2>1, SeqOfMore
  <2>3. orders[s] \in Seq(Orders) /\ orders[s] \in Seq(Ordered(s))
    BY DEF IInv, OrdersOK
  <2>4. orders[s] \o a \in Seq(Orders) /\ orders[s] \o a \in Seq(Ordered(s))
    BY <2>1, <2>2, <2>3, ConcatTo
  <2> HIDE DEF a
  <2>5. OrdersOK(orders')
    BY <1>6, <2>4 DEF IInv, OrdersOK, a
  <2> QED
    BY <1>1, <1>4, <1>6, <2>1, <2>5 DEF IInv, Books
<1> QED
  BY <1>5, <1>6 DEF HandlePacketIn

LEMMA ConnectionUpInvariant ==
  ASSUME IInv, NEW s \in Switches, ConnectionUp(s)
  PROVE  IInv'
<1>1. InTransit(s) \subseteq Packets
  <2>1. packetIns[s] \in Seq(Asks) /\ orders[s] \in Seq(Ordered(s))
    BY DEF IInv, AsksOK, OrdersOK
  <2>2. ASSUME NEW n \in DOMAIN packetIns[s]
        PROVE  packetIns[s][n].packet \in Packets
    <3>1. packetIns[s][n] \in Asks
      BY <2>1, Elements
    <3> QED
      BY <3>1 DEF Asks
  <2>3. \A n \in DOMAIN orders[s] : orders[s][n] \in Ordered(s)
    BY <2>1, Elements
  <2>4. \A n \in DOMAIN orders[s] : orders[s][n].op = "packet_out" =>
          orders[s][n].packet \in Packets
    BY <2>3 DEF Ordered, PacketOuts, FlowMods
  <2> QED
    BY <2>2, <2>4 DEF InTransit
<1>2. WireOK(wire') /\ AsksOK(packetIns') /\ OrdersOK(orders')
  BY DEF ConnectionUp, IInv, AsksOK, OrdersOK
<1>3. MacsOK(macToPort')
  BY DEF ConnectionUp, IInv, MacsOK, NoMacs, Addresses
<1>4. FlowsOK(flows')
  BY DEF ConnectionUp, IInv, FlowsOK, NoFlows, Addresses
<1>5. Books'
  BY <1>1, PacketsAreSane DEF ConnectionUp, IInv, Books
<1> QED
  BY <1>2, <1>3, <1>4, <1>5 DEF IInv

LEMMA LinkInvariant ==
  ASSUME IInv, NEW i \in 0..Hops, LinkDown(i) \/ LinkUp(i)
  PROVE  IInv'
<1>1. CASE LinkDown(i)
  <2> DEFINE cut == {<<i, i + 1>>, <<i + 1, i>>}
  <2>1. cut \subseteq Wires
    BY PacketsAreSane DEF Wires, Nodes, Hosts, Switches, Adjacent
  <2>2. \A w \in cut : ToSet(wire[w]) \subseteq Packets
    BY <2>1, Elements DEF IInv, WireOK, ToSet
  <2>3. wire' = [w \in Wires |-> IF w \in cut THEN << >> ELSE wire[w]]
    BY <1>1 DEF LinkDown
  <2>4. WireOK(wire')
    BY <2>3 DEF IInv, WireOK
  <2>5. lost' = lost \cup UNION {ToSet(wire[w]) : w \in cut}
    BY <1>1 DEF LinkDown
  <2>6. lost' \subseteq Packets
    BY <2>2, <2>5 DEF IInv, Books
  <2>7. breaks' \in 0..MaxBreaks
    BY <1>1, PacketsAreSane DEF LinkDown, IInv, Books
  <2>8. down' = down \cup {{i, i + 1}}
    BY <1>1 DEF LinkDown
  <2>9. down' \subseteq {{n, n + 1} : n \in 0..Hops}
    BY <2>8 DEF IInv, Books
  <2>10. Books'
    BY <1>1, <2>6, <2>7, <2>9 DEF LinkDown, IInv, Books
  <2> QED
    BY <1>1, <2>4, <2>10 DEF LinkDown, IInv
<1>2. CASE LinkUp(i)
  BY <1>2 DEF LinkUp, IInv, Books
<1> QED
  BY <1>1, <1>2

------------------------------------------------------------------------------
LEMMA NextInvariant == IInv /\ [Next]_vars => IInv'
<1> SUFFICES ASSUME IInv, [Next]_vars PROVE IInv'
  OBVIOUS
<1>1. ASSUME NEW p \in Packets, Send(p) PROVE IInv'
  BY <1>1, SendInvariant
<1>2. ASSUME NEW w \in Wires, w[2] \in Switches, Arrive(w[2], w[1]) PROVE IInv'
  <2>1. <<w[1], w[2]>> \in Wires
    BY <1>2 DEF Wires
  <2> QED
    BY <1>2, <2>1, ArriveInvariant
<1>3. ASSUME NEW s \in Switches, Obey(s) PROVE IInv'
  BY <1>3, ObeyInvariant
<1>4. ASSUME NEW s \in Switches, HandlePacketIn(s) PROVE IInv'
  BY <1>4, HandlePacketInInvariant
<1>5. ASSUME NEW s \in Switches, ConnectionUp(s) PROVE IInv'
  BY <1>5, ConnectionUpInvariant
<1>6. ASSUME NEW h \in Hosts, Receive(h) PROVE IInv'
  BY <1>6, ReceiveInvariant
<1>7. ASSUME NEW i \in 0..Hops, LinkDown(i) \/ LinkUp(i) PROVE IInv'
  BY <1>7, LinkInvariant
<1>8. CASE UNCHANGED vars
  BY <1>8 DEF vars, IInv, Books
<1> QED
  BY <1>1, <1>2, <1>3, <1>4, <1>5, <1>6, <1>7, <1>8 DEF Next

\* The invariant holds throughout.
THEOREM Invariance == Spec => []IInv
<1>1. Init => IInv
  BY InitInvariant
<1>2. IInv /\ [Next]_vars => IInv'
  BY NextInvariant
<1> QED
  BY <1>1, <1>2, PTL DEF Spec

\* Every packet, packet-in, order, table and flow is of its type, however long
\* the chain and whatever breaks.
THEOREM TypeCorrect == Spec => []TypeOK
<1>1. IInv => TypeOK
  BY Strengthens
<1> QED
  BY <1>1, Invariance, PTL

\* No port that a switch of act_like_switch has learned, and no flow that it has
\* put into a switch, leads away from its host, on a chain of any length
\* (learning_switch.py:83-104).
THEOREM LearnedPortsPointHome == Spec => []PortsPointHome
<1>1. IInv => PortsPointHome
  BY Strengthens
<1> QED
  BY <1>1, Invariance, PTL
------------------------------------------------------------------------------
(* One copy of every packet. *)

\* The queue q has nothing of T, and one element of it.
None(q, T) == \A i \in DOMAIN q : q[i] \notin T
Once(q, T) == \E i \in DOMAIN q : q[i] \in T /\ \A j \in DOMAIN q : q[j] \in T => j = i

\* Where a packet can be, the queue that is there, and what in it is the packet.
Lost   == <<"lost", 0>>
Places == ({"wire"} \X Wires) \cup ({"asked", "ordered"} \X Switches)
            \cup ({"host"} \X Hosts) \cup {Lost}

Queue(x, p) ==
  IF x[1] = "wire" THEN wire[x[2]]
  ELSE IF x[1] = "asked" THEN packetIns[x[2]]
  ELSE IF x[1] = "ordered" THEN orders[x[2]]
  ELSE IF x[1] = "host" THEN (IF <<x[2], p>> \in received THEN <<p>> ELSE << >>)
  ELSE IF p \in lost THEN <<p>> ELSE << >>

AskFor(p) == [packet : {p}, in : Nodes]
SendOn(p) == [op : {"packet_out"}, packet : {p}, port : Nodes]
Carriers(x, p) ==
  IF x[1] = "asked" THEN AskFor(p) ELSE IF x[1] = "ordered" THEN SendOn(p) ELSE {p}

FreeOf(p)  == {x \in Places : None(Queue(x, p), Carriers(x, p))}
Holding(p) == {x \in Places : Once(Queue(x, p), Carriers(x, p))}
InOnePlace(p) == \E x \in Holding(p) : Places \ {x} \subseteq FreeOf(p)

\* What was sent is in one place, what was not sent is nowhere.
CountedFor(p) == IF p \in sent THEN InOnePlace(p) ELSE Places \subseteq FreeOf(p)
Counted == \A p \in Packets : CountedFor(p)

\* Queues.
LEMMA NotBoth ==
  ASSUME NEW q, NEW T
  PROVE  ~(None(q, T) /\ Once(q, T))
  BY DEF None, Once

LEMMA Short ==
  ASSUME NEW p, NEW T
  PROVE  None(<< >>, T) /\ Once(<<p>>, {p})
  BY DEF None, Once

LEMMA TailOf ==
  ASSUME NEW S, NEW q \in Seq(S), q # << >>, NEW T
  PROVE  /\ None(q, T) => None(Tail(q), T) /\ Head(q) \notin T
         /\ Once(q, T) => IF Head(q) \in T THEN None(Tail(q), T) ELSE Once(Tail(q), T)
<1> DEFINE r == Tail(q)
<1>1. /\ Len(q) \in Nat \ {0} /\ DOMAIN q = 1..Len(q) /\ DOMAIN r = 1..(Len(q) - 1)
      /\ \A i \in 1..(Len(q) - 1) : r[i] = q[i + 1]
      /\ Head(q) = q[1]
  OBVIOUS
<1> HIDE DEF r
<1>2. ASSUME None(q, T) PROVE None(r, T) /\ Head(q) \notin T
  <2>1. \A i \in 1..(Len(q) - 1) : i + 1 \in 1..Len(q)
    BY <1>1
  <2>2. 1 \in 1..Len(q)
    BY <1>1
  <2> QED
    BY <1>1, <1>2, <2>1, <2>2 DEF None
<1>3. ASSUME Once(q, T), Head(q) \in T PROVE None(r, T)
  <2>1. PICK i \in 1..Len(q) : \A j \in 1..Len(q) : q[j] \in T => j = i
    BY <1>1, <1>3 DEF Once
  <2>2. i = 1
    BY <1>1, <1>3, <2>1
  <2>3. \A k \in 1..(Len(q) - 1) : k + 1 \in 1..Len(q) /\ k + 1 # 1
    BY <1>1
  <2> QED
    BY <1>1, <2>1, <2>2, <2>3 DEF None
<1>4. ASSUME Once(q, T), Head(q) \notin T PROVE Once(r, T)
  <2>1. PICK i \in 1..Len(q) : q[i] \in T /\ \A j \in 1..Len(q) : q[j] \in T => j = i
    BY <1>1, <1>4 DEF Once
  <2>2. i # 1 /\ i - 1 \in 1..(Len(q) - 1) /\ (i - 1) + 1 = i
    BY <1>1, <1>4, <2>1
  <2>3. \A k \in 1..(Len(q) - 1) : k + 1 \in 1..Len(q) /\ (k + 1 = i => k = i - 1)
    BY <1>1
  <2>4. r[i - 1] \in T /\ \A k \in 1..(Len(q) - 1) : r[k] \in T => k = i - 1
    BY <1>1, <2>1, <2>2, <2>3
  <2> QED
    BY <1>1, <2>2, <2>4 DEF Once
<1> QED
  BY <1>2, <1>3, <1>4 DEF r

LEMMA AppendOf ==
  ASSUME NEW S, NEW q \in Seq(S), NEW m \in S, NEW T
  PROVE  /\ Append(q, m) \in Seq(S)
         /\ m \in T /\ None(q, T) => Once(Append(q, m), T)
         /\ m \notin T /\ None(q, T) => None(Append(q, m), T)
         /\ m \notin T /\ Once(q, T) => Once(Append(q, m), T)
<1> DEFINE r == Append(q, m)
<1>1. /\ Len(q) \in Nat /\ DOMAIN q = 1..Len(q) /\ DOMAIN r = 1..(Len(q) + 1)
      /\ \A i \in 1..Len(q) : r[i] = q[i]
      /\ r[Len(q) + 1] = m /\ r \in Seq(S)
  OBVIOUS
<1> HIDE DEF r
<1>2. /\ \A i \in 1..(Len(q) + 1) : i \in 1..Len(q) \/ i = Len(q) + 1
      /\ \A i \in 1..Len(q) : i \in 1..(Len(q) + 1) /\ i # Len(q) + 1
      /\ Len(q) + 1 \in 1..(Len(q) + 1)
  BY <1>1
<1>3. ASSUME m \in T, None(q, T) PROVE Once(r, T)
  BY <1>1, <1>2, <1>3 DEF None, Once
<1>4. ASSUME m \notin T, None(q, T) PROVE None(r, T)
  BY <1>1, <1>2, <1>4 DEF None
<1>5. ASSUME m \notin T, Once(q, T) PROVE Once(r, T)
  <2>1. PICK i \in 1..Len(q) : q[i] \in T /\ \A j \in 1..Len(q) : q[j] \in T => j = i
    BY <1>1, <1>5 DEF Once
  <2>2. /\ i \in 1..(Len(q) + 1) /\ r[i] \in T
        /\ \A j \in 1..(Len(q) + 1) : r[j] \in T => j = i
    BY <1>1, <1>2, <1>5, <2>1
  <2> QED
    BY <1>1, <2>2 DEF Once
<1> QED
  BY <1>1, <1>3, <1>4, <1>5 DEF r

\* A step does nothing to p in place x.
Kept(x, p) ==
  /\ x \in FreeOf(p) => x \in FreeOf(p)'
  /\ x \in Holding(p) => x \in Holding(p)'

\* What a packet does: it stays, or it leaves one of the places C for y.
LEMMA Moves ==
  ASSUME NEW p, CountedFor(p), p \in sent' <=> p \in sent,
         NEW C \in SUBSET Places, NEW y \in Places \ C,
         \A x \in C : x \in FreeOf(p) \cup Holding(p) => x \in FreeOf(p)',
         \A x \in Places \ (C \cup {y}) : Kept(x, p),
         C \subseteq FreeOf(p) => Kept(y, p),
         ~(C \subseteq FreeOf(p)) /\ y \in FreeOf(p) => y \in Holding(p)'
  PROVE  CountedFor(p)'
<1>1. FreeOf(p) \cap Holding(p) = {} /\ Holding(p) \subseteq Places
  BY NotBoth DEF FreeOf, Holding
<1>2. Places \subseteq FreeOf(p) => Places \subseteq FreeOf(p)'
  BY DEF Kept
<1>3. ASSUME InOnePlace(p) PROVE InOnePlace(p)'
  <2>1. PICK x \in Holding(p) : Places \ {x} \subseteq FreeOf(p)
    BY <1>3 DEF InOnePlace
  <2>2. CASE x \in C
    <3>1. y \in Holding(p)'
      BY <1>1, <2>1, <2>2
    <3>2. Places \ {y} \subseteq FreeOf(p)'
      BY <1>1, <2>1, <2>2 DEF Kept
    <3> QED
      BY <3>1, <3>2 DEF InOnePlace
  <2>3. CASE x \notin C
    <3>1. C \subseteq FreeOf(p)
      BY <2>1, <2>3
    <3>2. x \in Holding(p)' /\ Places \ {x} \subseteq FreeOf(p)'
      BY <1>1, <2>1, <2>3, <3>1 DEF Kept
    <3> QED
      BY <3>2 DEF InOnePlace
  <2> QED
    BY <2>2, <2>3
<1> QED
  BY <1>2, <1>3 DEF CountedFor

LEMMA Stays ==
  ASSUME NEW p, CountedFor(p), p \in sent' <=> p \in sent,
         \A x \in Places : Kept(x, p)
  PROVE  CountedFor(p)'
<1>1. Lost \in Places
  BY DEF Places
<1> QED
  BY <1>1, Moves

\* The places by their kinds.
LEMMA PlaceKinds ==
  /\ \A x \in Places : \/ \E w \in Wires : x = <<"wire", w>>
                       \/ \E s \in Switches : x = <<"asked", s>> \/ x = <<"ordered", s>>
                       \/ \E h \in Hosts : x = <<"host", h>>
                       \/ x = Lost
  /\ \A w \in Wires : <<"wire", w>> \in Places
  /\ \A s \in Switches : <<"asked", s>> \in Places /\ <<"ordered", s>> \in Places
  /\ \A h \in Hosts : <<"host", h>> \in Places
  /\ Lost \in Places
  BY DEF Places

LEMMA QueueKinds ==
  ASSUME NEW p
  PROVE  /\ \A w : Queue(<<"wire", w>>, p) = wire[w] /\ Queue(<<"wire", w>>, p)' = wire'[w]
                   /\ Carriers(<<"wire", w>>, p) = {p}
         /\ \A s : /\ Queue(<<"asked", s>>, p) = packetIns[s]
                   /\ Queue(<<"asked", s>>, p)' = packetIns'[s]
                   /\ Carriers(<<"asked", s>>, p) = AskFor(p)
                   /\ Queue(<<"ordered", s>>, p) = orders[s]
                   /\ Queue(<<"ordered", s>>, p)' = orders'[s]
                   /\ Carriers(<<"ordered", s>>, p) = SendOn(p)
         /\ \A h : /\ Queue(<<"host", h>>, p) = IF <<h, p>> \in received THEN <<p>> ELSE << >>
                   /\ Queue(<<"host", h>>, p)' = IF <<h, p>> \in received' THEN <<p>> ELSE << >>
                   /\ Carriers(<<"host", h>>, p) = {p}
         /\ Queue(Lost, p) = IF p \in lost THEN <<p>> ELSE << >>
         /\ Queue(Lost, p)' = IF p \in lost' THEN <<p>> ELSE << >>
         /\ Carriers(Lost, p) = {p}
  BY DEF Queue, Carriers, Lost

LEMMA SameQueue ==
  ASSUME NEW p, NEW x, Queue(x, p)' = Queue(x, p)
  PROVE  Kept(x, p)
<1>1. x \in FreeOf(p) => x \in FreeOf(p)'
  BY DEF FreeOf
<1>2. x \in Holding(p) => x \in Holding(p)'
  BY DEF Holding
<1> QED
  BY <1>1, <1>2 DEF Kept

LEMMA Untouched ==
  ASSUME NEW p
  PROVE  /\ \A w : wire'[w] = wire[w] => Kept(<<"wire", w>>, p)
         /\ \A s : packetIns'[s] = packetIns[s] => Kept(<<"asked", s>>, p)
         /\ \A s : orders'[s] = orders[s] => Kept(<<"ordered", s>>, p)
         /\ \A h : (<<h, p>> \in received' <=> <<h, p>> \in received) => Kept(<<"host", h>>, p)
         /\ (p \in lost' <=> p \in lost) => Kept(Lost, p)
<1>1. ASSUME NEW w, wire'[w] = wire[w] PROVE Kept(<<"wire", w>>, p)
  <2>1. Queue(<<"wire", w>>, p)' = Queue(<<"wire", w>>, p)
    <3>1. Queue(<<"wire", w>>, p) = wire[w]
      BY QueueKinds
    <3>2. Queue(<<"wire", w>>, p)' = wire'[w]
      BY QueueKinds
    <3> QED
      BY <1>1, <3>1, <3>2
  <2> QED
    BY <2>1, SameQueue
<1>2. ASSUME NEW s, packetIns'[s] = packetIns[s] PROVE Kept(<<"asked", s>>, p)
  <2>1. Queue(<<"asked", s>>, p)' = Queue(<<"asked", s>>, p)
    <3>1. Queue(<<"asked", s>>, p) = packetIns[s]
      BY QueueKinds
    <3>2. Queue(<<"asked", s>>, p)' = packetIns'[s]
      BY QueueKinds
    <3> QED
      BY <1>2, <3>1, <3>2
  <2> QED
    BY <2>1, SameQueue
<1>3. ASSUME NEW s, orders'[s] = orders[s] PROVE Kept(<<"ordered", s>>, p)
  <2>1. Queue(<<"ordered", s>>, p)' = Queue(<<"ordered", s>>, p)
    <3>1. Queue(<<"ordered", s>>, p) = orders[s]
      BY QueueKinds
    <3>2. Queue(<<"ordered", s>>, p)' = orders'[s]
      BY QueueKinds
    <3> QED
      BY <1>3, <3>1, <3>2
  <2> QED
    BY <2>1, SameQueue
<1>4. ASSUME NEW h, <<h, p>> \in received' <=> <<h, p>> \in received
      PROVE  Kept(<<"host", h>>, p)
  <2>1. Queue(<<"host", h>>, p)' = Queue(<<"host", h>>, p)
    BY <1>4, QueueKinds
  <2> QED
    BY <2>1, SameQueue
<1>5. ASSUME p \in lost' <=> p \in lost PROVE Kept(Lost, p)
  <2>1. Queue(Lost, p)' = Queue(Lost, p)
    BY <1>5, QueueKinds
  <2> QED
    BY <2>1, SameQueue
<1> QED
  BY <1>1, <1>2, <1>3, <1>4, <1>5

LEMMA Grows ==
  ASSUME NEW p, NEW x \in Places, NEW S, Queue(x, p) \in Seq(S), NEW m \in S,
         Queue(x, p)' = Append(Queue(x, p), m)
  PROVE  IF m \in Carriers(x, p) THEN x \in FreeOf(p) => x \in Holding(p)' ELSE Kept(x, p)
<1> DEFINE q == Queue(x, p)
           T == Carriers(x, p)
<1>1. /\ m \in T /\ None(q, T) => Once(Append(q, m), T)
      /\ m \notin T /\ None(q, T) => None(Append(q, m), T)
      /\ m \notin T /\ Once(q, T) => Once(Append(q, m), T)
  BY AppendOf
<1>2. /\ x \in FreeOf(p) <=> None(q, T)
      /\ x \in Holding(p) <=> Once(q, T)
  BY DEF FreeOf, Holding
<1>3. x \in FreeOf(p)' <=> None(Append(q, m), T)
  BY DEF FreeOf
<1>4. x \in Holding(p)' <=> Once(Append(q, m), T)
  BY DEF Holding
<1> QED
  BY <1>1, <1>2, <1>3, <1>4 DEF Kept

LEMMA Shrinks ==
  ASSUME NEW p, NEW x \in Places, NEW S, Queue(x, p) \in Seq(S), Queue(x, p) # << >>,
         Queue(x, p)' = Tail(Queue(x, p))
  PROVE  IF Head(Queue(x, p)) \in Carriers(x, p)
           THEN x \notin FreeOf(p) /\ (x \in FreeOf(p) \cup Holding(p) => x \in FreeOf(p)')
           ELSE Kept(x, p)
<1> DEFINE q == Queue(x, p)
           T == Carriers(x, p)
<1>1. /\ None(q, T) => None(Tail(q), T) /\ Head(q) \notin T
      /\ Once(q, T) => IF Head(q) \in T THEN None(Tail(q), T) ELSE Once(Tail(q), T)
  BY TailOf
<1>2. /\ x \in FreeOf(p) <=> None(q, T)
      /\ x \in Holding(p) <=> Once(q, T)
  BY DEF FreeOf, Holding
<1>3. x \in FreeOf(p)' <=> None(Tail(q), T)
  BY DEF FreeOf
<1>4. x \in Holding(p)' <=> Once(Tail(q), T)
  BY DEF Holding
<1> QED
  BY <1>1, <1>2, <1>3, <1>4 DEF Kept

LEMMA Cleared ==
  ASSUME NEW p, NEW x \in Places, Queue(x, p)' = << >>
  PROVE  x \in FreeOf(p)'
  BY Short DEF FreeOf

\* A host, or the floor, that has the packet now.
LEMMA Ends ==
  ASSUME NEW p
  PROVE  /\ p \in lost' => Lost \in Holding(p)'
         /\ \A h \in Hosts : <<h, p>> \in received' => <<"host", h>> \in Holding(p)'
<1>1. p \in lost' => Lost \in Holding(p)'
  <2>1. p \in lost' => Queue(Lost, p)' = <<p>> /\ Carriers(Lost, p) = {p}
    BY QueueKinds
  <2> QED
    BY <2>1, Short, PlaceKinds DEF Holding
<1>2. ASSUME NEW h \in Hosts, <<h, p>> \in received' PROVE <<"host", h>> \in Holding(p)'
  <2>1. Queue(<<"host", h>>, p)' = <<p>> /\ Carriers(<<"host", h>>, p) = {p}
    BY <1>2, QueueKinds
  <2> QED
    BY <2>1, Short, PlaceKinds DEF Holding
<1> QED
  BY <1>1, <1>2

\* A packet that a node sends on is on the wire then, or lost where that is down.
Dest(i, j) == IF {i, j} \in down THEN Lost ELSE <<"wire", <<i, j>>>>

LEMMA PutMoves ==
  ASSUME NEW p \in Packets, NEW m \in Packets, NEW i, NEW j, <<i, j>> \in Wires,
         WireOK(wire), NEW wr \in [Wires -> Seq(Packets)],
         wr[<<i, j>>] = wire[<<i, j>>],
         wire' = Put(wr, i, j, m), lost' = lost \cup Drop(i, j, m)
  PROVE  /\ Dest(i, j) \in Places
         /\ m = p => (Dest(i, j) \in FreeOf(p) => Dest(i, j) \in Holding(p)')
         /\ m # p => Kept(Dest(i, j), p)
         /\ \A w \in Wires : wr[w] = wire[w] /\ <<"wire", w>> # Dest(i, j) =>
              Kept(<<"wire", w>>, p)
         /\ Lost # Dest(i, j) => Kept(Lost, p)
<1> DEFINE w0 == <<i, j>>
           x0 == <<"wire", w0>>
<1>1. x0 \in Places /\ Lost \in Places /\ x0 # Lost
  BY PlaceKinds DEF Lost
<1>2. /\ Queue(x0, p) = wire[w0] /\ Queue(x0, p)' = wire'[w0] /\ Carriers(x0, p) = {p}
  BY QueueKinds
<1>3. CASE {i, j} \in down
  <2>1. wire' = wr /\ lost' = lost \cup {m} /\ Dest(i, j) = Lost
    BY <1>3 DEF Put, Drop, Dest
  <2> QED
    BY <1>1, <2>1, Ends, Untouched DEF Kept
<1>4. CASE {i, j} \notin down
  <2>1. /\ wire' = [wr EXCEPT ![w0] = Append(@, m)] /\ lost' = lost /\ Dest(i, j) = x0
    BY <1>4 DEF Put, Drop, Dest
  <2>2. /\ wire'[w0] = Append(wire[w0], m)
        /\ \A w \in Wires : w # w0 => wire'[w] = wr[w]
    BY <2>1
  <2>3. wire[w0] \in Seq(Packets)
    BY DEF WireOK
  <2>4. IF m = p THEN x0 \in FreeOf(p) => x0 \in Holding(p)' ELSE Kept(x0, p)
    BY <1>1, <1>2, <2>2, <2>3, Grows
  <2>5. \A w \in Wires : <<"wire", w>> # x0 => w # w0
    OBVIOUS
  <2> QED
    BY <1>1, <2>1, <2>2, <2>4, <2>5, Untouched
<1> QED
  BY <1>3, <1>4

\* All places but those of E, by their kinds.
LEMMA AllKept ==
  ASSUME NEW p, NEW E,
         \A w \in Wires : <<"wire", w>> \notin E => Kept(<<"wire", w>>, p),
         \A s \in Switches : <<"asked", s>> \notin E => Kept(<<"asked", s>>, p),
         \A s \in Switches : <<"ordered", s>> \notin E => Kept(<<"ordered", s>>, p),
         \A h \in Hosts : <<"host", h>> \notin E => Kept(<<"host", h>>, p),
         Lost \notin E => Kept(Lost, p)
  PROVE  \A x \in Places \ E : Kept(x, p)
<1> SUFFICES ASSUME NEW x \in Places, x \notin E PROVE Kept(x, p)
  OBVIOUS
<1>1. \/ \E w \in Wires : x = <<"wire", w>>
      \/ \E s \in Switches : x = <<"asked", s>> \/ x = <<"ordered", s>>
      \/ \E h \in Hosts : x = <<"host", h>>
      \/ x = Lost
  BY PlaceKinds
<1>2. CASE \E w \in Wires : x = <<"wire", w>>
  BY <1>2
<1>3. CASE \E s \in Switches : x = <<"asked", s>> \/ x = <<"ordered", s>>
  BY <1>3
<1>4. CASE \E h \in Hosts : x = <<"host", h>>
  BY <1>4
<1>5. CASE x = Lost
  BY <1>5
<1> QED
  BY <1>1, <1>2, <1>3, <1>4, <1>5

\* A packet is taken from the place x and given to y: it is p, or p keeps still.
LEMMA Passes ==
  ASSUME NEW p, CountedFor(p), p \in sent' <=> p \in sent,
         NEW x \in Places, NEW y \in Places, x # y,
         \A z \in Places \ {x, y} : Kept(z, p),
         NEW m,
         m = p => /\ x \notin FreeOf(p)
                  /\ x \in FreeOf(p) \cup Holding(p) => x \in FreeOf(p)'
                  /\ y \in FreeOf(p) => y \in Holding(p)',
         m # p => Kept(x, p) /\ Kept(y, p)
  PROVE  CountedFor(p)'
<1>1. CASE m = p
  <2> DEFINE C == {x}
  <2>1. C \in SUBSET Places /\ y \in Places \ C
    OBVIOUS
  <2>2. \A z \in C : z \in FreeOf(p) \cup Holding(p) => z \in FreeOf(p)'
    BY <1>1
  <2>3. \A z \in Places \ (C \cup {y}) : Kept(z, p)
    OBVIOUS
  <2>4. C \subseteq FreeOf(p) => Kept(y, p)
    BY <1>1
  <2>5. ~(C \subseteq FreeOf(p)) /\ y \in FreeOf(p) => y \in Holding(p)'
    BY <1>1
  <2> HIDE DEF C
  <2> QED
    BY <2>1, <2>2, <2>3, <2>4, <2>5, Moves
<1>2. CASE m # p
  <2>1. \A z \in Places : Kept(z, p)
    BY <1>2
  <2> QED
    BY <2>1, Stays
<1> QED
  BY <1>1, <1>2

\* Two things are put into a queue, the second of which is no packet.
LEMMA GrowsByTwo ==
  ASSUME NEW p, NEW x \in Places, NEW S, Queue(x, p) \in Seq(S), NEW m \in S, NEW n \in S,
         n \notin Carriers(x, p),
         Queue(x, p)' = Append(Append(Queue(x, p), m), n)
  PROVE  IF m \in Carriers(x, p) THEN x \in FreeOf(p) => x \in Holding(p)' ELSE Kept(x, p)
<1> DEFINE q == Queue(x, p)
           r == Append(q, m)
           T == Carriers(x, p)
<1>1. /\ r \in Seq(S)
      /\ m \in T /\ None(q, T) => Once(r, T)
      /\ m \notin T /\ None(q, T) => None(r, T)
      /\ m \notin T /\ Once(q, T) => Once(r, T)
  BY AppendOf
<1> HIDE DEF r
<1>2. None(r, T) => None(Append(r, n), T)
  BY <1>1, AppendOf
<1>3. Once(r, T) => Once(Append(r, n), T)
  BY <1>1, AppendOf
<1>4. /\ x \in FreeOf(p) <=> None(q, T)
      /\ x \in Holding(p) <=> Once(q, T)
  BY DEF FreeOf, Holding
<1>5. x \in FreeOf(p)' <=> None(Append(r, n), T)
  BY DEF FreeOf, r
<1>6. x \in Holding(p)' <=> Once(Append(r, n), T)
  BY DEF Holding, r
<1> QED
  BY <1>1, <1>2, <1>3, <1>4, <1>5, <1>6 DEF Kept

\* What is taken from a wire, from the packet-ins and from the orders.
LEMMA WireShrinks ==
  ASSUME IInv, NEW p, NEW w \in Wires, wire[w] # << >>, wire'[w] = Tail(wire[w])
  PROVE  LET x == <<"wire", w>>
         IN  IF Head(wire[w]) = p
               THEN x \notin FreeOf(p) /\ (x \in FreeOf(p) \cup Holding(p) => x \in FreeOf(p)')
               ELSE Kept(x, p)
<1> DEFINE x == <<"wire", w>>
<1>1. x \in Places
  BY PlaceKinds
<1>2. Queue(x, p) = wire[w] /\ Carriers(x, p) = {p}
  BY QueueKinds
<1>3. Queue(x, p)' = wire'[w]
  BY QueueKinds
<1>4. wire[w] \in Seq(Packets)
  BY DEF IInv, WireOK
<1> HIDE DEF x
<1>5. IF Head(Queue(x, p)) \in Carriers(x, p)
        THEN x \notin FreeOf(p) /\ (x \in FreeOf(p) \cup Holding(p) => x \in FreeOf(p)')
        ELSE Kept(x, p)
  BY <1>1, <1>2, <1>3, <1>4, Shrinks
<1>6. Head(Queue(x, p)) \in Carriers(x, p) <=> Head(wire[w]) = p
  BY <1>2
<1> QED
  BY <1>5, <1>6 DEF x

LEMMA AskedShrinks ==
  ASSUME IInv, NEW p \in Packets, NEW s \in Switches, packetIns[s] # << >>,
         packetIns'[s] = Tail(packetIns[s])
  PROVE  LET x == <<"asked", s>>
         IN  IF Head(packetIns[s]).packet = p
               THEN x \notin FreeOf(p) /\ (x \in FreeOf(p) \cup Holding(p) => x \in FreeOf(p)')
               ELSE Kept(x, p)
<1> DEFINE x == <<"asked", s>>
<1>1. x \in Places
  BY PlaceKinds
<1>2. Queue(x, p) = packetIns[s] /\ Carriers(x, p) = AskFor(p)
  BY QueueKinds
<1>3. Queue(x, p)' = packetIns'[s]
  BY QueueKinds
<1>4. packetIns[s] \in Seq(Asks)
  BY DEF IInv, AsksOK
<1>5. Head(packetIns[s]) \in Asks
  BY <1>4, HeadAndTail
<1> HIDE DEF x
<1>6. IF Head(Queue(x, p)) \in Carriers(x, p)
        THEN x \notin FreeOf(p) /\ (x \in FreeOf(p) \cup Holding(p) => x \in FreeOf(p)')
        ELSE Kept(x, p)
  BY <1>1, <1>2, <1>3, <1>4, Shrinks
<1>7. Head(packetIns[s]) \in AskFor(p) <=> Head(packetIns[s]).packet = p
  BY <1>5 DEF Asks, AskFor
<1> QED
  BY <1>2, <1>6, <1>7 DEF x

LEMMA OrdersShrink ==
  ASSUME IInv, NEW p \in Packets, NEW s \in Switches, orders[s] # << >>,
         orders'[s] = Tail(orders[s])
  PROVE  LET x == <<"ordered", s>>
         IN  IF Head(orders[s]) \in SendOn(p)
               THEN x \notin FreeOf(p) /\ (x \in FreeOf(p) \cup Holding(p) => x \in FreeOf(p)')
               ELSE Kept(x, p)
<1> DEFINE x == <<"ordered", s>>
<1>1. x \in Places
  BY PlaceKinds
<1>2. Queue(x, p) = orders[s] /\ Carriers(x, p) = SendOn(p)
  BY QueueKinds
<1>3. Queue(x, p)' = orders'[s]
  BY QueueKinds
<1>4. orders[s] \in Seq(Orders)
  BY DEF IInv, OrdersOK
<1> HIDE DEF x
<1>5. IF Head(Queue(x, p)) \in Carriers(x, p)
        THEN x \notin FreeOf(p) /\ (x \in FreeOf(p) \cup Holding(p) => x \in FreeOf(p)')
        ELSE Kept(x, p)
  BY <1>1, <1>2, <1>3, <1>4, Shrinks
<1> QED
  BY <1>2, <1>5 DEF x

\* The places are different ones.
LEMMA Distinct ==
  /\ \A w, s : <<"wire", w>> # <<"asked", s>> /\ <<"wire", w>> # <<"ordered", s>>
  /\ \A w, h : <<"wire", w>> # <<"host", h>>
  /\ \A r, s : <<"asked", r>> # <<"ordered", s>>
  /\ \A s, h : <<"asked", s>> # <<"host", h>> /\ <<"ordered", s>> # <<"host", h>>
  /\ \A a : /\ <<"wire", a>> # Lost /\ <<"asked", a>> # Lost
            /\ <<"ordered", a>> # Lost /\ <<"host", a>> # Lost
  /\ \A a, b : /\ <<"wire", a>> = <<"wire", b>> => a = b
               /\ <<"asked", a>> = <<"asked", b>> => a = b
               /\ <<"ordered", a>> = <<"ordered", b>> => a = b
               /\ <<"host", a>> = <<"host", b>> => a = b
  BY DEF Lost

------------------------------------------------------------------------------
(* The actions and the packets. *)

\* What leaves a host is on its first wire, or lost.
LEMMA SendCounts ==
  ASSUME IInv, NEW q \in Packets, Send(q), NEW p \in Packets, CountedFor(p)
  PROVE  CountedFor(p)'
<1> DEFINE h == Src(q)
           s == IF h = 0 THEN 1 ELSE Hops
           y == Dest(h, s)
<1>1. <<h, s>> \in Wires
  BY Senders, FirstHop
<1>2. /\ q \notin sent /\ sent' = sent \cup {q}
      /\ wire' = Put(wire, h, s, q) /\ lost' = lost \cup Drop(h, s, q)
      /\ packetIns' = packetIns /\ orders' = orders /\ received' = received
  BY DEF Send
<1> HIDE DEF h, s
<1>3. WireOK(wire) /\ wire \in [Wires -> Seq(Packets)]
  BY DEF IInv, WireOK
<1>4. /\ y \in Places
      /\ q = p => (y \in FreeOf(p) => y \in Holding(p)')
      /\ q # p => Kept(y, p)
      /\ \A w \in Wires : <<"wire", w>> # y => Kept(<<"wire", w>>, p)
      /\ Lost # y => Kept(Lost, p)
  BY <1>1, <1>2, <1>3, PutMoves
<1> HIDE DEF y
<1>5. \A x \in Places \ {y} : Kept(x, p)
  BY <1>2, <1>4, Untouched, AllKept
<1>6. CASE q = p
  <2>1. Places \subseteq FreeOf(p)
    BY <1>2, <1>6 DEF CountedFor
  <2>2. y \in Holding(p)' /\ Places \ {y} \subseteq FreeOf(p)'
    BY <1>4, <1>5, <1>6, <2>1 DEF Kept
  <2>3. InOnePlace(p)'
    BY <2>2 DEF InOnePlace
  <2> QED
    BY <1>2, <1>6, <2>3 DEF CountedFor
<1>7. CASE q # p
  <2>1. \A x \in Places : Kept(x, p)
    BY <1>4, <1>5, <1>7
  <2> QED
    BY <1>2, <1>7, <2>1, Stays
<1> QED
  BY <1>6, <1>7

\* A switch sends on what has arrived, asks for it, or drops it.
LEMMA ArriveCounts ==
  ASSUME IInv, NEW s \in Switches, NEW in, <<in, s>> \in Wires, Arrive(s, in),
         NEW p \in Packets, CountedFor(p)
  PROVE  CountedFor(p)'
<1> DEFINE m == Head(wire[<<in, s>>])
           rest == [wire EXCEPT ![<<in, s>>] = Tail(@)]
           out == flows[s][<<Src(m), Dst(m)>>]
           x == <<"wire", <<in, s>>>>
<1>1. /\ wire[<<in, s>>] # << >>
      /\ sent' = sent /\ orders' = orders /\ received' = received
  BY DEF Arrive
<1>2. wire \in [Wires -> Seq(Packets)] /\ WireOK(wire) /\ WireOK(rest)
  BY <1>1, TakeOK DEF IInv, WireOK
<1>3. /\ rest \in [Wires -> Seq(Packets)] /\ rest[<<in, s>>] = Tail(wire[<<in, s>>])
      /\ \A w \in Wires : w # <<in, s>> => rest[w] = wire[w]
  BY <1>2 DEF WireOK
<1>4. m \in Packets /\ in \in Nodes /\ in = Towards(s, Src(m)) /\ m \in OnTheWay(<<in, s>>)
  BY <1>1, TakeOK, ArrivedOK DEF IInv
<1>5. x \in Places
  BY PlaceKinds
<1> HIDE DEF rest, m
<1>6. CASE /\ out # NoPort
           /\ wire' = Put(rest, s, out, m)
           /\ lost' = lost \cup Drop(s, out, m)
           /\ UNCHANGED packetIns
  <2> DEFINE y == Dest(s, out)
  <2>1. out = Away(s, Src(m)) /\ <<s, out>> \in Wires
    BY <1>4, <1>6, FlowLeadsOn, Senders, Chain DEF IInv
  <2> HIDE DEF out
  <2>2. <<s, out>> # <<in, s>>
    BY <2>1, PacketsAreSane DEF Wires, Adjacent, Switches, Nodes, Hosts
  <2>3. rest[<<s, out>>] = wire[<<s, out>>]
    BY <1>3, <2>1, <2>2
  <2>4. /\ y \in Places
        /\ m = p => (y \in FreeOf(p) => y \in Holding(p)')
        /\ m # p => Kept(y, p)
        /\ \A w \in Wires : rest[w] = wire[w] /\ <<"wire", w>> # y => Kept(<<"wire", w>>, p)
        /\ Lost # y => Kept(Lost, p)
    BY <1>2, <1>3, <1>4, <1>6, <2>1, <2>3, PutMoves
  <2>5. x # y
    BY <2>2, Distinct DEF Dest
  <2>6. wire'[<<in, s>>] = Tail(wire[<<in, s>>])
    BY <1>3, <1>6, <2>1, <2>2 DEF Put
  <2>7. IF m = p THEN x \notin FreeOf(p) /\ (x \in FreeOf(p) \cup Holding(p) => x \in FreeOf(p)')
                 ELSE Kept(x, p)
    BY <1>1, <2>6, WireShrinks DEF m
  <2> HIDE DEF x, y
  <2>8. \A w \in Wires : <<"wire", w>> \notin {x, y} => Kept(<<"wire", w>>, p)
    BY <1>3, <2>4 DEF x
  <2>9. \A z \in Places \ {x, y} : Kept(z, p)
    BY <1>1, <1>6, <2>4, <2>8, Untouched, AllKept
  <2> QED
    BY <1>1, <1>5, <2>4, <2>5, <2>7, <2>9, Passes
<1>7. CASE /\ wire' = rest
           /\ packetIns' = [packetIns EXCEPT ![s] = Append(@, [packet |-> m, in |-> in])]
           /\ UNCHANGED lost
  <2> DEFINE y == <<"asked", s>>
             r == [packet |-> m, in |-> in]
  <2>1. y \in Places /\ x # y
    BY PlaceKinds, Distinct
  <2>2. IF m = p THEN x \notin FreeOf(p) /\ (x \in FreeOf(p) \cup Holding(p) => x \in FreeOf(p)')
                 ELSE Kept(x, p)
    BY <1>1, <1>3, <1>7, WireShrinks DEF m
  <2>3. packetIns \in [Switches -> Seq(Asks)]
    BY DEF IInv, AsksOK
  <2>4. r \in Asks /\ (r \in AskFor(p) <=> m = p)
    BY <1>4 DEF Asks, AskFor
  <2>5. Queue(y, p) = packetIns[s] /\ Carriers(y, p) = AskFor(p)
    BY QueueKinds
  <2>6. Queue(y, p)' = packetIns'[s]
    BY QueueKinds
  <2>7. packetIns'[s] = Append(packetIns[s], r) /\ packetIns[s] \in Seq(Asks)
    BY <1>7, <2>3
  <2> HIDE DEF y, r
  <2>8. IF m = p THEN y \in FreeOf(p) => y \in Holding(p)' ELSE Kept(y, p)
    BY <2>1, <2>4, <2>5, <2>6, <2>7, Grows
  <2> HIDE DEF x
  <2>9. \A w \in Wires : <<"wire", w>> \notin {x, y} => Kept(<<"wire", w>>, p)
    BY <1>3, <1>7, Untouched DEF x
  <2>10. \A t \in Switches : <<"asked", t>> \notin {x, y} => Kept(<<"asked", t>>, p)
    BY <1>7, <2>3, Untouched DEF y
  <2>11. \A z \in Places \ {x, y} : Kept(z, p)
    BY <1>1, <1>7, <2>9, <2>10, Untouched, AllKept
  <2> QED
    BY <1>1, <1>5, <2>1, <2>2, <2>8, <2>11, Passes
<1>8. CASE wire' = rest /\ lost' = lost \cup {m} /\ UNCHANGED packetIns
  <2>1. Lost \in Places /\ x # Lost
    BY PlaceKinds, Distinct
  <2>2. IF m = p THEN x \notin FreeOf(p) /\ (x \in FreeOf(p) \cup Holding(p) => x \in FreeOf(p)')
                 ELSE Kept(x, p)
    BY <1>1, <1>3, <1>8, WireShrinks DEF m
  <2>3. IF m = p THEN Lost \in Holding(p)' ELSE Kept(Lost, p)
    BY <1>8, Ends, Untouched
  <2> HIDE DEF x
  <2>4. \A w \in Wires : <<"wire", w>> \notin {x, Lost} => Kept(<<"wire", w>>, p)
    BY <1>3, <1>8, Untouched DEF x
  <2>5. \A z \in Places \ {x, Lost} : Kept(z, p)
    BY <1>1, <1>8, <2>4, Untouched, AllKept
  <2> QED
    BY <1>1, <1>5, <2>1, <2>2, <2>3, <2>5, Passes
<1> QED
  BY <1>6, <1>7, <1>8 DEF Arrive, m, rest

\* A host receives a packet.
LEMMA ReceiveCounts ==
  ASSUME IInv, NEW h \in Hosts, Receive(h), NEW p \in Packets, CountedFor(p)
  PROVE  CountedFor(p)'
<1> DEFINE s == IF h = 0 THEN 1 ELSE Hops
           m == Head(wire[<<s, h>>])
           x == <<"wire", <<s, h>>>>
           y == <<"host", h>>
<1>1. <<s, h>> \in Wires
  BY LastHop
<1>2. /\ wire[<<s, h>>] # << >>
      /\ received' = received \cup {<<h, m>>}
      /\ wire' = [wire EXCEPT ![<<s, h>>] = Tail(@)]
      /\ sent' = sent /\ packetIns' = packetIns /\ orders' = orders /\ lost' = lost
  BY DEF Receive
<1> HIDE DEF s, m
<1>3. wire \in [Wires -> Seq(Packets)]
  BY DEF IInv, WireOK
<1>4. x \in Places /\ y \in Places /\ x # y
  BY <1>1, PlaceKinds, Distinct
<1>5. IF m = p THEN x \notin FreeOf(p) /\ (x \in FreeOf(p) \cup Holding(p) => x \in FreeOf(p)')
               ELSE Kept(x, p)
  BY <1>1, <1>2, <1>3, WireShrinks DEF m
<1>6. IF m = p THEN y \in Holding(p)' ELSE Kept(y, p)
  BY <1>2, Ends, Untouched
<1> HIDE DEF x, y
<1>7. \A w \in Wires : <<"wire", w>> \notin {x, y} => Kept(<<"wire", w>>, p)
  BY <1>1, <1>2, <1>3, Untouched DEF x
<1>8. \A g \in Hosts : <<"host", g>> \notin {x, y} => Kept(<<"host", g>>, p)
  BY <1>2, Untouched DEF y
<1>9. \A z \in Places \ {x, y} : Kept(z, p)
  BY <1>2, <1>7, <1>8, Untouched, AllKept
<1> QED
  BY <1>2, <1>4, <1>5, <1>6, <1>9, Passes

\* A switch obeys an order: a packet to send on, or a flow.
LEMMA ObeyCounts ==
  ASSUME IInv, NEW s \in Switches, Obey(s), NEW p \in Packets, CountedFor(p)
  PROVE  CountedFor(p)'
<1> DEFINE m == Head(orders[s])
           x == <<"ordered", s>>
<1>1. /\ orders[s] # << >> /\ orders' = [orders EXCEPT ![s] = Tail(@)]
      /\ sent' = sent /\ packetIns' = packetIns /\ received' = received
  BY DEF Obey
<1>2. orders \in [Switches -> Seq(Orders)] /\ orders[s] \in Seq(Ordered(s))
  BY DEF IInv, OrdersOK
<1>3. m \in Ordered(s)
  BY <1>1, <1>2, HeadAndTail
<1>4. x \in Places
  BY PlaceKinds
<1> HIDE DEF m
<1>5. IF m \in SendOn(p)
        THEN x \notin FreeOf(p) /\ (x \in FreeOf(p) \cup Holding(p) => x \in FreeOf(p)')
        ELSE Kept(x, p)
  BY <1>1, <1>2, OrdersShrink DEF m
<1> HIDE DEF x
<1>6. \A t \in Switches : <<"ordered", t>> # x => Kept(<<"ordered", t>>, p)
  BY <1>1, <1>2, Untouched DEF x
<1>7. CASE /\ m.op = "packet_out"
           /\ wire' = Put(wire, s, m.port, m.packet)
           /\ lost' = lost \cup Drop(s, m.port, m.packet)
  <2> DEFINE y == Dest(s, m.port)
             q == m.packet
  <2>1. /\ m \in [op : {"packet_out"}, packet : Packets, port : Nodes]
        /\ q \in Packets /\ m.port = Away(s, Src(q))
    BY <1>3, <1>7 DEF Ordered, PacketOuts, FlowMods
  <2>2. m \in SendOn(p) <=> q = p
    BY <2>1 DEF SendOn
  <2>3. <<s, m.port>> \in Wires
    BY <2>1, Senders, Chain
  <2>4. WireOK(wire) /\ wire \in [Wires -> Seq(Packets)]
    BY DEF IInv, WireOK
  <2>5. /\ y \in Places
        /\ q = p => (y \in FreeOf(p) => y \in Holding(p)')
        /\ q # p => Kept(y, p)
        /\ \A w \in Wires : <<"wire", w>> # y => Kept(<<"wire", w>>, p)
        /\ Lost # y => Kept(Lost, p)
    BY <1>7, <2>1, <2>3, <2>4, PutMoves
  <2>6. x # y
    BY Distinct DEF x, Dest
  <2> HIDE DEF y, q
  <2>7. \A z \in Places \ {x, y} : Kept(z, p)
    BY <1>1, <1>6, <2>5, Untouched, AllKept
  <2> QED
    BY <1>1, <1>4, <1>5, <2>2, <2>5, <2>6, <2>7, Passes
<1>8. CASE m.op = "flow_mod" /\ UNCHANGED <<wire, lost>>
  <2>1. m \notin SendOn(p)
    BY <1>8 DEF SendOn
  <2>2. \A z \in Places \ {x} : Kept(z, p)
    BY <1>1, <1>6, <1>8, Untouched, AllKept
  <2>3. \A z \in Places : Kept(z, p)
    BY <1>5, <2>1, <2>2
  <2> QED
    BY <1>1, <2>3, Stays
<1> QED
  BY <1>7, <1>8 DEF Obey, m

\* What the controller answers: one order with the packet, and a flow or none.
LEMMA AnswerParts ==
  ASSUME MacsOK(macToPort), NEW s \in Switches, NEW r \in Asked(s), NEW p \in Packets,
         NEW q \in Seq(Orders)
  PROVE  \E m \in Orders, n \in Orders :
           /\ m \in SendOn(p) <=> r.packet = p
           /\ n \notin SendOn(p)
           /\ q \o Answer(s, r.packet, r.in) \in {Append(q, m), Append(Append(q, m), n)}
<1> DEFINE c == r.packet
           port == Learn(s, c, r.in)[s][Dst(c)]
<1>1. /\ c \in Packets /\ r.in \in Nodes /\ r.in = Towards(s, Src(c))
      /\ Src(c) \in Hosts /\ Dst(c) \in Addresses /\ Dst(c) # Src(c)
  BY Senders DEF Asked, Asks, Addresses
<1>2. Everyone \notin Hosts
  BY PacketsAreSane DEF Nodes
<1>3. Learn(s, c, r.in) \in [Switches -> [Addresses -> Nodes \cup {NoPort}]]
  BY <1>1, <1>2 DEF MacsOK, Learn, Addresses
<1>4. port \in Nodes \cup {NoPort}
  BY <1>1, <1>3
<1>5. OtherPort(s, r.in) \in Nodes
  BY <1>1, Chain
<1>6. ASSUME NEW j \in Nodes
      PROVE  /\ ResendPacket(c, j) \in Orders
             /\ ResendPacket(c, j) \in SendOn(p) <=> c = p
             /\ FlowMod(c, j) \in Orders /\ FlowMod(c, j) \notin SendOn(p)
  BY <1>1 DEF ResendPacket, FlowMod, Orders, SendOn, Addresses
<1> HIDE DEF port
<1>7. CASE port # NoPort
  <2> DEFINE m == ResendPacket(c, port)
             n == FlowMod(c, port)
  <2>1. Answer(s, c, r.in) = <<m, n>>
    BY <1>7 DEF Answer, port
  <2>2. m \in Orders /\ n \in Orders /\ (m \in SendOn(p) <=> c = p) /\ n \notin SendOn(p)
    BY <1>4, <1>6, <1>7
  <2> HIDE DEF m, n
  <2>3. q \o <<m, n>> = Append(Append(q, m), n)
    BY <2>2
  <2> QED
    BY <2>1, <2>2, <2>3
<1>8. CASE port = NoPort
  <2> DEFINE m == ResendPacket(c, OtherPort(s, r.in))
             n == FlowMod(c, OtherPort(s, r.in))
  <2>1. Answer(s, c, r.in) = <<m>>
    BY <1>8 DEF Answer, port
  <2>2. m \in Orders /\ n \in Orders /\ (m \in SendOn(p) <=> c = p) /\ n \notin SendOn(p)
    BY <1>5, <1>6
  <2> HIDE DEF m, n
  <2>3. q \o <<m>> = Append(q, m)
    BY <2>2
  <2> QED
    BY <2>1, <2>2, <2>3
<1> QED
  BY <1>7, <1>8

\* The controller answers a packet-in.
LEMMA HandlePacketInCounts ==
  ASSUME IInv, NEW s \in Switches, HandlePacketIn(s), NEW p \in Packets, CountedFor(p)
  PROVE  CountedFor(p)'
<1> DEFINE r == Head(packetIns[s])
           x == <<"asked", s>>
<1>1. /\ packetIns[s] # << >> /\ packetIns' = [packetIns EXCEPT ![s] = Tail(@)]
      /\ sent' = sent /\ wire' = wire /\ received' = received
  BY DEF HandlePacketIn
<1>2. packetIns \in [Switches -> Seq(Asks)] /\ packetIns[s] \in Seq(Asked(s))
  BY DEF IInv, AsksOK
<1>3. r \in Asked(s)
  BY <1>1, <1>2, HeadAndTail
<1>4. x \in Places
  BY PlaceKinds
<1> HIDE DEF r
<1>5. IF r.packet = p
        THEN x \notin FreeOf(p) /\ (x \in FreeOf(p) \cup Holding(p) => x \in FreeOf(p)')
        ELSE Kept(x, p)
  BY <1>1, <1>2, AskedShrinks DEF r
<1>6. \A t \in Switches : <<"asked", t>> # x => Kept(<<"asked", t>>, p)
  BY <1>1, <1>2, Untouched DEF x
<1>7. CASE lost' = lost \cup {r.packet} /\ UNCHANGED <<macToPort, orders>>
  <2>1. Lost \in Places /\ x # Lost
    BY PlaceKinds, Distinct
  <2>2. IF r.packet = p THEN Lost \in Holding(p)' ELSE Kept(Lost, p)
    BY <1>7, Ends, Untouched
  <2> HIDE DEF x
  <2>3. \A z \in Places \ {x, Lost} : Kept(z, p)
    BY <1>1, <1>6, <1>7, Untouched, AllKept
  <2> QED
    BY <1>1, <1>4, <1>5, <2>1, <2>2, <2>3, Passes
<1>8. CASE /\ orders' = [orders EXCEPT ![s] = @ \o Answer(s, r.packet, r.in)]
           /\ UNCHANGED lost
  <2> DEFINE y == <<"ordered", s>>
  <2>1. y \in Places /\ x # y
    BY PlaceKinds, Distinct
  <2>2. orders \in [Switches -> Seq(Orders)]
    BY DEF IInv, OrdersOK
  <2>3. PICK m \in Orders, n \in Orders :
          /\ m \in SendOn(p) <=> r.packet = p
          /\ n \notin SendOn(p)
          /\ orders[s] \o Answer(s, r.packet, r.in) \in
               {Append(orders[s], m), Append(Append(orders[s], m), n)}
    BY <1>3, <2>2, AnswerParts DEF IInv
  <2>4. Queue(y, p) = orders[s] /\ Carriers(y, p) = SendOn(p)
    BY QueueKinds
  <2>5. Queue(y, p)' = orders'[s]
    BY QueueKinds
  <2>6. orders'[s] = orders[s] \o Answer(s, r.packet, r.in)
    BY <1>8, <2>2
  <2>7. \A t \in Switches : <<"ordered", t>> # y => Kept(<<"ordered", t>>, p)
    BY <1>8, <2>2, Untouched
  <2>8. orders[s] \in Seq(Orders)
    BY <2>2
  <2> HIDE DEF y
  <2>9. IF r.packet = p THEN y \in FreeOf(p) => y \in Holding(p)' ELSE Kept(y, p)
    <3>1. CASE orders'[s] = Append(orders[s], m)
      BY <2>1, <2>3, <2>4, <2>5, <2>8, <3>1, Grows
    <3>2. CASE orders'[s] = Append(Append(orders[s], m), n)
      BY <2>1, <2>3, <2>4, <2>5, <2>8, <3>2, GrowsByTwo
    <3> QED
      BY <2>3, <2>6, <3>1, <3>2
  <2> HIDE DEF x
  <2>10. \A z \in Places \ {x, y} : Kept(z, p)
    BY <1>1, <1>6, <1>8, <2>7, Untouched, AllKept
  <2> QED
    BY <1>1, <1>4, <1>5, <2>1, <2>9, <2>10, Passes
<1> QED
  BY <1>7, <1>8 DEF HandlePacketIn, r

\* A connection that comes anew drops what the old one carried.
LEMMA ConnectionUpCounts ==
  ASSUME IInv, NEW s \in Switches, ConnectionUp(s), NEW p \in Packets, CountedFor(p)
  PROVE  CountedFor(p)'
<1> DEFINE a == <<"asked", s>>
           o == <<"ordered", s>>
           C == {a, o}
<1>1. /\ packetIns' = [packetIns EXCEPT ![s] = << >>]
      /\ orders' = [orders EXCEPT ![s] = << >>]
      /\ lost' = lost \cup InTransit(s)
      /\ sent' = sent /\ wire' = wire /\ received' = received
  BY DEF ConnectionUp
<1>2. /\ packetIns \in [Switches -> Seq(Asks)] /\ packetIns[s] \in Seq(Asks)
      /\ orders \in [Switches -> Seq(Orders)] /\ orders[s] \in Seq(Orders)
  BY DEF IInv, AsksOK, OrdersOK
<1>3. a \in Places /\ o \in Places /\ Lost \in Places /\ a # Lost /\ o # Lost
  BY PlaceKinds, Distinct
<1>4. /\ Queue(a, p) = packetIns[s] /\ Carriers(a, p) = AskFor(p)
      /\ Queue(o, p) = orders[s] /\ Carriers(o, p) = SendOn(p)
  BY QueueKinds
<1>5. Queue(a, p)' = packetIns'[s] /\ Queue(o, p)' = orders'[s]
  BY QueueKinds
<1>6. packetIns'[s] = << >> /\ orders'[s] = << >>
  BY <1>1, <1>2
<1>7. a \in FreeOf(p)' /\ o \in FreeOf(p)'
  BY <1>3, <1>5, <1>6, Cleared
<1>8. C \subseteq FreeOf(p) <=> p \notin InTransit(s)
  <2>1. \A i \in DOMAIN packetIns[s] : packetIns[s][i] \in Asks
    BY <1>2, Elements
  <2>2. \A i \in DOMAIN packetIns[s] :
          packetIns[s][i] \in AskFor(p) <=> packetIns[s][i].packet = p
    BY <2>1 DEF Asks, AskFor
  <2>3. \A i \in DOMAIN orders[s] : orders[s][i] \in Orders
    BY <1>2, Elements
  <2>4. \A i \in DOMAIN orders[s] :
          orders[s][i] \in SendOn(p) <=> orders[s][i].op = "packet_out" /\ orders[s][i].packet = p
    BY <2>3 DEF Orders, SendOn
  <2>5. a \in FreeOf(p) <=> \A i \in DOMAIN packetIns[s] : packetIns[s][i].packet # p
    BY <1>3, <1>4, <2>2 DEF FreeOf, None
  <2>6. o \in FreeOf(p) <=> \A i \in DOMAIN orders[s] :
                              ~(orders[s][i].op = "packet_out" /\ orders[s][i].packet = p)
    BY <1>3, <1>4, <2>4 DEF FreeOf, None
  <2> QED
    BY <2>5, <2>6 DEF InTransit
<1>9. IF p \in InTransit(s) THEN Lost \in Holding(p)' ELSE Kept(Lost, p)
  BY <1>1, Ends, Untouched
<1>10. \A t \in Switches : <<"asked", t>> \notin C => Kept(<<"asked", t>>, p)
  BY <1>1, <1>2, Untouched
<1>11. \A t \in Switches : <<"ordered", t>> \notin C => Kept(<<"ordered", t>>, p)
  BY <1>1, <1>2, Untouched
<1>12. C \in SUBSET Places /\ Lost \in Places \ C
  BY <1>3
<1>13. \A z \in C : z \in FreeOf(p)'
  BY <1>7
<1> HIDE DEF C
<1>14. \A z \in Places \ (C \cup {Lost}) : Kept(z, p)
  BY <1>1, <1>10, <1>11, Untouched, AllKept
<1> QED
  BY <1>1, <1>8, <1>9, <1>12, <1>13, <1>14, Moves

\* A link that goes down loses what is on its two wires.
LEMMA LinkDownCounts ==
  ASSUME IInv, NEW i \in 0..Hops, LinkDown(i), NEW p \in Packets, CountedFor(p)
  PROVE  CountedFor(p)'
<1> DEFINE cut == {<<i, i + 1>>, <<i + 1, i>>}
           C == {<<"wire", w>> : w \in cut}
           gone == UNION {ToSet(wire[w]) : w \in cut}
<1>1. /\ lost' = lost \cup gone
      /\ wire' = [w \in Wires |-> IF w \in cut THEN << >> ELSE wire[w]]
      /\ sent' = sent /\ packetIns' = packetIns /\ orders' = orders /\ received' = received
  BY DEF LinkDown
<1>2. cut \subseteq Wires
  BY PacketsAreSane DEF Wires, Nodes, Hosts, Switches, Adjacent
<1> HIDE DEF cut
<1>3. \A w \in cut : <<"wire", w>> \in FreeOf(p)'
  <2>1. ASSUME NEW w \in cut PROVE Queue(<<"wire", w>>, p)' = << >>
    <3>1. wire'[w] = << >>
      BY <1>1, <1>2
    <3> QED
      BY <3>1, QueueKinds
  <2> QED
    BY <1>2, <2>1, PlaceKinds, Cleared
<1>4. C \subseteq FreeOf(p) <=> p \notin gone
  <2>1. \A w \in cut : /\ <<"wire", w>> \in Places
                       /\ Queue(<<"wire", w>>, p) = wire[w] /\ Carriers(<<"wire", w>>, p) = {p}
    BY <1>2, PlaceKinds, QueueKinds
  <2>2. \A w \in cut : <<"wire", w>> \in FreeOf(p) <=> p \notin ToSet(wire[w])
    BY <2>1 DEF FreeOf, None, ToSet
  <2> QED
    BY <2>2
<1>5. IF p \in gone THEN Lost \in Holding(p)' ELSE Kept(Lost, p)
  BY <1>1, Ends, Untouched
<1>6. \A w \in Wires : <<"wire", w>> \notin C => Kept(<<"wire", w>>, p)
  BY <1>1, Untouched
<1>7. C \in SUBSET Places /\ Lost \in Places \ C
  BY <1>2, PlaceKinds, Distinct
<1>8. \A z \in C : z \in FreeOf(p)'
  BY <1>3
<1> HIDE DEF C, gone
<1>9. \A z \in Places \ (C \cup {Lost}) : Kept(z, p)
  BY <1>1, <1>6, Untouched, AllKept
<1> QED
  BY <1>1, <1>4, <1>5, <1>7, <1>8, <1>9, Moves

\* A step that moves no packet.
LEMMA StillCounts ==
  ASSUME UNCHANGED <<sent, wire, packetIns, orders, received, lost>>,
         NEW p \in Packets, CountedFor(p)
  PROVE  CountedFor(p)'
<1>1. \A z \in Places \ {} : Kept(z, p)
  BY Untouched, AllKept
<1> QED
  BY <1>1, Stays

------------------------------------------------------------------------------
LEMMA CountedInit == Init => Counted
<1> SUFFICES ASSUME Init, NEW p \in Packets PROVE Places \subseteq FreeOf(p)
  BY DEF Counted, CountedFor, Init
<1>1. ASSUME NEW x \in Places, Queue(x, p) = << >> PROVE x \in FreeOf(p)
  BY <1>1, Short DEF FreeOf
<1>2. \A w \in Wires : Queue(<<"wire", w>>, p) = << >>
  <2>1. \A w \in Wires : wire[w] = << >>
    BY DEF Init
  <2> QED
    BY <2>1, QueueKinds
<1>3. \A s \in Switches : Queue(<<"asked", s>>, p) = << >> /\ Queue(<<"ordered", s>>, p) = << >>
  <2>1. \A s \in Switches : packetIns[s] = << >> /\ orders[s] = << >>
    BY DEF Init
  <2> QED
    BY <2>1, QueueKinds
<1>4. \A h \in Hosts : Queue(<<"host", h>>, p) = << >>
  BY QueueKinds DEF Init
<1>5. Queue(Lost, p) = << >>
  BY QueueKinds DEF Init
<1>6. ASSUME NEW x \in Places PROVE Queue(x, p) = << >>
  BY <1>2, <1>3, <1>4, <1>5, PlaceKinds
<1> QED
  BY <1>1, <1>6

LEMMA CountedNext == IInv /\ Counted /\ [Next]_vars => Counted'
<1> SUFFICES ASSUME IInv, Counted, [Next]_vars, NEW p \in Packets PROVE CountedFor(p)'
  BY DEF Counted
<1>0. CountedFor(p)
  BY DEF Counted
<1>1. ASSUME NEW q \in Packets, Send(q) PROVE CountedFor(p)'
  BY <1>0, <1>1, SendCounts
<1>2. ASSUME NEW w \in Wires, w[2] \in Switches, Arrive(w[2], w[1]) PROVE CountedFor(p)'
  <2>1. <<w[1], w[2]>> \in Wires
    BY <1>2 DEF Wires
  <2> QED
    BY <1>0, <1>2, <2>1, ArriveCounts
<1>3. ASSUME NEW s \in Switches, Obey(s) PROVE CountedFor(p)'
  BY <1>0, <1>3, ObeyCounts
<1>4. ASSUME NEW s \in Switches, HandlePacketIn(s) PROVE CountedFor(p)'
  BY <1>0, <1>4, HandlePacketInCounts
<1>5. ASSUME NEW s \in Switches, ConnectionUp(s) PROVE CountedFor(p)'
  BY <1>0, <1>5, ConnectionUpCounts
<1>6. ASSUME NEW h \in Hosts, Receive(h) PROVE CountedFor(p)'
  BY <1>0, <1>6, ReceiveCounts
<1>7. ASSUME NEW i \in 0..Hops, LinkDown(i) \/ LinkUp(i) PROVE CountedFor(p)'
  <2>1. CASE LinkDown(i)
    BY <1>0, <2>1, LinkDownCounts
  <2>2. CASE LinkUp(i)
    BY <1>0, <2>2, StillCounts DEF LinkUp
  <2> QED
    BY <1>7, <2>1, <2>2
<1>8. CASE UNCHANGED vars
  BY <1>0, <1>8, StillCounts DEF vars
<1> QED
  BY <1>1, <1>2, <1>3, <1>4, <1>5, <1>6, <1>7, <1>8 DEF Next

\* Where in the queues f[k], k in K, something of T stands.
Marks(f, K, T) == UNION {{<<k, i>> : i \in {j \in DOMAIN f[k] : f[k][j] \in T}} : k \in K}

LEMMA NoMark ==
  ASSUME NEW f, NEW K, NEW T, \A k \in K : None(f[k], T)
  PROVE  Cardinality(Marks(f, K, T)) = 0
<1>1. Marks(f, K, T) = {}
  BY DEF Marks, None
<1> QED
  BY <1>1, FS_EmptySet

LEMMA OneMark ==
  ASSUME NEW f, NEW K, NEW T, NEW k \in K, Once(f[k], T),
         \A l \in K : l # k => None(f[l], T)
  PROVE  Cardinality(Marks(f, K, T)) = 1
<1>1. PICK i \in DOMAIN f[k] : f[k][i] \in T /\ \A j \in DOMAIN f[k] : f[k][j] \in T => j = i
  BY DEF Once
<1>2. \A l \in K : {<<l, n>> : n \in {j \in DOMAIN f[l] : f[l][j] \in T}} =
                     IF l = k THEN {<<k, i>>} ELSE {}
  BY <1>1 DEF None
<1>3. Marks(f, K, T) = {<<k, i>>}
  BY <1>2 DEF Marks
<1> QED
  BY <1>3, FS_Singleton

\* The places of a packet, counted kind by kind.
Ended(p) == {h \in Hosts : <<h, p>> \in received} \cup {x \in {NoPort} : p \in lost}

Count(p) ==
  Cardinality(Marks(wire, Wires, {p})) + Cardinality(Marks(packetIns, Switches, AskFor(p)))
    + Cardinality(Marks(orders, Switches, SendOn(p))) + Cardinality(Ended(p))

LEMMA CountIs ==
  ASSUME IInv, \A p \in sent : Count(p) = 1
  PROVE  OneCopy
<1> SUFFICES ASSUME NEW p \in sent
             PROVE  LET onWires == UNION {{<<w, i>> : i \in {j \in DOMAIN wire[w] : wire[w][j] = p}} : w \in Wires}
                        asked   == UNION {{<<s, i>> : i \in {j \in DOMAIN packetIns[s] :
                                               packetIns[s][j].packet = p}} : s \in Switches}
                        ordered == UNION {{<<s, i>> : i \in {j \in DOMAIN orders[s] :
                             orders[s][j].op = "packet_out" /\ orders[s][j].packet = p}} : s \in Switches}
                        ended   == {h \in Hosts : <<h, p>> \in received} \cup {x \in {NoPort} : p \in lost}
                    IN  Cardinality(onWires) + Cardinality(asked) + Cardinality(ordered)
                          + Cardinality(ended) = 1
  BY DEF OneCopy
<1>1. p \in Packets
  BY DEF IInv, Books
<1>2. UNION {{<<w, i>> : i \in {j \in DOMAIN wire[w] : wire[w][j] = p}} : w \in Wires}
        = Marks(wire, Wires, {p})
  BY DEF Marks
<1>3. UNION {{<<s, i>> : i \in {j \in DOMAIN packetIns[s] : packetIns[s][j].packet = p}} : s \in Switches}
        = Marks(packetIns, Switches, AskFor(p))
  <2>1. ASSUME NEW s \in Switches, NEW j \in DOMAIN packetIns[s]
        PROVE  packetIns[s][j] \in AskFor(p) <=> packetIns[s][j].packet = p
    <3>1. packetIns[s][j] \in Asks
      BY Elements DEF IInv, AsksOK
    <3> QED
      BY <1>1, <3>1 DEF Asks, AskFor
  <2>2. \A s \in Switches : {j \in DOMAIN packetIns[s] : packetIns[s][j].packet = p}
                              = {j \in DOMAIN packetIns[s] : packetIns[s][j] \in AskFor(p)}
    BY <2>1
  <2> QED
    BY <2>2 DEF Marks
<1>4. UNION {{<<s, i>> : i \in {j \in DOMAIN orders[s] : orders[s][j].op = "packet_out"
                /\ orders[s][j].packet = p}} : s \in Switches}
        = Marks(orders, Switches, SendOn(p))
  <2>1. ASSUME NEW s \in Switches, NEW j \in DOMAIN orders[s]
        PROVE  orders[s][j] \in SendOn(p) <=>
                 orders[s][j].op = "packet_out" /\ orders[s][j].packet = p
    <3>1. orders[s][j] \in Orders
      BY Elements DEF IInv, OrdersOK
    <3> QED
      BY <1>1, <3>1 DEF Orders, SendOn
  <2>2. \A s \in Switches :
          {j \in DOMAIN orders[s] : orders[s][j].op = "packet_out" /\ orders[s][j].packet = p}
            = {j \in DOMAIN orders[s] : orders[s][j] \in SendOn(p)}
    BY <2>1
  <2> QED
    BY <2>2 DEF Marks
<1>5. Count(p) = 1
  OBVIOUS
<1> QED
  BY <1>2, <1>3, <1>4, <1>5 DEF Count, Ended

LEMMA FreeAndHolding ==
  ASSUME NEW p
  PROVE  /\ \A w \in Wires : /\ <<"wire", w>> \in FreeOf(p) <=> None(wire[w], {p})
                             /\ <<"wire", w>> \in Holding(p) <=> Once(wire[w], {p})
         /\ \A s \in Switches :
              /\ <<"asked", s>> \in FreeOf(p) <=> None(packetIns[s], AskFor(p))
              /\ <<"asked", s>> \in Holding(p) <=> Once(packetIns[s], AskFor(p))
              /\ <<"ordered", s>> \in FreeOf(p) <=> None(orders[s], SendOn(p))
              /\ <<"ordered", s>> \in Holding(p) <=> Once(orders[s], SendOn(p))
         /\ \A h \in Hosts : /\ <<"host", h>> \in FreeOf(p) <=> <<h, p>> \notin received
                             /\ <<"host", h>> \in Holding(p) => <<h, p>> \in received
         /\ Lost \in FreeOf(p) <=> p \notin lost
         /\ Lost \in Holding(p) => p \in lost
<1>1. /\ None(<< >>, {p}) /\ ~Once(<< >>, {p})
      /\ ~None(<<p>>, {p})
  BY Short, NotBoth
<1>2. \A w \in Wires : /\ <<"wire", w>> \in FreeOf(p) <=> None(wire[w], {p})
                       /\ <<"wire", w>> \in Holding(p) <=> Once(wire[w], {p})
  BY PlaceKinds, QueueKinds DEF FreeOf, Holding
<1>3. \A s \in Switches :
        /\ <<"asked", s>> \in FreeOf(p) <=> None(packetIns[s], AskFor(p))
        /\ <<"asked", s>> \in Holding(p) <=> Once(packetIns[s], AskFor(p))
        /\ <<"ordered", s>> \in FreeOf(p) <=> None(orders[s], SendOn(p))
        /\ <<"ordered", s>> \in Holding(p) <=> Once(orders[s], SendOn(p))
  BY PlaceKinds, QueueKinds DEF FreeOf, Holding
<1>4. ASSUME NEW h \in Hosts
      PROVE  /\ <<"host", h>> \in FreeOf(p) <=> <<h, p>> \notin received
             /\ <<"host", h>> \in Holding(p) => <<h, p>> \in received
  <2>1. /\ <<"host", h>> \in Places /\ Carriers(<<"host", h>>, p) = {p}
        /\ Queue(<<"host", h>>, p) = IF <<h, p>> \in received THEN <<p>> ELSE << >>
    BY PlaceKinds, QueueKinds
  <2> QED
    BY <1>1, <2>1 DEF FreeOf, Holding
<1>5. /\ Lost \in FreeOf(p) <=> p \notin lost
      /\ Lost \in Holding(p) => p \in lost
  <2>1. /\ Lost \in Places /\ Carriers(Lost, p) = {p}
        /\ Queue(Lost, p) = IF p \in lost THEN <<p>> ELSE << >>
    BY PlaceKinds, QueueKinds
  <2> QED
    BY <1>1, <2>1 DEF FreeOf, Holding
<1> QED
  BY <1>2, <1>3, <1>4, <1>5

\* What is in one place is counted once.
LEMMA CountOne ==
  ASSUME NEW p, InOnePlace(p)
  PROVE  Count(p) = 1
<1>1. PICK x \in Holding(p) : Places \ {x} \subseteq FreeOf(p)
  BY DEF InOnePlace
<1> DEFINE onWires == Cardinality(Marks(wire, Wires, {p}))
           asked   == Cardinality(Marks(packetIns, Switches, AskFor(p)))
           ordered == Cardinality(Marks(orders, Switches, SendOn(p)))
           ended   == Cardinality(Ended(p))
<1>2. ASSUME \A w \in Wires : <<"wire", w>> # x PROVE onWires = 0
  <2>1. \A w \in Wires : None(wire[w], {p})
    BY <1>1, <1>2, PlaceKinds, FreeAndHolding
  <2> QED
    BY <2>1, NoMark
<1>3. ASSUME \A s \in Switches : <<"asked", s>> # x PROVE asked = 0
  <2>1. \A s \in Switches : None(packetIns[s], AskFor(p))
    BY <1>1, <1>3, PlaceKinds, FreeAndHolding
  <2> QED
    BY <2>1, NoMark
<1>4. ASSUME \A s \in Switches : <<"ordered", s>> # x PROVE ordered = 0
  <2>1. \A s \in Switches : None(orders[s], SendOn(p))
    BY <1>1, <1>4, PlaceKinds, FreeAndHolding
  <2> QED
    BY <2>1, NoMark
<1>5. ASSUME \A h \in Hosts : <<"host", h>> # x, Lost # x PROVE ended = 0
  <2>1. p \notin lost /\ \A h \in Hosts : <<h, p>> \notin received
    BY <1>1, <1>5, PlaceKinds, FreeAndHolding
  <2>2. Ended(p) = {}
    BY <2>1 DEF Ended
  <2> QED
    BY <2>2, FS_EmptySet
<1>6. CASE \E w \in Wires : x = <<"wire", w>>
  <2>1. PICK w \in Wires : x = <<"wire", w>>
    BY <1>6
  <2>2. Once(wire[w], {p}) /\ \A v \in Wires : v # w => None(wire[v], {p})
    BY <1>1, <2>1, PlaceKinds, Distinct, FreeAndHolding
  <2>3. onWires = 1
    BY <2>2, OneMark
  <2>4. asked = 0 /\ ordered = 0 /\ ended = 0
    BY <1>3, <1>4, <1>5, <2>1, Distinct
  <2> QED
    BY <2>3, <2>4 DEF Count
<1>7. CASE \E s \in Switches : x = <<"asked", s>>
  <2>1. PICK s \in Switches : x = <<"asked", s>>
    BY <1>7
  <2>2. /\ Once(packetIns[s], AskFor(p))
        /\ \A t \in Switches : t # s => None(packetIns[t], AskFor(p))
    BY <1>1, <2>1, PlaceKinds, Distinct, FreeAndHolding
  <2>3. asked = 1
    BY <2>2, OneMark
  <2>4. onWires = 0 /\ ordered = 0 /\ ended = 0
    BY <1>2, <1>4, <1>5, <2>1, Distinct
  <2> QED
    BY <2>3, <2>4 DEF Count
<1>8. CASE \E s \in Switches : x = <<"ordered", s>>
  <2>1. PICK s \in Switches : x = <<"ordered", s>>
    BY <1>8
  <2>2. /\ Once(orders[s], SendOn(p))
        /\ \A t \in Switches : t # s => None(orders[t], SendOn(p))
    BY <1>1, <2>1, PlaceKinds, Distinct, FreeAndHolding
  <2>3. ordered = 1
    BY <2>2, OneMark
  <2>4. onWires = 0 /\ asked = 0 /\ ended = 0
    BY <1>2, <1>3, <1>5, <2>1, Distinct
  <2> QED
    BY <2>3, <2>4 DEF Count
<1>9. CASE x = Lost \/ \E h \in Hosts : x = <<"host", h>>
  <2>1. onWires = 0 /\ asked = 0 /\ ordered = 0
    BY <1>2, <1>3, <1>4, <1>9, Distinct
  <2>2. ended = 1
    <3>1. CASE x = Lost
      <4>1. p \in lost /\ \A h \in Hosts : <<h, p>> \notin received
        BY <1>1, <3>1, PlaceKinds, Distinct, FreeAndHolding
      <4>2. Ended(p) = {NoPort}
        BY <4>1 DEF Ended
      <4> QED
        BY <4>2, FS_Singleton
    <3>2. CASE \E h \in Hosts : x = <<"host", h>>
      <4>1. PICK h \in Hosts : x = <<"host", h>>
        BY <3>2
      <4>2. /\ <<h, p>> \in received /\ p \notin lost
            /\ \A g \in Hosts : g # h => <<g, p>> \notin received
        BY <1>1, <4>1, PlaceKinds, Distinct, FreeAndHolding
      <4>3. Ended(p) = {h}
        BY <4>2 DEF Ended
      <4> QED
        BY <4>3, FS_Singleton
    <3> QED
      BY <1>9, <3>1, <3>2
  <2> QED
    BY <2>1, <2>2 DEF Count
<1> QED
  BY <1>1, <1>6, <1>7, <1>8, <1>9, PlaceKinds DEF Holding

\* No packet is doubled or vanishes, on a chain of any length: what was sent is
\* in one place, whichever of the flow, act_like_switch and resend_packet moved
\* it along, and whatever breaks or connects again (learning_switch.py:53-115).
THEOREM OneCopyOfEach == Spec => []OneCopy
<1>1. Init => IInv /\ Counted
  BY InitInvariant, CountedInit
<1>2. (IInv /\ Counted) /\ [Next]_vars => (IInv /\ Counted)'
  BY NextInvariant, CountedNext
<1>3. IInv /\ Counted => OneCopy
  <2>1. ASSUME IInv, Counted, NEW p \in sent PROVE Count(p) = 1
    <3>1. InOnePlace(p)
      BY <2>1 DEF IInv, Books, Counted, CountedFor
    <3> QED
      BY <3>1, CountOne
  <2> QED
    BY <2>1, CountIs
<1> QED
  BY <1>1, <1>2, <1>3, PTL DEF Spec
==============================================================================
