--------------------------- MODULE GatewayHandoff ---------------------------
(***************************************************************************)
(* The gateway handoff of route_stage/precompute_path_15s_isl.py (the      *)
(* bent-pipe script precompute_path_15s_bp.py runs the same decision on    *)
(* another graph).  Once per cycle the script reads where the satellites   *)
(* are, decides whether each of the two users keeps its gateway satellite  *)
(* or takes another, and writes a line with a route between the gateways,  *)
(* or the line "NULL".                                                     *)
(*                                                                         *)
(* The decision is modelled whole.  Of the graph only which satellites are *)
(* connected is kept: the route inside it is Dijkstra's of networkx.  A    *)
(* position is the offset of a satellite from a user, in whole units small *)
(* enough to enumerate.  Of a written route the two ends are kept, and the *)
(* delays between them and their users.                                    *)
(***************************************************************************)
EXTENDS Integers, FiniteSets

CONSTANTS
  Sats,       \* the satellites of the constellation
  None,       \* the "-1" of the script: no satellite
  Interval,   \* the 15 the two counters are compared with
  Offsets,    \* the offsets <<x, y, z>> a satellite can have from a user
  Reach       \* L, the coverage limit

ASSUME ConstellationIsSane ==
  /\ None \notin Sats
  /\ Interval \in Nat \ {0}
  /\ Reach \in Nat
  /\ Offsets \subseteq Int \X Int \X Int

VARIABLES
  sky,        \* what this cycle's data says, or NoSky between two cycles
  gateway1,   \* test_1_gateway_pervious: the latency and the satellite
  gateway2,
  counter1,
  counter2,
  line,       \* what the last cycle wrote
  age1,       \* history: the cycles since the first user's gateway was taken
  age2,       \* from its satellites in view, up to MaxAge
  missed1,    \* history: since then its counter was full once, and it was not
  missed2     \* given another one

choice  == <<gateway1, gateway2, counter1, counter2>>
history == <<age1, age2, missed1, missed2>>
vars    == <<sky, choice, line, history>>

-----------------------------------------------------------------------------
(* The data of one cycle. *)

NoSky == [position1 |-> <<>>, position2 |-> <<>>, net |-> {}]

(* The ways inter-satellite links (or relays) can split the satellites.    *)
Networks ==
  {P \in SUBSET (SUBSET Sats \ {{}}) :
     /\ UNION P = Sats
     /\ \A C, D \in P : C = D \/ C \cap D = {}}

Skies == [position1 : [Sats -> Offsets], position2 : [Sats -> Offsets],
          net : Networks]

Square(n) == n * n

DistanceSquared(o) == Square(o[1]) + Square(o[2]) + Square(o[3])

CheckSatCoverGroundStation(o) == DistanceSquared(o) <= Square(Reach)

(* computeLatency, in units of the speed of light: the third term of its   *)
(* sum takes the y coordinate a second time.  The root is rounded down.    *)
Root(n) == Cardinality({r \in 1..n : Square(r) <= n})

ComputeLatency(o) == Root(Square(o[1]) + Square(o[2]) + Square(o[2]))

InView(position) == {s \in Sats : CheckSatCoverGroundStation(position[s])}

Gateway(position, s) == [latency |-> ComputeLatency(position[s]), sat |-> s]

(* The latency is math.inf in the script, and never read while sat is -1.  *)
NoGateway == [latency |-> -1, sat |-> None]

(* min_test_i_gateway: the satellite in view of least computed latency (of *)
(* equal ones any: the script reads floats, and takes the first).          *)
MinGateways(position) ==
  LET seen == {Gateway(position, s) : s \in InView(position)}
  IN  IF seen = {} THEN {NoGateway}
      ELSE {g \in seen : \A h \in seen : g.latency <= h.latency}

PathExists(g1, g2) ==
  /\ g1.sat # None
  /\ g2.sat # None
  /\ \E C \in sky.net : {g1.sat, g2.sat} \subseteq C

-----------------------------------------------------------------------------
(* The decision: what it picks is the pair and the two counters; new1 and  *)
(* new2 say whose gateway is one of this cycle's, for the history.         *)

Pick(g1, g2, c1, c2, n1, n2) ==
  [g1 |-> g1, g2 |-> g2, c1 |-> c1, c2 |-> c2, new1 |-> n1, new2 |-> n2]

Full1 == counter1 = Interval
Full2 == counter2 = Interval

(* A connected pair is kept, but for the side whose counter is full.       *)
ScheduledPick(min1, min2) ==
  Pick(IF Full1 THEN min1 ELSE gateway1, IF Full2 THEN min2 ELSE gateway2,
       counter1, counter2, Full1, Full2)

(* A broken pair changes one side if that repairs it, else both.           *)
ForcedPick(min1, min2) ==
  IF PathExists(min1, gateway2)
  THEN Pick(min1, gateway2, Interval, counter2, TRUE, FALSE)
  ELSE IF PathExists(gateway1, min2)
  THEN Pick(gateway1, min2, counter1, Interval, FALSE, TRUE)
  ELSE Pick(min1, min2, Interval, Interval, TRUE, TRUE)

FirstPick(min1, min2) ==
  IF PathExists(gateway1, gateway2)
  THEN ScheduledPick(min1, min2)
  ELSE ForcedPick(min1, min2)

(* The pairs in view that are connected, and of these the closest.         *)
ConnectedPairs ==
  {p \in InView(sky.position1) \X InView(sky.position2) :
     PathExists(Gateway(sky.position1, p[1]), Gateway(sky.position2, p[2]))}

Sum(p) == ComputeLatency(sky.position1[p[1]])
            + ComputeLatency(sky.position2[p[2]])

(* Slips: no fallback, and one that leaves the counters alone.             *)
FinalPicksFirst(pick) == {pick}

FinalPicksNoReset(pick) ==
  IF PathExists(pick.g1, pick.g2) \/ ConnectedPairs = {}
  THEN {pick}
  ELSE {Pick(Gateway(sky.position1, p[1]), Gateway(sky.position2, p[2]),
             pick.c1, pick.c2, TRUE, TRUE) :
          p \in {q \in ConnectedPairs :
                   \A r \in ConnectedPairs : Sum(q) <= Sum(r)}}

(* The fallback: another combination, if the one picked has no path.       *)
FinalPicks(pick) ==
  IF PathExists(pick.g1, pick.g2) \/ ConnectedPairs = {}
  THEN {pick}
  ELSE {Pick(Gateway(sky.position1, p[1]), Gateway(sky.position2, p[2]),
             Interval, Interval, TRUE, TRUE) :
          p \in {q \in ConnectedPairs :
                   \A r \in ConnectedPairs : Sum(q) <= Sum(r)}}

(* Slip: the counter is reset one cycle late.                              *)
AdvanceOver(c) == IF c = Interval + 1 THEN 0 ELSE c + 1

Advance(c) == IF c = Interval THEN 0 ELSE c + 1

(* The line of a cycle: "NULL", or the ends of the route and the delays to *)
(* the two users.                                                          *)
NoLine   == [written |-> FALSE, route |-> << >>, delay |-> << >>]
NullLine == [written |-> TRUE,  route |-> << >>, delay |-> << >>]

RouteLine(g1, g2) ==
  [written |-> TRUE, route |-> <<g1.sat, g2.sat>>, delay |-> <<g1.latency, g2.latency>>]

-----------------------------------------------------------------------------
Init ==
  /\ sky = NoSky
  /\ gateway1 = NoGateway
  /\ gateway2 = NoGateway
  /\ counter1 = 0
  /\ counter2 = 0
  /\ line = NoLine
  /\ age1 = 0 /\ age2 = 0
  /\ missed1 = FALSE /\ missed2 = FALSE

(* The files of the next cycle are read.                                   *)
Observe ==
  /\ sky = NoSky
  /\ sky' \in Skies
  /\ UNCHANGED <<choice, line, history>>

MaxAge == Interval + 2

Older(age) == IF age < MaxAge THEN age + 1 ELSE MaxAge

Remember(pick) ==
  /\ age1' = IF pick.new1 THEN 0 ELSE Older(age1)
  /\ age2' = IF pick.new2 THEN 0 ELSE Older(age2)
  /\ missed1' = (~pick.new1 /\ (missed1 \/ Full1))
  /\ missed2' = (~pick.new2 /\ (missed2 \/ Full2))

(* The gateways are decided, saved for the next cycle, and the line is     *)
(* written.                                                                *)
WriteLine ==
  /\ sky # NoSky
  /\ \E min1 \in MinGateways(sky.position1),
        min2 \in MinGateways(sky.position2) :
       \E pick \in FinalPicks(FirstPick(min1, min2)) :
         /\ gateway1' = pick.g1
         /\ gateway2' = pick.g2
         /\ counter1' = Advance(pick.c1)
         /\ counter2' = Advance(pick.c2)
         /\ line' = IF PathExists(pick.g1, pick.g2)
                      THEN RouteLine(pick.g1, pick.g2) ELSE NullLine
         /\ Remember(pick)
  /\ sky' = NoSky

Next == Observe \/ WriteLine

Spec == Init /\ [][Next]_vars

-----------------------------------------------------------------------------
Gateways == [latency : Nat, sat : Sats] \cup {NoGateway}

(* The saved gateways are satellites or none, and the counters stay within *)
(* the interval (precompute_path_15s_isl.py:112-114, 170-179).             *)
TypeOK ==
  /\ sky \in Skies \cup {NoSky}
  /\ gateway1 \in Gateways /\ gateway2 \in Gateways
  /\ counter1 \in 0..Interval /\ counter2 \in 0..Interval
  /\ age1 \in 0..MaxAge /\ age2 \in 0..MaxAge
  /\ missed1 \in BOOLEAN /\ missed2 \in BOOLEAN
  /\ line.route \in {<< >>} \cup Sats \X Sats

(* A cycle is written "NULL" only if no satellite over the first user is   *)
(* connected with one over the second: whatever the counters, the previous *)
(* pair and the closest satellites make of it, a route that exists is      *)
(* found (precompute_path_15s_isl.py:125-165).                             *)
NoRouteMissed ==
  [][line' = NullLine /\ sky # NoSky => ConnectedPairs = {}]_vars

(* No needless handoff: a user leaves a gateway only if it has had it for  *)
(* the whole interval, or the pair is not connected, or the pair the other *)
(* user's scheduled handoff makes is not. For this each of the five ways   *)
(* to a new gateway has to start the user's counter again                  *)
(* (precompute_path_15s_isl.py:125-179).                                   *)
NoNeedlessHandoff ==
  [][/\ gateway1' # gateway1 =>
          \/ age1 >= Interval
          \/ ~PathExists(gateway1, gateway2)
          \/ \E g \in MinGateways(sky.position2) : Full2 /\ ~PathExists(gateway1, g)
     /\ gateway2' # gateway2 =>
          \/ age2 >= Interval
          \/ ~PathExists(gateway1, gateway2)
          \/ \E g \in MinGateways(sky.position1) : Full1 /\ ~PathExists(g, gateway2)]_vars

(* What a line says of a user's link is not older than the interval: the   *)
(* satellite was in the user's view, and its latency was the one written,  *)
(* at most so many cycles ago. The exception is a user whose counter was   *)
(* full in the cycle in which the pair broke and was repaired on the other *)
(* side: its counter starts again all the same, and it keeps the satellite *)
(* for another interval (precompute_path_15s_isl.py:125-147, 172-179).     *)
LatencyIsRecent ==
  line.route # << >> =>
    /\ age1 <= Interval \/ missed1
    /\ age2 <= Interval \/ missed2

-----------------------------------------------------------------------------
(* The gateway the minimum selects is the closest satellite in view: "find *)
(* the closest satellite/gateway for each test location" is what           *)
(* precompute_path_15s_isl.py:76 says of it.                               *)
MinimumIsClosest ==
  sky # NoSky =>
    \A g \in MinGateways(sky.position1) : g.sat # None =>
      \A s \in InView(sky.position1) :
        DistanceSquared(sky.position1[g.sat])
          <= DistanceSquared(sky.position1[s])
=============================================================================
