------------------------ MODULE GatewayHandoff_proofs ------------------------
(***************************************************************************)
(* Proofs about the gateway handoff for every constellation, interval and  *)
(* sequence of skies.  PickSides says what a cycle's decision may do to    *)
(* the two users, and from it follow the three facts: a route that exists  *)
(* is found, no handoff is needless, and a written latency is recent.  The *)
(* last two need the invariant Counted: a counter tells how long ago its   *)
(* user's gateway was taken, unless the user has missed a turn.            *)
(***************************************************************************)
EXTENDS GatewayHandoff, FiniteSetTheorems, TLAPS

------------------------------------------------------------------------------
(* Latencies and gateways. *)

\* A square root, rounded down, is a natural number.
LEMMA RootNat ==
  ASSUME NEW n \in Nat
  PROVE  Root(n) \in Nat
<1> DEFINE S == {r \in 1..n : Square(r) <= n}
<1>1. IsFiniteSet(1..n)
  BY FS_Interval
<1>2. IsFiniteSet(S)
  BY <1>1, FS_Subset
<1> QED
  BY <1>2, FS_CardinalityType DEF Root

LEMMA SquareNat ==
  ASSUME NEW n \in Int
  PROVE  Square(n) \in Nat
  BY DEF Square

\* The latency of every offset is a natural number.
LEMMA LatencyNat ==
  ASSUME NEW o \in Offsets
  PROVE  ComputeLatency(o) \in Nat
<1>1. o[1] \in Int /\ o[2] \in Int
  BY ConstellationIsSane
<1>2. Square(o[1]) \in Nat /\ Square(o[2]) \in Nat
  BY <1>1, SquareNat
<1>3. Square(o[1]) + Square(o[2]) + Square(o[2]) \in Nat
  BY <1>2
<1> QED
  BY <1>3, RootNat DEF ComputeLatency

LEMMA GatewayType ==
  ASSUME NEW position \in [Sats -> Offsets], NEW s \in Sats
  PROVE  Gateway(position, s) \in Gateways
  BY LatencyNat DEF Gateway, Gateways

\* The closest satellite is a gateway, if there is one.
LEMMA MinGatewaysType ==
  ASSUME NEW position \in [Sats -> Offsets], NEW g \in MinGateways(position)
  PROVE  g \in Gateways
<1>1. CASE g = NoGateway
  BY <1>1 DEF Gateways
<1>2. CASE \E s \in InView(position) : g = Gateway(position, s)
  BY <1>2, GatewayType DEF InView
<1> QED
  BY <1>1, <1>2 DEF MinGateways

------------------------------------------------------------------------------
(* The decision. *)

\* What may become of a user: a gateway of this cycle and a full counter, or
\* nothing.
Side(g, c, new, gateway, counter) ==
  \/ new = TRUE /\ c = Interval /\ g \in Gateways
  \/ new = FALSE /\ c = counter /\ g = gateway

PickIsSided(p) ==
  Side(p.g1, p.c1, p.new1, gateway1, counter1) /\ Side(p.g2, p.c2, p.new2, gateway2, counter2)

\* Two gateways that are connected are satellites.
LEMMA PathNeedsSats ==
  ASSUME NEW g1, NEW g2, PathExists(g1, g2)
  PROVE  g1.sat # None /\ g2.sat # None
  BY DEF PathExists

\* The first choice: what the pair and the full counters make of it.
LEMMA FirstPickSides ==
  ASSUME NEW min1 \in Gateways, NEW min2 \in Gateways
  PROVE  /\ PickIsSided(FirstPick(min1, min2))
         /\ PathExists(gateway1, gateway2) =>
              /\ FirstPick(min1, min2).new1 = Full1
              /\ FirstPick(min1, min2).new2 = Full2
              /\ FirstPick(min1, min2).g1 = IF Full1 THEN min1 ELSE gateway1
              /\ FirstPick(min1, min2).g2 = IF Full2 THEN min2 ELSE gateway2
<1> DEFINE p == FirstPick(min1, min2)
<1>1. CASE PathExists(gateway1, gateway2)
  <2>1. p = ScheduledPick(min1, min2)
    BY <1>1 DEF FirstPick
  <2>2. /\ p.g1 = (IF Full1 THEN min1 ELSE gateway1) /\ p.c1 = counter1 /\ p.new1 = Full1
        /\ p.g2 = (IF Full2 THEN min2 ELSE gateway2) /\ p.c2 = counter2 /\ p.new2 = Full2
    BY <2>1 DEF ScheduledPick, Pick
  <2> QED
    BY <1>1, <2>2 DEF PickIsSided, Side, Full1, Full2
<1>2. CASE ~PathExists(gateway1, gateway2)
  <2>1. p = ForcedPick(min1, min2)
    BY <1>2 DEF FirstPick
  <2>2. \/ p = Pick(min1, gateway2, Interval, counter2, TRUE, FALSE)
        \/ p = Pick(gateway1, min2, counter1, Interval, FALSE, TRUE)
        \/ p = Pick(min1, min2, Interval, Interval, TRUE, TRUE)
    BY <2>1 DEF ForcedPick
  <2> QED
    BY <1>2, <2>2 DEF PickIsSided, Side, Pick
<1> QED
  BY <1>1, <1>2

\* What a cycle picks, on each side, and when it looks for another gateway.
LEMMA PickSides ==
  ASSUME TypeOK, sky # NoSky,
         NEW min1 \in MinGateways(sky.position1), NEW min2 \in MinGateways(sky.position2),
         NEW pick \in FinalPicks(FirstPick(min1, min2))
  PROVE  /\ PickIsSided(pick)
         /\ PathExists(pick.g1, pick.g2) \/ ConnectedPairs = {}
         /\ pick.new1 => \/ Full1 \/ ~PathExists(gateway1, gateway2)
                         \/ Full2 /\ ~PathExists(gateway1, min2)
         /\ pick.new2 => \/ Full2 \/ ~PathExists(gateway1, gateway2)
                         \/ Full1 /\ ~PathExists(min1, gateway2)
<1> DEFINE first == FirstPick(min1, min2)
<1>1. sky.position1 \in [Sats -> Offsets] /\ sky.position2 \in [Sats -> Offsets]
  BY DEF TypeOK, Skies
<1>2. min1 \in Gateways /\ min2 \in Gateways
  BY <1>1, MinGatewaysType
<1>3. PickIsSided(first)
  BY <1>2, FirstPickSides
<1>4. PathExists(gateway1, gateway2) =>
        /\ first.new1 = Full1 /\ first.new2 = Full2
        /\ first.g1 = (IF Full1 THEN min1 ELSE gateway1)
        /\ first.g2 = (IF Full2 THEN min2 ELSE gateway2)
  BY <1>2, FirstPickSides
<1> HIDE DEF first
<1>5. CASE PathExists(first.g1, first.g2) \/ ConnectedPairs = {}
  <2>1. pick = first
    BY <1>5 DEF FinalPicks, first
  <2> QED
    BY <1>3, <1>4, <1>5, <2>1
<1>6. CASE ~(PathExists(first.g1, first.g2) \/ ConnectedPairs = {})
  <2>1. PICK p \in ConnectedPairs :
          pick = Pick(Gateway(sky.position1, p[1]), Gateway(sky.position2, p[2]),
                      Interval, Interval, TRUE, TRUE)
    BY <1>6 DEF FinalPicks, first
  <2>2. /\ p[1] \in Sats /\ p[2] \in Sats
        /\ PathExists(Gateway(sky.position1, p[1]), Gateway(sky.position2, p[2]))
    BY <2>1 DEF ConnectedPairs, InView
  <2>3. /\ pick.g1 = Gateway(sky.position1, p[1]) /\ pick.c1 = Interval /\ pick.new1 = TRUE
        /\ pick.g2 = Gateway(sky.position2, p[2]) /\ pick.c2 = Interval /\ pick.new2 = TRUE
    BY <2>1 DEF Pick
  <2>4. PickIsSided(pick)
    BY <1>1, <2>2, <2>3, GatewayType DEF PickIsSided, Side
  <2>5. ASSUME PathExists(gateway1, gateway2)
        PROVE  /\ Full1 \/ (Full2 /\ ~PathExists(gateway1, min2))
               /\ Full2 \/ (Full1 /\ ~PathExists(min1, gateway2))
    BY <1>4, <1>6, <2>5
  <2> QED
    BY <2>2, <2>3, <2>4, <2>5
<1> QED
  BY <1>5, <1>6

------------------------------------------------------------------------------
(* The invariant. *)

\* A counter and what it counts.
CountsSince(counter, age, missed) ==
  counter <= age /\ (~missed => age = counter)

Counted == CountsSince(counter1, age1, missed1) /\ CountsSince(counter2, age2, missed2)

IInv == TypeOK /\ Counted

\* One user's share of the invariant, over one cycle.
LEMMA SideCounted ==
  ASSUME NEW counter \in 0..Interval, NEW age \in 0..MaxAge, NEW missed \in BOOLEAN,
         CountsSince(counter, age, missed), NEW gateway \in Gateways,
         NEW g, NEW c, NEW new, Side(g, c, new, gateway, counter)
  PROVE  /\ g \in Gateways /\ Advance(c) \in 0..Interval
         /\ (IF new THEN 0 ELSE Older(age)) \in 0..MaxAge
         /\ (~new /\ (missed \/ counter = Interval)) \in BOOLEAN
         /\ CountsSince(Advance(c), IF new THEN 0 ELSE Older(age),
                        ~new /\ (missed \/ counter = Interval))
<1> USE ConstellationIsSane
<1>1. MaxAge = Interval + 2 /\ Interval \in Nat
  BY DEF MaxAge
<1>2. CASE new = TRUE /\ c = Interval /\ g \in Gateways
  BY <1>1, <1>2 DEF Advance, CountsSince
<1>3. CASE new = FALSE /\ c = counter /\ g = gateway
  BY <1>1, <1>3 DEF Advance, Older, CountsSince
<1> QED
  BY <1>2, <1>3 DEF Side

LEMMA InitInvariant == Init => IInv
<1> SUFFICES ASSUME Init PROVE IInv
  OBVIOUS
<1>1. 0 \in 0..Interval /\ 0 \in 0..MaxAge
  BY ConstellationIsSane DEF MaxAge
<1>2. line.route = << >>
  BY DEF Init, NoLine
<1>3. TypeOK
  BY <1>1, <1>2 DEF Init, TypeOK, Gateways
<1>4. Counted
  BY ConstellationIsSane DEF Init, Counted, CountsSince
<1> QED
  BY <1>3, <1>4 DEF IInv

\* A line names satellites.
LEMMA LineType ==
  ASSUME NEW g1 \in Gateways, NEW g2 \in Gateways, PathExists(g1, g2)
  PROVE  RouteLine(g1, g2).route \in Sats \X Sats
<1>1. g1.sat \in Sats /\ g2.sat \in Sats
  BY PathNeedsSats DEF Gateways, NoGateway
<1> QED
  BY <1>1 DEF RouteLine

LEMMA WriteLineInvariant == ASSUME IInv, WriteLine PROVE IInv'
<1>1. PICK min1 \in MinGateways(sky.position1), min2 \in MinGateways(sky.position2) :
        \E pick \in FinalPicks(FirstPick(min1, min2)) :
          /\ gateway1' = pick.g1 /\ gateway2' = pick.g2
          /\ counter1' = Advance(pick.c1) /\ counter2' = Advance(pick.c2)
          /\ line' = IF PathExists(pick.g1, pick.g2)
                       THEN RouteLine(pick.g1, pick.g2) ELSE NullLine
          /\ Remember(pick)
  BY DEF WriteLine
<1>2. PICK pick \in FinalPicks(FirstPick(min1, min2)) :
        /\ gateway1' = pick.g1 /\ gateway2' = pick.g2
        /\ counter1' = Advance(pick.c1) /\ counter2' = Advance(pick.c2)
        /\ line' = IF PathExists(pick.g1, pick.g2)
                     THEN RouteLine(pick.g1, pick.g2) ELSE NullLine
        /\ Remember(pick)
  BY <1>1
<1>3. TypeOK /\ Counted /\ sky # NoSky /\ sky' = NoSky
  BY DEF IInv, WriteLine
<1>4. PickIsSided(pick)
  BY <1>3, PickSides
<1>5. /\ gateway1' \in Gateways /\ counter1' \in 0..Interval /\ age1' \in 0..MaxAge
      /\ missed1' \in BOOLEAN /\ CountsSince(counter1', age1', missed1')
  BY <1>2, <1>3, <1>4, SideCounted DEF TypeOK, Counted, PickIsSided, Remember, Full1
<1>6. /\ gateway2' \in Gateways /\ counter2' \in 0..Interval /\ age2' \in 0..MaxAge
      /\ missed2' \in BOOLEAN /\ CountsSince(counter2', age2', missed2')
  BY <1>2, <1>3, <1>4, SideCounted DEF TypeOK, Counted, PickIsSided, Remember, Full2
<1>7. line'.route \in {<< >>} \cup Sats \X Sats
  <2>1. pick.g1 \in Gateways /\ pick.g2 \in Gateways
    BY <1>2, <1>5, <1>6
  <2> QED
    BY <1>2, <2>1, LineType DEF NullLine
<1> QED
  BY <1>3, <1>5, <1>6, <1>7 DEF IInv, TypeOK, Counted

LEMMA StepInvariant == IInv /\ [Next]_vars => IInv'
<1> SUFFICES ASSUME IInv, [Next]_vars PROVE IInv'
  OBVIOUS
<1>1. CASE Observe
  BY <1>1 DEF Observe, choice, history, IInv, TypeOK, Counted, CountsSince
<1>2. CASE WriteLine
  BY <1>2, WriteLineInvariant
<1>3. CASE UNCHANGED vars
  BY <1>3 DEF vars, choice, history, IInv, TypeOK, Counted, CountsSince
<1> QED
  BY <1>1, <1>2, <1>3 DEF Next

\* Every reachable state has the inductive invariant.
THEOREM Invariance == Spec => []IInv
  BY InitInvariant, StepInvariant, PTL DEF Spec

------------------------------------------------------------------------------
\* Saved gateways, counters and written routes keep their types, whatever the
\* satellites do.
THEOREM TypeCorrect == Spec => []TypeOK
<1>1. IInv => TypeOK
  BY DEF IInv
<1> QED
  BY <1>1, Invariance, PTL

\* For every interval a written latency is one of the last Interval cycles, or
\* its user has missed a turn.
THEOREM LatencyRecent == Spec => []LatencyIsRecent
<1>1. IInv => LatencyIsRecent
  BY ConstellationIsSane DEF IInv, TypeOK, Counted, CountsSince, LatencyIsRecent
<1> QED
  BY <1>1, Invariance, PTL

\* A cycle without a route is one in which no two satellites in view of the
\* users are connected, for every constellation and history.
THEOREM RouteFound == Spec => NoRouteMissed
<1> DEFINE Found == line' = NullLine /\ sky # NoSky => ConnectedPairs = {}
<1>1. ASSUME IInv, [Next]_vars PROVE [Found]_vars
  <2>1. CASE WriteLine
    <3>0. PICK min1 \in MinGateways(sky.position1), min2 \in MinGateways(sky.position2) :
            \E pick \in FinalPicks(FirstPick(min1, min2)) :
              line' = IF PathExists(pick.g1, pick.g2)
                        THEN RouteLine(pick.g1, pick.g2) ELSE NullLine
      BY <2>1 DEF WriteLine
    <3>1. PICK pick \in FinalPicks(FirstPick(min1, min2)) :
            line' = IF PathExists(pick.g1, pick.g2)
                      THEN RouteLine(pick.g1, pick.g2) ELSE NullLine
      BY <3>0
    <3>2. PathExists(pick.g1, pick.g2) => line' # NullLine
      BY <3>1 DEF RouteLine, NullLine
    <3> QED
      BY <1>1, <2>1, <3>2, PickSides DEF IInv, WriteLine
  <2>2. CASE ~WriteLine
    BY <1>1, <2>2 DEF Next, Observe
  <2> QED
    BY <2>1, <2>2
<1> QED
  BY <1>1, Invariance, PTL DEF Spec, NoRouteMissed

\* No user is handed off before its interval is over without a broken pair
\* that calls for it.
THEOREM HandoffNeeded == Spec => NoNeedlessHandoff
<1> DEFINE Needed ==
      /\ gateway1' # gateway1 =>
           \/ age1 >= Interval
           \/ ~PathExists(gateway1, gateway2)
           \/ \E g \in MinGateways(sky.position2) : Full2 /\ ~PathExists(gateway1, g)
      /\ gateway2' # gateway2 =>
           \/ age2 >= Interval
           \/ ~PathExists(gateway1, gateway2)
           \/ \E g \in MinGateways(sky.position1) : Full1 /\ ~PathExists(g, gateway2)
<1>1. ASSUME IInv, [Next]_vars PROVE [Needed]_vars
  <2>1. CASE WriteLine
    <3>0. PICK min1 \in MinGateways(sky.position1), min2 \in MinGateways(sky.position2) :
            \E pick \in FinalPicks(FirstPick(min1, min2)) :
              gateway1' = pick.g1 /\ gateway2' = pick.g2
      BY <2>1 DEF WriteLine
    <3>1. PICK pick \in FinalPicks(FirstPick(min1, min2)) :
            gateway1' = pick.g1 /\ gateway2' = pick.g2
      BY <3>0
    <3>2. TypeOK /\ Counted /\ sky # NoSky
      BY <1>1, <2>1 DEF IInv, WriteLine
    <3>3. /\ gateway1' # gateway1 => pick.new1
          /\ gateway2' # gateway2 => pick.new2
      BY <3>1, <3>2, PickSides DEF PickIsSided, Side
    <3>4. (Full1 => age1 >= Interval) /\ (Full2 => age2 >= Interval)
      BY <3>2, ConstellationIsSane DEF TypeOK, Counted, CountsSince, Full1, Full2
    <3> QED
      BY <3>2, <3>3, <3>4, PickSides
  <2>2. CASE ~WriteLine
    BY <1>1, <2>2 DEF Next, Observe, choice, vars
  <2> QED
    BY <2>1, <2>2
<1> QED
  BY <1>1, Invariance, PTL DEF Spec, NoNeedlessHandoff
==============================================================================
