------------------------------ MODULE Emulator ------------------------------
(***************************************************************************)
(* update_precomputed_link of emulation_stage/emulator.py: the precomputed *)
(* routes are played back, one line of the file per cycle, on a chain of   *)
(* Hops switches. The handover phase of a cycle is HandoverPools, which    *)
(* links it breaks is decided by LinkDelta.                                *)
(*                                                                         *)
(* A route is the sequence of its switching nodes, without the two user    *)
(* terminals; NoRoute stands for "NULL". Link delays are named, not        *)
(* measured: <<k, h>> is node_delay[h] of cycle k. Time is in ticks, Frame *)
(* of them in a cycle; a cycle's own work takes up to MaxBusy ticks, and   *)
(* what it takes beyond a frame is not caught up. A cycle without a route  *)
(* sleeps a whole frame, and its work of up to MaxCut ticks comes on top.  *)
(***************************************************************************)
EXTENDS Integers, Sequences, FiniteSets, LinkDelta

CONSTANTS
  Hops,         \* intermediate_hop_num
  Cycles,       \* lines in the file
  Routes,       \* the routes a line may hold
  Numberings,   \* what the cycle numbers of the lines may be
  Predictions,  \* what prediction_delays may be, in ticks
  Frame,        \* frame_length, in ticks
  MaxBusy,      \* bound on the time the work of a cycle takes, in ticks
  MaxCut        \* the same for a cycle without a route

NoRoute    == << >>
Lines      == 0..(Cycles - 1)
Negligible == <<-1, -1>>     \* unitialized_bent_pipe_delay
NoDelay    == -1             \* node delay ["NULL"]

ASSUME ParametersAreSane ==
  /\ Hops \in Nat /\ Hops >= 3
  /\ Cycles \in Nat \ {0} /\ Frame \in Nat \ {0}
  /\ MaxBusy \in Nat /\ MaxCut \in Nat
  /\ Predictions \subseteq [Lines -> Int]
  /\ \A r \in Routes : Len(r) \in 1..(Hops - 2)
  /\ Numberings \subseteq [Lines -> Nat]

\* The routes are shortest paths, which visit no node twice.
Nodes == UNION {{r[k] : k \in 1..Len(r)} : r \in Routes}

ASSUME RoutesAreSimple ==
  /\ Routes \subseteq Seq(Nodes)
  /\ \A r \in Routes : \A j, k \in 1..Len(r) : r[j] = r[k] => j = k

VARIABLES
  route, number,        \* per line: the route and the cycle number read
  shift,                \* prediction_delays
  handovers,            \* the list of zeros and ones of the first loop
  pc,                   \* where the main thread is
  index,                \* the cycle being played
  curPath, lastPath,    \* current_routing_path and last_routing_path
  curDelay, lastDelay,  \* the cycles whose node_delay they are
  delay,                \* the delay each link is configured with
  clock,                \* the time at which the current cycle began
  began,                \* the times at which the cycles so far began
  reports,              \* the reports handed to their daemon threads
  phase, marks, ends, i, group1, group2, thread, count, up   \* HandoverPools

inputs   == <<route, number, shift>>
paths    == <<curPath, lastPath, curDelay, lastDelay>>
poolVars == <<phase, marks, ends, i, group1, group2, thread, count, up>>
vars     == <<inputs, handovers, pc, index, paths, delay, clock, began, reports, poolVars>>

Pools == INSTANCE HandoverPools

Links == Pools!Links

\* read_link_info has read the file and sized the chain for its longest
\* route; initialize_link has given every link a negligible delay.
Init ==
  /\ route \in [Lines -> Routes \cup {NoRoute}]
  /\ \E k \in Lines : Len(route[k]) = Hops - 2
  /\ number \in Numberings
  /\ shift \in Predictions
  /\ handovers = <<0>>
  /\ pc = "prepare" /\ index = 0
  /\ curPath = NoRoute /\ lastPath = NoRoute
  /\ curDelay = NoDelay /\ lastDelay = NoDelay
  /\ delay = [l \in Links |-> Negligible]
  /\ clock = 0 /\ began = << >> /\ reports = {}
  /\ Pools!Init

------------------------------------------------------------------------------
(* The first loop: which cycles will have a handover. It works on the same *)
(* globals as the second loop and leaves the paths of the last two lines   *)
(* that both have a route in them.                                         *)

Ingress(r) == r[1]
Egress(r)  == r[Len(r)]
GatewayChange(old, new) == Ingress(new) # Ingress(old) \/ Egress(new) # Egress(old)

PrepareLine ==
  LET k   == Len(handovers)
      new == route[k]
      old == route[k - 1]
  IN  /\ pc = "prepare" /\ k < Cycles
      /\ IF new = NoRoute
           THEN handovers' = Append(handovers, 0) /\ UNCHANGED <<curPath, lastPath, pc>>
         ELSE IF old = NoRoute
           THEN handovers' = Append(handovers, 1) /\ UNCHANGED <<curPath, lastPath, pc>>
         ELSE
           /\ curPath' = new /\ lastPath' = old
           /\ IF GatewayChange(old, new)
                THEN handovers' = Append(handovers, 1) /\ UNCHANGED pc
                ELSE LET d == ComputeLinkDelta(old, new)
                     IN  IF d.raised
                           THEN pc' = "crashed" /\ UNCHANGED handovers
                           ELSE /\ handovers' = Append(handovers, IF d.marks # {} THEN 1 ELSE 0)
                                /\ UNCHANGED pc
      /\ UNCHANGED <<inputs, index, curDelay, lastDelay, delay, clock, began, reports, poolVars>>

EndPrepare ==
  /\ pc = "prepare" /\ Len(handovers) = Cycles
  /\ pc' = "cycle"
  /\ UNCHANGED <<inputs, handovers, index, paths, delay, clock, began, reports, poolVars>>

------------------------------------------------------------------------------
(* The second loop, one cycle after the other.                             *)

WillHandover(t) == handovers[t + 1] = 1

\* Slip: every window reaches up to zero.
EarlyReportsOverlap(k) ==
  {[target |-> k + d, from |-> k, due |-> clock + d * Frame + shift[k + d]] :
     d \in {d \in 1..3 : /\ k + d < Cycles
                         /\ -d * Frame < shift[k + d] /\ shift[k + d] < 0
                         /\ WillHandover(k + d)}}

\* Slip: the sign of the prediction delay.
EarlyReportsSign(k) ==
  {[target |-> k + d, from |-> k, due |-> clock + d * Frame - shift[k + d]] :
     d \in {d \in 1..3 : /\ k + d < Cycles
                         /\ -d * Frame < shift[k + d] /\ shift[k + d] < -(d - 1) * Frame
                         /\ WillHandover(k + d)}}

\* Slip: every line is reported, with a handover or without.
EarlyReportsAlways(k) ==
  {[target |-> k + d, from |-> k, due |-> clock + d * Frame + shift[k + d]] :
     d \in {d \in 1..3 : /\ k + d < Cycles
                         /\ -d * Frame < shift[k + d] /\ shift[k + d] < -(d - 1) * Frame}}

\* Slip: the windows have their early edge in them.
EarlyReportsClosed(k) ==
  {[target |-> k + d, from |-> k, due |-> clock + d * Frame + shift[k + d]] :
     d \in {d \in 1..3 : /\ k + d < Cycles
                         /\ -d * Frame <= shift[k + d] /\ shift[k + d] < -(d - 1) * Frame
                         /\ WillHandover(k + d)}}

\* The three windows for reports that are sent ahead of their handover: a
\* prediction that is early by up to d frames is handled d cycles ahead.
EarlyReports(k) ==
  {[target |-> k + d, from |-> k, due |-> clock + d * Frame + shift[k + d]] :
     d \in {d \in 1..3 : /\ k + d < Cycles
                         /\ -d * Frame < shift[k + d] /\ shift[k + d] < -(d - 1) * Frame
                         /\ WillHandover(k + d)}}

\* A report that is late is started together with its handover.
LateReport(k) ==
  IF shift[k] >= 0
    THEN {[target |-> k, from |-> k, due |-> clock + shift[k]]} ELSE {}

WrongNumber ==
  /\ pc = "cycle" /\ number[index] # index + 1
  /\ pc' = "returned"
  /\ UNCHANGED <<inputs, handovers, index, paths, delay, clock, began, reports, poolVars>>

RightNumber == pc = "cycle" /\ number[index] = index + 1

SetFirstLink(status) ==
  up' = [x \in DOMAIN up |-> IF x[1] = 0 THEN status ELSE up[x]]

\* Slip: the last known route and delays are kept.
LoseServiceKeepPath ==
  /\ RightNumber /\ route[index] = NoRoute
  /\ began' = Append(began, clock)
  /\ reports' = reports \cup EarlyReports(index)
  /\ SetFirstLink(FALSE)
  /\ \E busy \in 0..MaxCut : clock' = clock + busy + Frame
  /\ pc' = "asleep"
  /\ UNCHANGED <<inputs, handovers, index, paths, delay,
                 phase, marks, ends, i, group1, group2, thread, count>>

\* No route: the first link is taken down and then a whole frame slept, from
\* which the time that has passed is not deducted.
LoseService ==
  /\ RightNumber /\ route[index] = NoRoute
  /\ began' = Append(began, clock)
  /\ reports' = reports \cup EarlyReports(index)
  /\ curPath' = NoRoute /\ curDelay' = NoDelay
  /\ SetFirstLink(FALSE)
  /\ \E busy \in 0..MaxCut : clock' = clock + busy + Frame
  /\ pc' = "asleep"
  /\ UNCHANGED <<inputs, handovers, index, lastPath, lastDelay, delay,
                 phase, marks, ends, i, group1, group2, thread, count>>

\* Which users change their gateway satellite (lines 310-332).
EndHandovers(old, new, oldDelay) ==
  IF oldDelay = NoDelay
    THEN Pools!EndLinks
    ELSE {l \in Pools!EndLinks : \/ l = 0 /\ Ingress(new) # Ingress(old)
                                 \/ l = Hops - 2 /\ Egress(new) # Egress(old)}

TakeRoute ==
  LET new == route[index]
      d   == ComputeLinkDelta(curPath, new)
      e   == EndHandovers(curPath, new, curDelay)
  IN  /\ RightNumber /\ new # NoRoute
      /\ began' = Append(began, clock)
      /\ lastPath' = curPath /\ lastDelay' = curDelay
      /\ curPath' = new /\ curDelay' = index
      /\ SetFirstLink(TRUE)
      /\ IF d.raised
           THEN /\ pc' = "crashed"
                /\ reports' = reports \cup EarlyReports(index)
                /\ UNCHANGED <<phase, marks, ends, i, group1, group2, thread, count>>
           ELSE /\ pc' = "handover"
                /\ reports' = reports \cup EarlyReports(index)
                                \cup (IF d.marks \cup e # {} THEN LateReport(index) ELSE {})
                /\ phase' = "grouping" /\ marks' = d.marks /\ ends' = e
                /\ i' = 0 /\ group1' = << >> /\ group2' = << >>
                /\ thread' = [l \in Links |-> "none"]
                /\ count' = [l \in Links |-> 0]
      /\ UNCHANGED <<inputs, handovers, index, delay, clock>>

Handover ==
  /\ pc = "handover"
  /\ Pools!Step
  /\ UNCHANGED <<inputs, handovers, pc, index, paths, delay, clock, began, reports>>

\* set_link_properties on the two end links, on the links of the route, and
\* on the dummy links that the route leaves over (lines 366-382).
\* Slip: the first dummy link is skipped.
DummyLinksShort(r) == (Len(r) + 1)..(Hops - 3)

RouteLinks(r) == 1..(Len(r) - 1)
DummyLinks(r) == Len(r)..(Hops - 3)

\* Slip: the delay after the last one of the route.
NewDelayOver(l) ==
  IF l = Hops - 2 THEN <<index, Len(curPath) + 1>>
  ELSE IF l = 0 \/ l \in RouteLinks(curPath) THEN <<index, l>>
  ELSE Negligible

\* Slip: the first user's link is left as it is.
ConfiguredNotFirst == {Hops - 2} \cup RouteLinks(curPath) \cup DummyLinks(curPath)

NewDelay(l) ==
  IF l = Hops - 2 THEN <<index, Len(curPath)>>
  ELSE IF l = 0 \/ l \in RouteLinks(curPath) THEN <<index, l>>
  ELSE IF l \in DummyLinks(curPath) THEN Negligible
  ELSE delay[l]

Configured == {0, Hops - 2} \cup RouteLinks(curPath) \cup DummyLinks(curPath)

Later(a, b) == IF a < b THEN b ELSE a

Reconfigure ==
  /\ pc = "handover" /\ phase = "joined"
  /\ phase' = "idle"
  /\ up' = [x \in DOMAIN up |-> IF x[1] \in Configured THEN TRUE ELSE up[x]]
  /\ delay' = [l \in Links |-> NewDelay(l)]
  /\ \E busy \in 0..MaxBusy : clock' = clock + Later(Frame, busy)
  /\ pc' = "asleep"
  /\ UNCHANGED <<inputs, handovers, index, paths, began, reports,
                 marks, ends, i, group1, group2, thread, count>>

\* Slip: the last line is never finished.
WakeNotLast ==
  /\ pc = "asleep" /\ index + 1 < Cycles
  /\ index' = index + 1
  /\ pc' = "cycle"
  /\ UNCHANGED <<inputs, handovers, paths, delay, clock, began, reports, poolVars>>

Wake ==
  /\ pc = "asleep"
  /\ index' = index + 1
  /\ pc' = IF index + 1 < Cycles THEN "cycle" ELSE "done"
  /\ UNCHANGED <<inputs, handovers, paths, delay, clock, began, reports, poolVars>>

Next ==
  \/ PrepareLine
  \/ EndPrepare
  \/ WrongNumber
  \/ LoseService
  \/ TakeRoute
  \/ Handover
  \/ Reconfigure
  \/ Wake

Spec == Init /\ [][Next]_vars

\* One process that nothing but its own threads holds up.
FairSpec == Spec /\ WF_vars(Next)
------------------------------------------------------------------------------
TypeOK ==
  /\ route \in [Lines -> Routes \cup {NoRoute}]
  /\ number \in Numberings
  /\ shift \in Predictions
  /\ handovers \in Seq({0, 1}) /\ Len(handovers) \in 1..Cycles
  /\ pc \in {"prepare", "cycle", "handover", "asleep", "done", "returned", "crashed"}
  /\ index \in 0..Cycles
  /\ {curPath, lastPath} \subseteq Routes \cup {NoRoute}
  /\ {curDelay, lastDelay} \subseteq Lines \cup {NoDelay}
  /\ delay \in [Links -> (Lines \X (0..(Hops - 2))) \cup {Negligible}]
  /\ clock \in Nat
  /\ began \in Seq(Nat) /\ Len(began) \in index..(index + 1)
  /\ \A r \in reports : r.target \in Lines /\ r.from \in Lines
  /\ Pools!TypeOK

Valid(k) == route[k] # NoRoute

\* What the cycle of line k may take beyond a frame, and how much the cycles
\* f..t-1 may come to: all that a cycle without a route does, and what does
\* not fit into a frame of the others.
Excess(k) == IF Valid(k) THEN Later(0, MaxBusy - Frame) ELSE MaxCut

MayLose(f, t) ==
  LET cut == Cardinality({k \in f..(t - 1) : ~Valid(k)})
  IN  cut * MaxCut + (t - f - cut) * Later(0, MaxBusy - Frame)

Breaking == marks \cup ends # {}

\* While a cycle sleeps the network is what its line says: without a route
\* the users are cut off, and with one every link is up, whatever became of
\* the handovers, and the delays along the chain are those of the route, in
\* their order, each exactly once (lines 292-297, 366-382).
NetworkFollowsFile ==
  pc = "asleep" =>
    IF ~Valid(index)
      THEN ~up[<<0, 1>>] /\ ~up[<<0, 2>>]
      ELSE /\ \A x \in DOMAIN up : up[x]
           /\ LET real == {l \in Links : delay[l] # Negligible}
              IN  /\ Cardinality(real) = Len(route[index]) + 1
                  /\ \A l \in real :
                       delay[l] = <<index, Cardinality({k \in real : k < l})>>

\* The list of handovers made before the emulation starts agrees with what
\* the cycles do: both users' handovers and the intermediate ones
\* (lines 232-255 against 302-344). The first cycle is left out.
PredictionsMatch ==
  pc = "handover" /\ index >= 1 => (WillHandover(index) <=> Breaking)

\* What is sent to the relay is true and sent once: one report at most for
\* a cycle, and none for a cycle that breaks nothing.
ReportsAreTrue ==
  /\ \A r, s \in reports : r.target = s.target => r = s
  /\ \A r \in reports : pc = "handover" /\ r.target = index => Breaking

\* A report is due as long before or after its handover as was drawn, but the
\* time that the cycles between have taken beyond their frames makes it earlier,
\* and nothing else does: the wait is fixed when the report is started (lines
\* 272-289), and a cycle without a route is always late (line 293).
ReportsOnTime ==
  \A r \in reports : r.target < Len(began) =>
    LET planned == began[r.target + 1] + shift[r.target]
    IN  r.due <= planned /\ planned - MayLose(r.from, r.target) <= r.due

\* Predictions for which some window exists at cycle k: early by no more
\* frames than there have been cycles, at most three, and by no whole number
\* of them.
HasWindow(k) ==
  \/ shift[k] >= 0
  \/ /\ shift[k] > -Frame * (IF k < 3 THEN k ELSE 3)
     /\ shift[k] % Frame # 0

\* A handover is reported if a window exists for it, and then only: one that
\* was drawn early by whole frames falls between two windows, however many
\* cycles it has gone through (lines 269-289, 346-350).
HandoversAreReported ==
  pc = "handover" /\ Breaking =>
    (HasWindow(index) <=> \E r \in reports : r.target = index)

\* Playing the file ends: all its lines are played, or a wrong cycle number
\* or an exception stops it; the joins and sleeps all return.
PlaybackEnds == <>(pc \in {"done", "returned", "crashed"})

------------------------------------------------------------------------------
\* emulation_stage/README.md: "The emulation process lasts for one orbital
\* period, which is embodied as the number of data points in the precomputed
\* routes".
NeverCrashes == pc # "crashed"

==============================================================================
