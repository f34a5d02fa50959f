-------------------------- MODULE Emulator_proofs --------------------------
(***************************************************************************)
(* Proofs about the playback, for every file and every chain, and about    *)
(* SaTCP from end to end, which plays it on a running clock.               *)
(*                                                                         *)
(* EInv says where the main thread is in the file (Position), what it      *)
(* remembers of the line before (PathKept), that the list of the first     *)
(* loop is true (ListMade), that the handover phase is as                  *)
(* HandoverPools_proofs describes it (PhaseKept), how long a cycle lasts   *)
(* (ClockKept), and in which window each report was started (ReportsKept,  *)
(* AllReported). RelayInv adds the relay: which reports have been sent.    *)
(***************************************************************************)
EXTENDS Inhibition, FiniteSetTheorems, TLAPS

\* The handover phase has been proved about on its own, and so has the function
\* that finds the broken links, of which no route is needed here.
Phase == INSTANCE HandoverPools_proofs
Loop  == INSTANCE LinkDeltaScan_proofs
           WITH Nodes <- {}, OldPaths <- {}, NewPaths <- {},
                old <- << >>, new <- << >>, i <- 0, scan <- ScanStart

------------------------------------------------------------------------------
(* What compute_link_delta returns. *)

\* The function is the one that has been proved about.
LEMMA SameDelta ==
  ASSUME NEW old, NEW new
  PROVE  ComputeLinkDelta(old, new) = Loop!ComputeLinkDelta(old, new)
  BY DEF ComputeLinkDelta, LoopBody, Mark, ScanStart, Contains, IndexOf,
         Loop!ComputeLinkDelta, Loop!LoopBody, Loop!Mark, Loop!ScanStart,
         Loop!Contains, Loop!IndexOf

\* compute_link_delta marks links between the nodes of the new route.
LEMMA DeltaType ==
  ASSUME NEW old, NEW new, Len(new) \in Nat \ {0}
  PROVE  LET d == ComputeLinkDelta(old, new)
         IN  /\ d.marks \subseteq 1..(Len(new) - 1) /\ d.raised \in BOOLEAN
             /\ d.raised => Len(new) = 1
  BY SameDelta, Loop!DeltaType

------------------------------------------------------------------------------
(* The invariant. *)

\* Line k has a handover: the user terminals get or change their satellites,
\* or the route between these changes (lines 232-255).
Planned(k) ==
  /\ Valid(k)
  /\ \/ ~Valid(k - 1)
     \/ GatewayChange(route[k - 1], route[k])
     \/ ComputeLinkDelta(route[k - 1], route[k]).marks # {}

\* The list made before the emulation says so.
ListMade ==
  /\ \A k \in 1..(Len(handovers) - 1) : WillHandover(k) <=> Planned(k)
  /\ pc \notin {"prepare", "crashed"} => Len(handovers) = Cycles

\* How many cycles have begun.
Position ==
  /\ pc = "prepare" => index = 0 /\ began = << >> /\ reports = {}
  /\ pc = "cycle" => index < Cycles /\ Len(began) = index
  /\ pc \in {"handover", "asleep"} => index < Cycles /\ Len(began) = index + 1
  /\ pc = "done" => index = Cycles /\ Len(began) = index

\* What the second loop remembers of the line it played last.
DelayOf(k) == IF Valid(k) THEN k ELSE NoDelay

PathKept ==
  /\ pc = "prepare" => curDelay = NoDelay
  /\ pc = "cycle" /\ index = 0 => curDelay = NoDelay
  /\ pc = "cycle" /\ index # 0 =>
       curPath = route[index - 1] /\ curDelay = DelayOf(index - 1)
  /\ pc \in {"handover", "asleep"} =>
       curPath = route[index] /\ curDelay = DelayOf(index)

\* The handover phase runs within a cycle, with every link up at its start.
PhaseKept ==
  /\ Phase!PhaseInv
  /\ phase = "idle" <=> pc # "handover"
  /\ phase = "idle" => \A x \in Links \X {1, 2} : x[1] # 0 => up[x]
  /\ pc = "handover" => Valid(index) /\ (Breaking <=> index = 0 \/ Planned(index))

\* The cycle of line k takes a frame, and what its work takes longer.
CycleLasts(k, t) == Frame <= t /\ t <= Frame + Excess(k)

ClockKept ==
  /\ \A m \in 1..(Len(began) - 1) : CycleLasts(m - 1, began[m + 1] - began[m])
  /\ pc = "handover" => clock = began[index + 1]
  /\ pc = "cycle" /\ index # 0 => CycleLasts(index - 1, clock - began[index])
  /\ pc = "asleep" => CycleLasts(index, clock - began[index + 1])

\* A report for cycle t can be started d cycles ahead in one window only.
InWindow(t, d) == -d * Frame < shift[t] /\ shift[t] < -(d - 1) * Frame

DueOf(f, t) == began[f + 1] + (t - f) * Frame + shift[t]

EarlyKept(r) ==
  /\ r.target - r.from \in 1..3 /\ InWindow(r.target, r.target - r.from)
  /\ WillHandover(r.target) /\ Planned(r.target) /\ Valid(r.target)

LateKept(r) ==
  /\ r.target = r.from /\ shift[r.target] >= 0 /\ Valid(r.target)
  /\ r.target = 0 \/ Planned(r.target)

ReportsKept ==
  \A r \in reports :
    /\ r = [target |-> r.target, from |-> r.from, due |-> DueOf(r.from, r.target)]
    /\ r.target \in Lines /\ r.from \in 0..(Len(began) - 1)
    /\ EarlyKept(r) \/ LateKept(r)

\* Every window that has been passed was used.
AllReported ==
  /\ \A t \in Lines, d \in 1..3 :
       t - d \in 0..(Len(began) - 1) /\ InWindow(t, d) /\ WillHandover(t) =>
         \E r \in reports : r.target = t
  /\ pc = "handover" /\ Breaking /\ shift[index] >= 0 => \E r \in reports : r.target = index

EInv ==
  /\ TypeOK /\ ListMade /\ Position /\ PathKept /\ PhaseKept /\ ClockKept
  /\ ReportsKept /\ AllReported /\ NetworkFollowsFile
------------------------------------------------------------------------------
(* What the constants and the types give. *)

LEMMA Sizes ==
  /\ Hops \in Nat /\ Hops >= 3 /\ Links = 0..(Hops - 2)
  /\ Cycles \in Nat \ {0} /\ Frame \in Nat \ {0} /\ MaxBusy \in Nat /\ MaxCut \in Nat
  BY ParametersAreSane DEF Links, Pools!Links

LEMMA ExcessType == \A k : Excess(k) \in Nat
  BY Sizes DEF Excess, Later

LEMMA ValidRoute ==
  ASSUME TypeOK, NEW k \in Lines, Valid(k)
  PROVE  route[k] \in Routes /\ Len(route[k]) \in 1..(Hops - 2)
                             /\ Len(route[k]) \in Nat \ {0}
  BY ParametersAreSane DEF TypeOK, Valid

LEMMA InputTypes ==
  ASSUME TypeOK
  PROVE  /\ \A k \in Lines : shift[k] \in Int
         /\ \A k \in 0..(Len(began) - 1) : began[k + 1] \in Nat
         /\ clock \in Nat /\ index \in Nat /\ Len(began) \in Nat
         /\ Len(handovers) \in Nat
<1>1. \A k \in Lines : shift[k] \in Int
  BY ParametersAreSane DEF TypeOK
<1>2. began \in Seq(Nat) /\ handovers \in Seq({0, 1}) /\ clock \in Nat /\ index \in Nat
  BY Sizes DEF TypeOK
<1>3. Len(began) \in Nat /\ Len(handovers) \in Nat
  BY <1>2
<1>4. \A k \in 0..(Len(began) - 1) : began[k + 1] \in Nat
  <2> TAKE k \in 0..(Len(began) - 1)
  <2>1. k + 1 \in 1..Len(began)
    BY <1>3
  <2> QED
    BY <1>2, <2>1
<1> QED
  BY <1>1, <1>2, <1>3, <1>4

\* What is marked lies between two satellites.
LEMMA MarksFit ==
  ASSUME TypeOK, NEW old, NEW k \in Lines, Valid(k)
  PROVE  LET d == ComputeLinkDelta(old, route[k])
         IN  d.marks \in SUBSET Phase!Interior /\ d.raised \in BOOLEAN
<1>1. Len(route[k]) \in Nat \ {0} /\ Len(route[k]) <= Hops - 2
  BY ValidRoute, Sizes
<1>2. 1..(Len(route[k]) - 1) \subseteq 1..(Hops - 3)
  BY <1>1, Sizes
<1> QED
  BY <1>1, <1>2, DeltaType DEF Phase!Interior

\* A user hands over when it gets a satellite and when its satellite changes.
LEMMA EndsFacts ==
  ASSUME NEW old, NEW new, NEW known
  PROVE  LET e == EndHandovers(old, new, known)
         IN  /\ e \in SUBSET Phase!EndLinks
             /\ e # {} <=> known = NoDelay \/ GatewayChange(old, new)
  BY Sizes DEF EndHandovers, GatewayChange, Pools!EndLinks, Phase!EndLinks

\* The phase as Emulator instantiates it is the one that was proved about.
LEMMA SamePhase ==
  /\ Phase!PhaseInv => Pools!TypeOK
  /\ Pools!Init => Phase!Init
  /\ Pools!Step => Phase!Step
<1>1. Phase!PhaseInv => Pools!TypeOK
  BY DEF Phase!PhaseInv, Phase!TypeOK, Pools!TypeOK, Phase!Interior, Pools!Interior,
         Phase!EndLinks, Pools!EndLinks, Phase!Links, Pools!Links, Phase!Sides, Pools!Sides
<1>2. Pools!Init => Phase!Init
  BY DEF Phase!Init, Pools!Init, Phase!AllUp, Pools!AllUp, Phase!Links, Pools!Links,
         Phase!Sides, Pools!Sides
<1>3. Pools!Step => Phase!Step
  <2>0. Phase!Links = Pools!Links
    BY DEF Phase!Links, Pools!Links
  <2>1. Pools!GroupLink => Phase!GroupLink
    BY DEF Phase!GroupLink, Pools!GroupLink, Phase!LastOf, Pools!LastOf
  <2>6. \A nodes : Pools!Submit(nodes) = Phase!Submit(nodes)
    BY <2>0 DEF Phase!Submit, Pools!Submit
  <2>7. Pools!Joined = Phase!Joined
    BY <2>0 DEF Phase!Joined, Pools!Joined, Phase!Live, Pools!Live
  <2>8. /\ Pools!StartPool1 => Phase!StartPool1
        /\ Pools!StartPool2 => Phase!StartPool2
        /\ Pools!StartEnds => Phase!StartEnds
        /\ Pools!JoinEnds => Phase!JoinEnds
    BY <2>6, <2>7 DEF Phase!StartPool1, Pools!StartPool1, Phase!StartPool2, Pools!StartPool2,
           Phase!StartEnds, Pools!StartEnds, Phase!JoinEnds, Pools!JoinEnds,
           Phase!Range, Pools!Range
  <2>2. \A l : Pools!ShellOf(l) = Phase!ShellOf(l)
    BY DEF Phase!ShellOf, Pools!ShellOf, Phase!SwitchOf, Pools!SwitchOf,
           Phase!SideOf, Pools!SideOf
  <2>3. \A l : Pools!ShellBusy(l) = Phase!ShellBusy(l)
    BY <2>0, <2>2 DEF Phase!ShellBusy, Pools!ShellBusy
  <2>4. \A l : Pools!StartCommand(l) => Phase!StartCommand(l)
    BY <2>3 DEF Phase!StartCommand, Pools!StartCommand
  <2>5. \A l : Pools!FinishCommand(l) => Phase!FinishCommand(l)
    BY DEF Phase!FinishCommand, Pools!FinishCommand, Phase!SideOf, Pools!SideOf,
           Phase!UpAfter, Pools!UpAfter
  <2> QED
    BY <2>0, <2>1, <2>4, <2>5, <2>8 DEF Phase!Step, Pools!Step
<1> QED
  BY <1>1, <1>2, <1>3

\* It stays as it is while nothing of it is touched.
LEMMA PhaseUntouched ==
  ASSUME Phase!PhaseInv, UNCHANGED poolVars
  PROVE  Phase!PhaseInv'
  BY DEF poolVars, Phase!PhaseInv, Phase!TypeOK, Phase!Grouping, Phase!Staging,
         Phase!Progress, Phase!Company, Phase!Live, Phase!LastOf

\* The windows: three of them, one before the other.
LEMMA Multiples ==
  /\ 1 * Frame = Frame /\ 2 * Frame = Frame + Frame /\ 3 * Frame = Frame + Frame + Frame
  /\ 0 * Frame = 0
  BY Sizes

LEMMA OneWindow ==
  ASSUME TypeOK, NEW t \in Lines, NEW d \in 1..3, InWindow(t, d)
  PROVE  /\ shift[t] \in Int /\ shift[t] < 0
         /\ \A e \in 1..3 : InWindow(t, e) => e = d
<1>1. shift[t] \in Int
  BY InputTypes
<1>2. shift[t] < 0
  BY <1>1, Multiples, Sizes DEF InWindow
<1>3. \A e \in 1..3 : InWindow(t, e) => e = d
  BY <1>1, Multiples, Sizes DEF InWindow
<1> QED
  BY <1>1, <1>2, <1>3
------------------------------------------------------------------------------
(* Steps that leave the reports, or the list, alone. *)

LEMMA ReportsStay ==
  ASSUME ReportsKept, AllReported, UNCHANGED <<route, shift, handovers, began, reports>>,
         pc' = "handover" => pc = "handover" /\ index' = index /\ (Breaking' <=> Breaking)
  PROVE  ReportsKept' /\ AllReported'
<1>1. /\ \A t, d : InWindow(t, d)' <=> InWindow(t, d)
      /\ \A f, t : DueOf(f, t)' = DueOf(f, t)
      /\ \A t : /\ (WillHandover(t)' <=> WillHandover(t)) /\ (Valid(t)' <=> Valid(t))
                /\ Planned(t)' <=> Planned(t)
  BY DEF InWindow, DueOf, WillHandover, Valid, Planned
<1>2. \A r : EarlyKept(r) => EarlyKept(r)'
  BY <1>1 DEF EarlyKept
<1>3. \A r : LateKept(r) => LateKept(r)'
  BY <1>1 DEF LateKept
<1>4. ReportsKept'
  BY <1>1, <1>2, <1>3 DEF ReportsKept
<1>5. AllReported'
  BY <1>1 DEF AllReported
<1> QED
  BY <1>4, <1>5

LEMMA ListStays ==
  ASSUME ListMade, UNCHANGED <<route, handovers>>,
         pc' \notin {"prepare", "crashed"} => Len(handovers) = Cycles
  PROVE  ListMade'
  BY DEF ListMade, WillHandover, Planned, Valid

LEMMA ClockStays ==
  ASSUME ClockKept, UNCHANGED <<route, clock, began, index>>,
         pc' \in {"handover", "cycle", "asleep"} => pc' = pc
  PROVE  ClockKept'
  BY DEF ClockKept, CycleLasts, Excess, Valid

\* A line is added to the list.
LEMMA ListGrows ==
  ASSUME TypeOK, ListMade, NEW v \in {0, 1}, handovers' = Append(handovers, v),
         pc' = "prepare", UNCHANGED route, v = 1 <=> Planned(Len(handovers))
  PROVE  ListMade'
<1>1. handovers \in Seq({0, 1}) /\ Len(handovers) \in Nat
  BY DEF TypeOK
<1>2. Len(handovers') = Len(handovers) + 1
  BY <1>1
<1>3. \A k \in 1..(Len(handovers) - 1) : handovers'[k + 1] = handovers[k + 1]
  <2> TAKE k \in 1..(Len(handovers) - 1)
  <2>1. k + 1 \in 1..Len(handovers)
    BY <1>1
  <2> QED
    BY <1>1, <2>1
<1>4. handovers'[Len(handovers) + 1] = v
  BY <1>1
<1>5. \A k : Planned(k)' <=> Planned(k)
  BY DEF Planned, Valid
<1>6. ASSUME NEW k \in 1..(Len(handovers') - 1) PROVE WillHandover(k)' <=> Planned(k)'
  <2>1. k \in 1..(Len(handovers) - 1) \/ k = Len(handovers)
    BY <1>1, <1>2
  <2> QED
    BY <1>3, <1>4, <1>5, <2>1 DEF ListMade, WillHandover
<1> QED
  BY <1>6 DEF ListMade

------------------------------------------------------------------------------
(* The first loop. *)

LEMMA EmulatorInit == Init => EInv
<1> SUFFICES ASSUME Init PROVE EInv
  OBVIOUS
<1>1. Phase!IInv
  BY ParametersAreSane, SamePhase, Phase!InitInvariant DEF Init
<1>2. Phase!PhaseInv /\ phase = "idle" /\ up = Phase!AllUp
  BY <1>1, SamePhase DEF Init, Phase!IInv, Phase!Init
<1>3. TypeOK
  <2>1. handovers \in Seq({0, 1}) /\ Len(handovers) = 1
    BY DEF Init
  <2>2. began \in Seq(Nat) /\ Len(began) = 0 /\ index = 0
    BY DEF Init
  <2>3. Pools!TypeOK
    BY <1>2, SamePhase
  <2> QED
    BY <2>1, <2>2, <2>3, Sizes DEF Init, TypeOK
<1>4. ListMade /\ Position /\ PathKept /\ ClockKept
  <2>1. Len(handovers) = 1 /\ Len(began) = 0
    BY DEF Init
  <2> QED
    BY <2>1 DEF Init, ListMade, Position, PathKept, ClockKept
<1>5. PhaseKept
  BY <1>2, Sizes DEF Init, PhaseKept, Phase!AllUp, Phase!Links, Phase!Sides
<1>6. ReportsKept /\ AllReported /\ NetworkFollowsFile
  <2>1. Len(began) = 0 /\ reports = {} /\ pc = "prepare"
    BY DEF Init
  <2>2. \A t \in Lines, d \in 1..3 : ~(t - d \in 0..(Len(began) - 1))
    BY <2>1
  <2> QED
    BY <2>1, <2>2 DEF ReportsKept, AllReported, NetworkFollowsFile
<1> QED
  BY <1>3, <1>4, <1>5, <1>6 DEF EInv

LEMMA PrepareLineInvariant ==
  ASSUME EInv, PrepareLine
  PROVE  EInv'
<1> DEFINE k == Len(handovers)
           new == route[k]
           old == route[k - 1]
           d == ComputeLinkDelta(old, new)
<1>1. TypeOK /\ ListMade /\ Position /\ PhaseKept /\ ReportsKept /\ AllReported
  BY DEF EInv
<1>2. /\ pc = "prepare" /\ k < Cycles
      /\ UNCHANGED <<inputs, index, curDelay, lastDelay, delay, clock, began, reports, poolVars>>
      /\ pc' \in {"prepare", "crashed"}
  BY DEF PrepareLine
<1>3. k \in Lines /\ k - 1 \in Lines /\ k \in 1..Cycles
  BY <1>1, <1>2, Sizes DEF TypeOK, Lines
<1>4. \/ UNCHANGED <<curPath, lastPath>>
      \/ curPath' = new /\ lastPath' = old
  BY DEF PrepareLine
<1>5. ListMade'
  <2>1. CASE new = NoRoute
    <3>1. handovers' = Append(handovers, 0) /\ pc' = "prepare" /\ UNCHANGED route
      BY <1>2, <2>1 DEF PrepareLine, inputs
    <3>2. ~Planned(k)
      BY <2>1 DEF Planned, Valid
    <3> QED
      BY <1>1, <3>1, <3>2, ListGrows
  <2>2. CASE new # NoRoute /\ old = NoRoute
    <3>1. handovers' = Append(handovers, 1) /\ pc' = "prepare" /\ UNCHANGED route
      BY <1>2, <2>2 DEF PrepareLine, inputs
    <3>2. Planned(k)
      BY <2>2 DEF Planned, Valid
    <3> QED
      BY <1>1, <3>1, <3>2, ListGrows
  <2>3. CASE new # NoRoute /\ old # NoRoute /\ GatewayChange(old, new)
    <3>1. handovers' = Append(handovers, 1) /\ pc' = "prepare" /\ UNCHANGED route
      BY <1>2, <2>3 DEF PrepareLine, inputs
    <3>2. Planned(k)
      BY <2>3 DEF Planned, Valid
    <3> QED
      BY <1>1, <3>1, <3>2, ListGrows
  <2>4. CASE new # NoRoute /\ old # NoRoute /\ ~GatewayChange(old, new) /\ ~d.raised
    <3> DEFINE v == IF d.marks # {} THEN 1 ELSE 0
    <3>1. handovers' = Append(handovers, v) /\ pc' = "prepare" /\ UNCHANGED route
      BY <1>2, <2>4 DEF PrepareLine, inputs
    <3>2. v \in {0, 1} /\ (v = 1 <=> Planned(k))
      BY <2>4 DEF Planned, Valid
    <3> HIDE DEF v
    <3> QED
      BY <1>1, <3>1, <3>2, ListGrows
  <2>5. CASE new # NoRoute /\ old # NoRoute /\ ~GatewayChange(old, new) /\ d.raised
    <3>1. UNCHANGED <<handovers, route>> /\ pc' = "crashed"
      BY <1>2, <2>5 DEF PrepareLine, inputs
    <3> QED
      BY <1>1, <3>1, ListStays
  <2> QED
    BY <2>1, <2>2, <2>3, <2>4, <2>5
<1>6. TypeOK'
  <2>1. \/ handovers' = handovers
        \/ handovers' = Append(handovers, 0)
        \/ handovers' = Append(handovers, 1)
    BY DEF PrepareLine
  <2>2. handovers' \in Seq({0, 1}) /\ Len(handovers') \in 1..Cycles
    <3>1. handovers \in Seq({0, 1}) /\ k \in Nat /\ k + 1 \in 1..Cycles
      BY <1>1, <1>2, <1>3, Sizes DEF TypeOK
    <3>2. ASSUME NEW v \in {0, 1}, handovers' = Append(handovers, v)
          PROVE  handovers' \in Seq({0, 1}) /\ Len(handovers') = k + 1
      BY <3>1, <3>2
    <3> QED
      BY <1>3, <2>1, <3>1, <3>2
  <2>3. {curPath', lastPath'} \subseteq Routes \cup {NoRoute}
    BY <1>1, <1>3, <1>4 DEF TypeOK
  <2>4. Phase!PhaseInv'
    BY <1>1, <1>2, PhaseUntouched DEF PhaseKept
  <2>5. Pools!TypeOK'
    BY <2>4, SamePhase, PTL
  <2> QED
    BY <1>1, <1>2, <2>2, <2>3, <2>5 DEF TypeOK, inputs
<1>7. Position' /\ PathKept'
  BY <1>2 DEF EInv, Position, PathKept
<1>8. PhaseKept'
  <2>1. Phase!PhaseInv'
    BY <1>1, <1>2, PhaseUntouched DEF PhaseKept
  <2> QED
    BY <1>1, <1>2, <2>1 DEF PhaseKept, poolVars
<1>9. ClockKept'
  BY <1>2, ClockStays DEF EInv, inputs
<1>10. ReportsKept' /\ AllReported'
  <2>1. reports' = {} /\ began' = << >> /\ pc' # "handover" /\ Len(began') = 0
    BY <1>1, <1>2 DEF Position
  <2>2. \A t \in Lines, e \in 1..3 : ~(t - e \in 0..(Len(began') - 1))
    BY <2>1
  <2> QED
    BY <2>1, <2>2 DEF ReportsKept, AllReported
<1>11. NetworkFollowsFile'
  BY <1>2 DEF NetworkFollowsFile
<1> QED
  BY <1>5, <1>6, <1>7, <1>8, <1>9, <1>10, <1>11 DEF EInv

\* What the steps of the main thread leave alone.
LEMMA TypesStay ==
  ASSUME TypeOK, Phase!PhaseInv',
         UNCHANGED <<inputs, handovers, index, delay, began, reports>>,
         clock' \in Nat, UNCHANGED paths,
         pc' \in {"prepare", "cycle", "handover", "asleep", "done", "returned", "crashed"}
  PROVE  TypeOK'
<1>1. Pools!TypeOK'
  BY SamePhase, PTL
<1> QED
  BY <1>1 DEF TypeOK, inputs, paths

LEMMA EndPrepareInvariant ==
  ASSUME EInv, EndPrepare
  PROVE  EInv'
<1>1. /\ pc = "prepare" /\ pc' = "cycle" /\ Len(handovers) = Cycles
      /\ UNCHANGED <<inputs, handovers, index, paths, delay, clock, began, reports, poolVars>>
  BY DEF EndPrepare
<1>2. index = 0 /\ began = << >> /\ curDelay = NoDelay /\ Len(began) = 0
  BY <1>1 DEF EInv, Position, PathKept
<1>3. Phase!PhaseInv'
  BY <1>1, PhaseUntouched DEF EInv, PhaseKept
<1>4. TypeOK'
  BY <1>1, <1>3, TypesStay, InputTypes DEF EInv
<1>5. ListMade'
  BY <1>1, ListStays DEF EInv, inputs
<1>6. Position' /\ PathKept' /\ ClockKept' /\ NetworkFollowsFile'
  BY <1>1, <1>2, Sizes DEF Position, PathKept, ClockKept, paths, NetworkFollowsFile
<1>7. PhaseKept'
  BY <1>1, <1>3 DEF EInv, PhaseKept, poolVars
<1>8. ReportsKept' /\ AllReported'
  BY <1>1, ReportsStay DEF EInv, inputs
<1> QED
  BY <1>4, <1>5, <1>6, <1>7, <1>8 DEF EInv

------------------------------------------------------------------------------
(* The second loop. *)

LEMMA WrongNumberInvariant ==
  ASSUME EInv, WrongNumber
  PROVE  EInv'
<1>1. /\ pc = "cycle" /\ pc' = "returned"
      /\ UNCHANGED <<inputs, handovers, index, paths, delay, clock, began, reports, poolVars>>
  BY DEF WrongNumber
<1>2. Phase!PhaseInv'
  BY <1>1, PhaseUntouched DEF EInv, PhaseKept
<1>3. TypeOK'
  BY <1>1, <1>2, TypesStay, InputTypes DEF EInv
<1>4. ListMade'
  BY <1>1, ListStays DEF EInv, ListMade, inputs
<1>5. Position' /\ PathKept' /\ ClockKept' /\ NetworkFollowsFile'
  BY <1>1 DEF EInv, Position, PathKept, ClockKept, CycleLasts, Excess, Valid, inputs,
              NetworkFollowsFile
<1>6. PhaseKept'
  BY <1>1, <1>2 DEF EInv, PhaseKept, poolVars
<1>7. ReportsKept' /\ AllReported'
  BY <1>1, ReportsStay DEF EInv, inputs
<1> QED
  BY <1>3, <1>4, <1>5, <1>6, <1>7 DEF EInv

LEMMA WakeInvariant ==
  ASSUME EInv, Wake
  PROVE  EInv'
<1>1. /\ pc = "asleep" /\ index' = index + 1
      /\ pc' = IF index + 1 < Cycles THEN "cycle" ELSE "done"
      /\ UNCHANGED <<inputs, handovers, paths, delay, clock, began, reports, poolVars>>
  BY DEF Wake
<1>2. /\ index \in Nat /\ index < Cycles /\ Len(began) = index + 1 /\ TypeOK
      /\ curPath = route[index] /\ curDelay = DelayOf(index)
  BY <1>1, InputTypes DEF EInv, Position, PathKept
<1>3. Phase!PhaseInv'
  BY <1>1, PhaseUntouched DEF EInv, PhaseKept
<1>4. TypeOK'
  <2>1. Pools!TypeOK'
    BY <1>3, SamePhase, PTL
  <2>2. index' \in 0..Cycles /\ Len(began) \in index'..(index' + 1)
    BY <1>1, <1>2, Sizes
  <2> QED
    BY <1>1, <1>2, <2>1, <2>2 DEF TypeOK, inputs, paths
<1>5. ListMade'
  BY <1>1, ListStays DEF EInv, ListMade, inputs
<1>6. Position' /\ PathKept' /\ NetworkFollowsFile'
  <2>1. index' - 1 = index /\ index' # 0
    BY <1>1, <1>2
  <2>2. /\ curPath' = route'[index' - 1]
        /\ curDelay' = (IF route'[index' - 1] # NoRoute THEN index' - 1 ELSE NoDelay)
    BY <1>1, <1>2, <2>1 DEF DelayOf, Valid, inputs, paths
  <2>3. PathKept'
    BY <1>1, <2>1, <2>2 DEF PathKept, DelayOf, Valid
  <2>4. Position' /\ NetworkFollowsFile'
    BY <1>1, <1>2, Sizes DEF Position, NetworkFollowsFile
  <2> QED
    BY <2>3, <2>4
<1>7. PhaseKept'
  BY <1>1, <1>3 DEF EInv, PhaseKept, poolVars
<1>8. ClockKept'
  <2>1. index' - 1 = index
    BY <1>1, <1>2
  <2> QED
    BY <1>1, <2>1 DEF EInv, ClockKept, CycleLasts, Excess, Valid, inputs
<1>9. ReportsKept' /\ AllReported'
  BY <1>1, ReportsStay DEF EInv, inputs
<1> QED
  BY <1>4, <1>5, <1>6, <1>7, <1>8, <1>9 DEF EInv

LEMMA HandoverInvariant ==
  ASSUME EInv, Handover
  PROVE  EInv'
<1>1. /\ pc = "handover" /\ pc' = "handover" /\ Phase!Step
      /\ UNCHANGED <<inputs, handovers, pc, index, paths, delay, clock, began, reports>>
  BY SamePhase DEF Handover
<1>2. Phase!PhaseInv' /\ phase' # "idle" /\ marks' = marks /\ ends' = ends
  BY <1>1, ParametersAreSane, Phase!StepInvariant, Phase!StepKeeps DEF EInv, PhaseKept
<1>3. TypeOK'
  BY <1>1, <1>2, TypesStay, InputTypes DEF EInv
<1>4. ListMade'
  BY <1>1, ListStays DEF EInv, ListMade, inputs
<1>5. Position' /\ PathKept' /\ ClockKept' /\ NetworkFollowsFile'
  BY <1>1 DEF EInv, Position, PathKept, ClockKept, CycleLasts, Excess, NetworkFollowsFile,
              DelayOf, Valid, inputs, paths
<1>6. PhaseKept'
  BY <1>1, <1>2 DEF EInv, PhaseKept, Breaking, Planned, Valid, inputs
<1>7. ReportsKept' /\ AllReported'
  BY <1>1, <1>2, ReportsStay DEF EInv, inputs, Breaking
<1> QED
  BY <1>3, <1>4, <1>5, <1>6, <1>7 DEF EInv

\* set_link_properties reaches every link of the chain.
LEMMA AllConfigured ==
  ASSUME TypeOK, index \in Lines, Valid(index), curPath = route[index]
  PROVE  Configured = Links
<1>1. Len(curPath) \in 1..(Hops - 2)
  BY ValidRoute
<1>2. {0, Hops - 2} \cup (1..(Len(curPath) - 1)) \cup (Len(curPath)..(Hops - 3)) = 0..(Hops - 2)
  BY <1>1, Sizes
<1> QED
  BY <1>2, Sizes DEF Configured, RouteLinks, DummyLinks

\* The delays are those of the route, in their order.
Real(config) == {l \in Links : config[l] # Negligible}
Ordered(config) ==
  /\ Cardinality(Real(config)) = Len(route[index]) + 1
  /\ \A l \in Real(config) :
       config[l] = <<index, Cardinality({k \in Real(config) : k < l})>>

LEMMA DelaysInOrder ==
  ASSUME TypeOK, index \in Lines, Valid(index), curPath = route[index],
         NEW config, config = [l \in Links |-> NewDelay(l)]
  PROVE  /\ config \in [Links -> (Lines \X (0..(Hops - 2))) \cup {Negligible}]
         /\ Ordered(config)
<1> DEFINE n == Len(curPath)
           real == Real(config)
<1>1. n \in 1..(Hops - 2) /\ index \in Nat
  BY ValidRoute DEF Lines
<1>2. \A l \in Links :
        config[l] = IF l = Hops - 2 THEN <<index, n>>
                    ELSE IF l \in 0..(n - 1) THEN <<index, l>> ELSE Negligible
  BY <1>1, Sizes DEF NewDelay, RouteLinks, DummyLinks
<1>3. \A m : <<index, m>> # Negligible
  BY <1>1 DEF Negligible
<1> HIDE DEF n
<1>4. real = (0..(n - 1)) \cup {Hops - 2}
  BY <1>1, <1>2, <1>3, Sizes DEF Real
<1>5. config \in [Links -> (Lines \X (0..(Hops - 2))) \cup {Negligible}]
  BY <1>1, <1>2, Sizes
<1> HIDE DEF real
<1>6. \A m \in Nat : IsFiniteSet(0..(m - 1)) /\ Cardinality(0..(m - 1)) = m
  <2> TAKE m \in Nat
  <2>1. m - 1 \in Int /\ (0 > m - 1 => m = 0) /\ (m - 1) - 0 + 1 = m
    OBVIOUS
  <2> QED
    BY <2>1, FS_Interval, 0 \in Int
<1>7. Cardinality(real) = n + 1
  <2>1. Hops - 2 \notin 0..(n - 1) /\ n \in Nat
    BY <1>1, Sizes
  <2> QED
    BY <1>4, <1>6, <2>1, FS_AddElement
<1>8. ASSUME NEW l \in real PROVE config[l] = <<index, Cardinality({k \in real : k < l})>>
  <2>1. CASE l = Hops - 2
    <3>1. {k \in real : k < l} = 0..(n - 1)
      BY <1>1, <1>4, <2>1, Sizes
    <3>2. l \in Links /\ n \in Nat
      BY <1>1, <2>1, Sizes
    <3> QED
      BY <1>2, <1>6, <2>1, <3>1, <3>2
  <2>2. CASE l # Hops - 2
    <3>1. l \in 0..(n - 1) /\ l \in Nat
      BY <1>1, <1>4, <2>2
    <3>2. {k \in real : k < l} = 0..(l - 1)
      BY <1>1, <1>4, <2>2, <3>1, Sizes
    <3>3. l \in Links
      BY <1>1, <3>1, Sizes
    <3> QED
      BY <1>2, <1>6, <2>2, <3>1, <3>2, <3>3
  <2> QED
    BY <2>1, <2>2
<1> QED
  BY <1>5, <1>7, <1>8 DEF n, real, Ordered

LEMMA ReconfigureInvariant ==
  ASSUME EInv, Reconfigure
  PROVE  EInv'
<1>1. /\ pc = "handover" /\ phase = "joined" /\ phase' = "idle" /\ pc' = "asleep"
      /\ up' = [x \in DOMAIN up |-> IF x[1] \in Configured THEN TRUE ELSE up[x]]
      /\ delay' = [l \in Links |-> NewDelay(l)]
      /\ UNCHANGED <<inputs, handovers, index, paths, began, reports,
                     marks, ends, i, group1, group2, thread, count>>
  BY DEF Reconfigure
<1>2. PICK busy \in 0..MaxBusy : clock' = clock + Later(Frame, busy)
  BY DEF Reconfigure
<1>3. /\ TypeOK /\ index \in Lines /\ Valid(index) /\ curPath = route[index]
      /\ Phase!PhaseInv /\ Len(began) = index + 1
  BY <1>1, InputTypes, Sizes DEF EInv, Position, PathKept, PhaseKept, Lines
<1>4. /\ CycleLasts(index, clock' - clock) /\ clock' \in Nat
  <2>1. clock \in Nat /\ busy \in Nat /\ busy <= MaxBusy
    BY <1>2, <1>3, InputTypes, Sizes
  <2> QED
    BY <1>2, <1>3, <2>1, Sizes DEF CycleLasts, Excess, Later
<1>5. /\ DOMAIN up = Links \X {1, 2} /\ up' \in [Links \X {1, 2} -> BOOLEAN]
      /\ \A x \in Links \X {1, 2} : up'[x]
  <2>1. up \in [Links \X {1, 2} -> BOOLEAN]
    BY <1>3 DEF TypeOK, Pools!TypeOK, Links, Pools!Sides
  <2>2. Configured = Links
    BY <1>3, AllConfigured
  <2>3. up' = [x \in Links \X {1, 2} |-> TRUE]
    BY <1>1, <2>1, <2>2
  <2> QED
    BY <2>1, <2>3
<1>6. Phase!PhaseInv'
  <2>1. up' \in [Phase!Links \X Phase!Sides -> BOOLEAN]
    BY <1>5, Sizes DEF Phase!Links, Phase!Sides
  <2> QED
    BY <1>1, <1>3, <2>1, ParametersAreSane, Phase!PhaseOver
<1>7. TypeOK'
  <2>1. Pools!TypeOK'
    BY <1>6, SamePhase, PTL
  <2>2. delay' \in [Links -> (Lines \X (0..(Hops - 2))) \cup {Negligible}]
    BY <1>1, <1>3, DelaysInOrder
  <2> QED
    BY <1>1, <1>3, <1>4, <2>1, <2>2 DEF TypeOK, inputs, paths
<1>8. ListMade'
  BY <1>1, ListStays DEF EInv, ListMade, inputs
<1>9. Position' /\ PathKept'
  BY <1>1 DEF EInv, Position, PathKept, DelayOf, Valid, inputs, paths
<1>10. ClockKept'
  BY <1>1, <1>4 DEF EInv, ClockKept, CycleLasts, Excess, Valid, inputs
<1>11. PhaseKept'
  BY <1>1, <1>5, <1>6, Sizes DEF PhaseKept, Links
<1>12. ReportsKept' /\ AllReported'
  BY <1>1, ReportsStay DEF EInv, inputs
<1>13. NetworkFollowsFile'
  <2>1. Ordered(delay')
    BY <1>1, <1>3, DelaysInOrder
  <2>2. /\ route' = route /\ index' = index /\ Valid(index)' /\ DOMAIN up' = Links \X {1, 2}
    BY <1>1, <1>3, <1>5 DEF inputs, Valid
  <2> QED
    BY <1>5, <2>1, <2>2 DEF NetworkFollowsFile, Ordered, Real
<1> QED
  BY <1>7, <1>8, <1>9, <1>10, <1>11, <1>12, <1>13 DEF EInv

\* What beginning a cycle does to the reports: the early ones for the three
\* cycles ahead are started, and the late one of its own handover.
LEMMA CycleBegins ==
  ASSUME TypeOK, ListMade, Position, ReportsKept, AllReported, ClockKept,
         pc = "cycle", pc' \in {"handover", "asleep", "crashed"},
         began' = Append(began, clock), UNCHANGED <<inputs, handovers, index>>,
         NEW late, reports' = reports \cup EarlyReports(index) \cup late,
         late \subseteq LateReport(index), late # {} => Valid(index) /\ (index = 0 \/ Planned(index)),
         pc' = "handover" => (late = IF Breaking' THEN LateReport(index) ELSE {})
  PROVE  /\ began' \in Seq(Nat) /\ Len(began') = index + 1
         /\ \A m \in 1..(Len(began') - 1) : CycleLasts(m - 1, began'[m + 1] - began'[m])
         /\ began'[index + 1] = clock
         /\ \A r \in reports' : r.target \in Lines /\ r.from \in Lines
         /\ ReportsKept' /\ AllReported'
<1>1. /\ index \in Nat /\ index < Cycles /\ Len(began) = index /\ began \in Seq(Nat)
      /\ clock \in Nat /\ \A k \in Lines : shift[k] \in Int
  BY InputTypes DEF Position, TypeOK
<1>2. /\ began' \in Seq(Nat) /\ Len(began') = index + 1 /\ began'[index + 1] = clock
      /\ \A k \in 1..index : began'[k] = began[k]
  BY <1>1
<1>3. \A m \in 1..(Len(began') - 1) : CycleLasts(m - 1, began'[m + 1] - began'[m])
  <2> TAKE m \in 1..(Len(began') - 1)
  <2>1. CASE m = index
    <3>1. CycleLasts(index - 1, clock - began[index]) /\ index # 0 /\ index \in 1..index
      BY <1>1, <1>2, <2>1 DEF ClockKept
    <3> QED
      BY <1>2, <2>1, <3>1
  <2>2. CASE m # index
    <3>1. m \in 1..index /\ m + 1 \in 1..index /\ m \in 1..(Len(began) - 1)
      BY <1>1, <1>2, <2>2
    <3> QED
      BY <1>2, <3>1 DEF ClockKept
  <2> QED
    BY <2>1, <2>2
<1>4. /\ \A t, d : InWindow(t, d)' <=> InWindow(t, d)
      /\ \A t : (WillHandover(t)' <=> WillHandover(t)) /\ (Valid(t)' <=> Valid(t))
      /\ \A t : shift'[t] = shift[t] /\ (Planned(t)' <=> Planned(t))
  BY DEF InWindow, WillHandover, Valid, Planned, inputs
<1>5. ASSUME NEW r \in reports
      PROVE  /\ r = [target |-> r.target, from |-> r.from, due |-> DueOf(r.from, r.target)']
             /\ r.target \in Lines /\ r.from \in 0..(Len(began') - 1) /\ r.from < index
             /\ EarlyKept(r)' \/ LateKept(r)'
  <2>1. /\ r = [target |-> r.target, from |-> r.from, due |-> DueOf(r.from, r.target)]
        /\ r.target \in Lines /\ r.from \in 0..(Len(began) - 1)
        /\ EarlyKept(r) \/ LateKept(r)
    BY DEF ReportsKept
  <2>2. r.from + 1 \in 1..index /\ r.from < index /\ r.from \in 0..(Len(began') - 1)
    BY <1>1, <1>2, <2>1
  <2>3. DueOf(r.from, r.target)' = DueOf(r.from, r.target)
    BY <1>2, <1>4, <2>2 DEF DueOf, inputs
  <2>4. EarlyKept(r) => EarlyKept(r)'
    BY <1>4 DEF EarlyKept
  <2>5. LateKept(r) => LateKept(r)'
    BY <1>1, <1>4, <2>2 DEF LateKept
  <2> QED
    BY <2>1, <2>2, <2>3, <2>4, <2>5
<1>6. ASSUME NEW d \in 1..3, index + d < Cycles,
             -d * Frame < shift[index + d], shift[index + d] < -(d - 1) * Frame,
             WillHandover(index + d),
             NEW r, r = [target |-> index + d, from |-> index,
                         due |-> clock + d * Frame + shift[index + d]]
      PROVE  /\ r = [target |-> r.target, from |-> r.from, due |-> DueOf(r.from, r.target)']
             /\ r.target \in Lines /\ r.from \in 0..(Len(began') - 1) /\ EarlyKept(r)'
  <2>1. /\ r.target = index + d /\ r.from = index /\ r.target - r.from = d
        /\ r.due = clock + d * Frame + shift[index + d]
    BY <1>1, <1>6
  <2>2. r.target \in Lines /\ r.from \in 0..(Len(began') - 1)
    BY <1>1, <1>2, <1>6, <2>1, Sizes DEF Lines
  <2>3. DueOf(r.from, r.target)' = clock + d * Frame + shift[index + d]
    BY <1>2, <1>4, <2>1 DEF DueOf
  <2>4. Planned(index + d) /\ Valid(index + d)
    <3>1. Len(handovers) = Cycles /\ index + d \in 1..(Cycles - 1)
      BY <1>1, <1>6, Sizes DEF ListMade
    <3> QED
      BY <1>6, <3>1 DEF ListMade, Planned
  <2>5. EarlyKept(r)'
    BY <1>4, <1>6, <2>1, <2>4 DEF EarlyKept, InWindow
  <2> QED
    BY <1>6, <2>1, <2>2, <2>3, <2>5
<1>7. ASSUME NEW r \in EarlyReports(index)
      PROVE  /\ r = [target |-> r.target, from |-> r.from, due |-> DueOf(r.from, r.target)']
             /\ r.target \in Lines /\ r.from \in 0..(Len(began') - 1) /\ EarlyKept(r)'
  BY <1>6 DEF EarlyReports
<1>8. ASSUME NEW r \in late
      PROVE  /\ r = [target |-> r.target, from |-> r.from, due |-> DueOf(r.from, r.target)']
             /\ r.target \in Lines /\ r.from \in 0..(Len(began') - 1) /\ LateKept(r)'
  <2>1. /\ r = [target |-> index, from |-> index, due |-> clock + shift[index]]
        /\ shift[index] >= 0
    BY DEF LateReport
  <2>2. r.target = index /\ r.from = index /\ r.due = clock + shift[index]
    BY <2>1
  <2>3. r.target \in Lines /\ r.from \in 0..(Len(began') - 1)
    BY <1>1, <1>2, <2>2, Sizes DEF Lines
  <2>4. DueOf(index, index)' = clock + shift[index]
    <3>1. index - index = 0 /\ shift[index] \in Int
      BY <1>1, <2>2, <2>3
    <3> QED
      BY <1>1, <1>2, <1>4, <3>1, Multiples DEF DueOf
  <2>5. Valid(index) /\ (index = 0 \/ Planned(index))
    BY <1>8
  <2>6. LateKept(r)'
    BY <1>4, <2>1, <2>2, <2>5 DEF LateKept
  <2> QED
    BY <2>1, <2>2, <2>3, <2>4, <2>6
<1>9. ReportsKept'
  BY <1>5, <1>7, <1>8 DEF ReportsKept
<1>10. ASSUME NEW r \in reports' PROVE r.target \in Lines /\ r.from \in Lines
  <2>1. r.target \in Lines /\ r.from \in 0..(Len(began') - 1)
    BY <1>5, <1>7, <1>8
  <2> QED
    BY <1>1, <1>2, <2>1, Sizes DEF Lines
<1>11. ASSUME NEW t \in Lines, NEW d \in 1..3,
              t - d \in 0..(Len(began') - 1), InWindow(t, d), WillHandover(t)
       PROVE  \E r \in reports' : r.target = t
  <2>1. t \in Int
    BY Sizes DEF Lines
  <2>2. CASE t - d = index
    <3> DEFINE r == [target |-> index + d, from |-> index,
                     due |-> clock + d * Frame + shift[index + d]]
    <3>1. t = index + d /\ index + d < Cycles
      BY <1>1, <2>1, <2>2, Sizes DEF Lines
    <3>2. r \in EarlyReports(index)
      BY <1>11, <3>1 DEF EarlyReports, InWindow
    <3> QED
      BY <3>1, <3>2
  <2>3. CASE t - d # index
    <3>1. t - d \in 0..(Len(began) - 1)
      BY <1>1, <1>2, <1>11, <2>1, <2>3
    <3> QED
      BY <1>11, <3>1 DEF AllReported
  <2> QED
    BY <2>2, <2>3
<1>12. ASSUME pc' = "handover", Breaking', shift[index] >= 0
       PROVE  \E r \in reports' : r.target = index
  <2> DEFINE r == [target |-> index, from |-> index, due |-> clock + shift[index]]
  <2>1. r \in late
    BY <1>12 DEF LateReport
  <2> QED
    BY <2>1
<1>13. AllReported'
  <2>1. index' = index /\ shift' = shift
    BY DEF inputs
  <2> QED
    BY <1>4, <1>11, <1>12, <2>1 DEF AllReported
<1> QED
  BY <1>2, <1>3, <1>9, <1>10, <1>13

\* The switch of the first link alone is operated.
LEMMA FirstLinkSet ==
  ASSUME TypeOK, NEW status \in BOOLEAN, SetFirstLink(status)
  PROVE  /\ up' \in [Links \X {1, 2} -> BOOLEAN] /\ DOMAIN up = Links \X {1, 2}
         /\ \A x \in Links \X {1, 2} : up'[x] = IF x[1] = 0 THEN status ELSE up[x]
<1>1. up \in [Links \X {1, 2} -> BOOLEAN]
  BY DEF TypeOK, Pools!TypeOK, Links, Pools!Sides
<1>2. up' = [x \in Links \X {1, 2} |-> IF x[1] = 0 THEN status ELSE up[x]]
  BY <1>1 DEF SetFirstLink
<1> QED
  BY <1>1, <1>2

LEMMA LoseServiceInvariant ==
  ASSUME EInv, LoseService
  PROVE  EInv'
<1>1. /\ pc = "cycle" /\ pc' = "asleep" /\ route[index] = NoRoute
      /\ began' = Append(began, clock)
      /\ reports' = reports \cup EarlyReports(index)
      /\ curPath' = NoRoute /\ curDelay' = NoDelay
      /\ SetFirstLink(FALSE)
      /\ UNCHANGED <<inputs, handovers, index, lastPath, lastDelay, delay,
                     phase, marks, ends, i, group1, group2, thread, count>>
  BY DEF LoseService, RightNumber
<1>0. PICK busy \in 0..MaxCut : clock' = clock + busy + Frame
  BY DEF LoseService
<1>2. /\ TypeOK /\ Position /\ index \in Nat /\ index < Cycles /\ clock \in Nat
      /\ phase = "idle" /\ Phase!PhaseInv
  BY <1>1, InputTypes DEF EInv, Position, PhaseKept
<1>3. /\ began' \in Seq(Nat) /\ Len(began') = index + 1
      /\ \A m \in 1..(Len(began') - 1) : CycleLasts(m - 1, began'[m + 1] - began'[m])
      /\ began'[index + 1] = clock
      /\ \A r \in reports' : r.target \in Lines /\ r.from \in Lines
      /\ ReportsKept' /\ AllReported'
  <2> DEFINE late == {}
  <2>1. /\ reports' = reports \cup EarlyReports(index) \cup late
        /\ late \subseteq LateReport(index) /\ late = {} /\ pc' # "handover"
        /\ UNCHANGED <<inputs, handovers, index>>
    BY <1>1
  <2> HIDE DEF late
  <2> QED
    BY <1>1, <1>2, <2>1, CycleBegins DEF EInv
<1>4. /\ up' \in [Links \X {1, 2} -> BOOLEAN] /\ DOMAIN up = Links \X {1, 2}
      /\ \A x \in Links \X {1, 2} : up'[x] = IF x[1] = 0 THEN FALSE ELSE up[x]
  BY <1>1, <1>2, FirstLinkSet
<1>5. Phase!PhaseInv'
  <2>1. up' \in [Phase!Links \X Phase!Sides -> BOOLEAN]
    BY <1>4, Sizes DEF Phase!Links, Phase!Sides
  <2> QED
    BY <1>1, <1>2, <2>1, ParametersAreSane, Phase!PhaseOver
<1>6. TypeOK'
  <2>1. Pools!TypeOK'
    BY <1>5, SamePhase, PTL
  <2>2. clock' \in Nat
    BY <1>0, <1>2, Sizes
  <2>3. Len(began') \in index'..(index' + 1)
    BY <1>1, <1>2, <1>3
  <2> QED
    BY <1>1, <1>2, <1>3, <2>1, <2>2, <2>3 DEF TypeOK, inputs
<1>7. ListMade'
  BY <1>1, ListStays DEF EInv, ListMade, inputs
<1>8. Position' /\ PathKept'
  BY <1>1, <1>2, <1>3 DEF Position, PathKept, DelayOf, Valid, inputs
<1>9. PhaseKept'
  BY <1>1, <1>2, <1>4, <1>5, Sizes DEF EInv, PhaseKept, Links
<1>10. ClockKept'
  <2>1. CycleLasts(index, clock' - clock)
    BY <1>0, <1>1, <1>2, Sizes DEF CycleLasts, Excess, Valid
  <2>2. \A k, t : CycleLasts(k, t)' <=> CycleLasts(k, t)
    BY <1>1 DEF CycleLasts, Excess, Valid, inputs
  <2> QED
    BY <1>1, <1>3, <2>1, <2>2 DEF ClockKept, CycleLasts, Excess, Valid, inputs
<1>11. NetworkFollowsFile'
  <2>1. <<0, 1>> \in Links \X {1, 2} /\ <<0, 2>> \in Links \X {1, 2}
    BY Sizes
  <2>2. ~up'[<<0, 1>>] /\ ~up'[<<0, 2>>]
    BY <1>4, <2>1
  <2> QED
    BY <1>1, <2>2 DEF NetworkFollowsFile, Valid, inputs
<1> QED
  BY <1>3, <1>6, <1>7, <1>8, <1>9, <1>10, <1>11 DEF EInv

LEMMA TakeRouteInvariant ==
  ASSUME EInv, TakeRoute
  PROVE  EInv'
<1> DEFINE new == route[index]
           d == ComputeLinkDelta(curPath, new)
           e == EndHandovers(curPath, new, curDelay)
           late == IF pc' = "handover" /\ d.marks \cup e # {} THEN LateReport(index) ELSE {}
<1>1. /\ pc = "cycle" /\ pc' \in {"crashed", "handover"} /\ new # NoRoute
      /\ began' = Append(began, clock)
      /\ lastPath' = curPath /\ lastDelay' = curDelay
      /\ curPath' = new /\ curDelay' = index
      /\ SetFirstLink(TRUE)
      /\ UNCHANGED <<inputs, handovers, index, delay, clock>>
  BY DEF TakeRoute, RightNumber
<1>2. pc' = "crashed" =>
        /\ reports' = reports \cup EarlyReports(index)
        /\ UNCHANGED <<phase, marks, ends, i, group1, group2, thread, count>>
  BY DEF TakeRoute
<1>3. pc' = "handover" =>
        /\ reports' = reports \cup EarlyReports(index)
                        \cup (IF d.marks \cup e # {} THEN LateReport(index) ELSE {})
        /\ phase' = "grouping" /\ marks' = d.marks /\ ends' = e
        /\ i' = 0 /\ group1' = << >> /\ group2' = << >>
        /\ thread' = [l \in Links |-> "none"]
        /\ count' = [l \in Links |-> 0]
  BY DEF TakeRoute
<1>4. /\ TypeOK /\ Position /\ index \in Nat /\ index < Cycles /\ clock \in Nat
      /\ phase = "idle" /\ Phase!PhaseInv /\ index \in Lines /\ Valid(index)
  BY <1>1, InputTypes, Sizes DEF EInv, Position, PhaseKept, Valid, Lines
<1>5. d.marks \in SUBSET Phase!Interior /\ d.raised \in BOOLEAN
  BY <1>4, MarksFit
<1>6. e \in SUBSET Phase!EndLinks /\ (e # {} <=> curDelay = NoDelay \/ GatewayChange(curPath, new))
  BY EndsFacts
<1> HIDE DEF d, e
<1>7. pc' = "handover" => (Breaking' <=> d.marks \cup e # {})
  BY <1>3 DEF Breaking
<1>14. d.marks \cup e # {} <=> index = 0 \/ Planned(index)
  <2>1. CASE index = 0
    <3>1. curDelay = NoDelay
      BY <1>1, <2>1 DEF EInv, PathKept
    <3> QED
      BY <1>6, <2>1, <3>1
  <2>2. CASE index # 0
    <3>1. curPath = route[index - 1] /\ curDelay = DelayOf(index - 1)
      BY <1>1, <2>2 DEF EInv, PathKept
    <3>2. curDelay = NoDelay <=> ~Valid(index - 1)
      BY <1>4, <2>2, <3>1 DEF DelayOf, NoDelay
    <3> QED
      BY <1>4, <1>6, <2>2, <3>1, <3>2 DEF Planned, d
  <2> QED
    BY <2>1, <2>2
<1>8. /\ began' \in Seq(Nat) /\ Len(began') = index + 1
      /\ \A m \in 1..(Len(began') - 1) : CycleLasts(m - 1, began'[m + 1] - began'[m])
      /\ began'[index + 1] = clock
      /\ \A r \in reports' : r.target \in Lines /\ r.from \in Lines
      /\ ReportsKept' /\ AllReported'
  <2>1. reports' = reports \cup EarlyReports(index) \cup late
    BY <1>1, <1>2, <1>3
  <2>2. /\ late \subseteq LateReport(index)
        /\ late # {} => Valid(index) /\ (index = 0 \/ Planned(index))
        /\ pc' = "handover" => (late = IF Breaking' THEN LateReport(index) ELSE {})
    BY <1>4, <1>7, <1>14
  <2> HIDE DEF late
  <2> QED
    BY <1>1, <1>4, <2>1, <2>2, CycleBegins DEF EInv
<1>9. /\ up' \in [Links \X {1, 2} -> BOOLEAN] /\ DOMAIN up = Links \X {1, 2}
      /\ \A x \in Links \X {1, 2} : up'[x] = TRUE
  <2>1. /\ up' \in [Links \X {1, 2} -> BOOLEAN] /\ DOMAIN up = Links \X {1, 2}
        /\ \A x \in Links \X {1, 2} : up'[x] = IF x[1] = 0 THEN TRUE ELSE up[x]
    BY <1>1, <1>4, FirstLinkSet
  <2>2. \A x \in Links \X {1, 2} : x[1] # 0 => up[x] = TRUE
    <3>1. up \in [Links \X {1, 2} -> BOOLEAN]
      BY <1>4 DEF TypeOK, Pools!TypeOK, Links, Pools!Sides
    <3> QED
      BY <1>4, <3>1 DEF EInv, PhaseKept
  <2> QED
    BY <2>1, <2>2
<1>10. Phase!PhaseInv'
  <2>1. CASE pc' = "crashed"
    <3>1. up' \in [Phase!Links \X Phase!Sides -> BOOLEAN]
      BY <1>9, Sizes DEF Phase!Links, Phase!Sides
    <3> QED
      BY <1>2, <1>4, <2>1, <3>1, ParametersAreSane, Phase!PhaseOver
  <2>2. CASE pc' = "handover"
    <3>1. Links = Phase!Links
      BY DEF Links, Pools!Links, Phase!Links
    <3>2. up' = Phase!AllUp
      BY <1>9, <3>1 DEF Phase!AllUp, Phase!Sides
    <3> QED
      BY <1>3, <1>5, <1>6, <2>2, <3>1, <3>2, ParametersAreSane, Phase!FreshPhase
  <2> QED
    BY <1>1, <2>1, <2>2
<1>11. TypeOK'
  <2>1. Pools!TypeOK'
    BY <1>10, SamePhase, PTL
  <2>2. new \in Routes
    BY <1>4, ValidRoute
  <2>3. Len(began') \in index'..(index' + 1)
    BY <1>1, <1>4, <1>8
  <2> HIDE DEF new
  <2> QED
    BY <1>1, <1>4, <1>8, <2>1, <2>2, <2>3 DEF TypeOK, inputs
<1>12. ListMade'
  BY <1>1, ListStays DEF EInv, ListMade, inputs
<1>13. Position' /\ PathKept'
  BY <1>1, <1>4, <1>8 DEF Position, PathKept, DelayOf, Valid, inputs
<1>15. PhaseKept'
  <2>1. phase' = "idle" <=> pc' # "handover"
    BY <1>1, <1>2, <1>3, <1>4
  <2>2. \A k : Planned(k)' <=> Planned(k)
    BY <1>1 DEF Planned, Valid, inputs
  <2>3. \A x \in (Links \X {1, 2})' : up'[x]
    BY <1>9, Sizes DEF Links
  <2> QED
    BY <1>1, <1>4, <1>7, <1>10, <1>14, <2>1, <2>2, <2>3 DEF PhaseKept, Valid, inputs
<1>16. ClockKept'
  BY <1>1, <1>8 DEF ClockKept, CycleLasts, Excess, Valid, inputs
<1>17. NetworkFollowsFile'
  BY <1>1 DEF NetworkFollowsFile
<1> QED
  BY <1>8, <1>11, <1>12, <1>13, <1>15, <1>16, <1>17 DEF EInv

LEMMA EmulatorUntouched ==
  ASSUME EInv, UNCHANGED vars
  PROVE  EInv'
<1>1. /\ UNCHANGED <<inputs, handovers, pc, index, delay, clock, began, reports>>
      /\ UNCHANGED <<curPath, lastPath, curDelay, lastDelay, paths>>
      /\ UNCHANGED poolVars
      /\ UNCHANGED <<phase, marks, ends, i, group1, group2, thread, count, up>>
  BY DEF vars, paths, poolVars
<1>2. Phase!PhaseInv'
  BY <1>1, PhaseUntouched DEF EInv, PhaseKept
<1>3. TypeOK'
  BY <1>1, <1>2, TypesStay DEF EInv, TypeOK
<1>4. ListMade'
  BY <1>1, ListStays DEF EInv, ListMade, inputs
<1>5. Position' /\ PathKept' /\ ClockKept'
  BY <1>1 DEF EInv, Position, PathKept, ClockKept, CycleLasts, Excess, DelayOf, Valid, inputs
<1>6. PhaseKept'
  BY <1>1, <1>2 DEF EInv, PhaseKept, Breaking, Planned, Valid, inputs
<1>7. ReportsKept' /\ AllReported'
  BY <1>1, ReportsStay DEF EInv, inputs, Breaking
<1>8. NetworkFollowsFile'
  BY <1>1 DEF EInv, NetworkFollowsFile, Valid, inputs
<1> QED
  BY <1>3, <1>4, <1>5, <1>6, <1>7, <1>8 DEF EInv

LEMMA EmulatorNext == EInv /\ [Next]_vars => EInv'
  BY PrepareLineInvariant, EndPrepareInvariant, WrongNumberInvariant, LoseServiceInvariant,
     TakeRouteInvariant, HandoverInvariant, ReconfigureInvariant, WakeInvariant,
     EmulatorUntouched DEF Next

------------------------------------------------------------------------------
(* What the invariant gives. *)

LEMMA ListIsTrue ==
  ASSUME EInv, pc = "handover"
  PROVE  /\ index \in Lines /\ Valid(index)
         /\ index >= 1 => (WillHandover(index) <=> Breaking)
<1>1. /\ index \in Nat /\ index < Cycles /\ Len(handovers) = Cycles /\ Valid(index)
      /\ Breaking <=> index = 0 \/ Planned(index)
  BY InputTypes DEF EInv, Position, ListMade, PhaseKept
<1>2. index >= 1 => (WillHandover(index) <=> Planned(index))
  BY <1>1, Sizes DEF EInv, ListMade
<1> QED
  BY <1>1, <1>2, Sizes DEF Lines

LEMMA ReportsDiffer ==
  ASSUME EInv, NEW r \in reports, NEW s \in reports, r.target = s.target
  PROVE  r = s
<1>1. /\ r = [target |-> r.target, from |-> r.from, due |-> DueOf(r.from, r.target)]
      /\ s = [target |-> s.target, from |-> s.from, due |-> DueOf(s.from, s.target)]
      /\ r.target \in Lines /\ r.from \in 0..(Len(began) - 1) /\ s.from \in 0..(Len(began) - 1)
      /\ EarlyKept(r) \/ LateKept(r)
      /\ EarlyKept(s) \/ LateKept(s)
  BY DEF EInv, ReportsKept
<1>2. TypeOK
  BY DEF EInv
<1>3. r.from = s.from
  <2>1. CASE EarlyKept(r) /\ EarlyKept(s)
    <3>1. r.target - r.from = s.target - s.from
      BY <1>1, <1>2, <2>1, OneWindow DEF EarlyKept
    <3>2. r.from \in Int /\ s.from \in Int /\ r.target \in Int
      BY <1>1, <1>2, InputTypes, Sizes DEF Lines
    <3> QED
      BY <3>1, <3>2
  <2>2. CASE EarlyKept(r) /\ LateKept(s)
    <3>1. shift[r.target] < 0 /\ shift[r.target] >= 0 /\ shift[r.target] \in Int
      BY <1>1, <1>2, <2>2, OneWindow DEF EarlyKept, LateKept
    <3> QED
      BY <3>1
  <2>3. CASE LateKept(r) /\ EarlyKept(s)
    <3>1. shift[r.target] < 0 /\ shift[r.target] >= 0 /\ shift[r.target] \in Int
      BY <1>1, <1>2, <2>3, OneWindow DEF EarlyKept, LateKept
    <3> QED
      BY <3>1
  <2>4. CASE LateKept(r) /\ LateKept(s)
    BY <2>4 DEF LateKept
  <2> QED
    BY <1>1, <2>1, <2>2, <2>3, <2>4
<1> QED
  BY <1>1, <1>3

\* What one more cycle adds to the time that may be lost.
LEMMA LossAdds ==
  ASSUME NEW f \in Nat, NEW t \in Nat, f <= t
  PROVE  /\ MayLose(f, t) \in Nat /\ MayLose(f, f) = 0
         /\ MayLose(f, t + 1) = MayLose(f, t) + Excess(t)
<1> DEFINE Cut(u) == {k \in f..(u - 1) : ~Valid(k)}
           lag == Later(0, MaxBusy - Frame)
<1>1. lag \in Nat /\ MaxCut \in Nat /\ 0 * MaxCut = 0 /\ 0 * lag = 0
  BY Sizes DEF Later
<1>2. \A u : MayLose(f, u) = Cardinality(Cut(u)) * MaxCut + (u - f - Cardinality(Cut(u))) * lag
  BY DEF MayLose
<1>12. PICK u : u = t + 1
  OBVIOUS
<1>13. MayLose(f, u) = Cardinality(Cut(u)) * MaxCut + (u - f - Cardinality(Cut(u))) * lag
  BY <1>2
<1>3. IsFiniteSet(Cut(t)) /\ Cardinality(Cut(t)) \in Nat /\ Cardinality(Cut(t)) <= t - f
  <2>1. IsFiniteSet(f..(t - 1)) /\ Cardinality(f..(t - 1)) = t - f
    <3>1. t - 1 \in Int /\ t - f = IF f > t - 1 THEN 0 ELSE (t - 1) - f + 1
      OBVIOUS
    <3>2. /\ IsFiniteSet(f..(t - 1))
          /\ Cardinality(f..(t - 1)) = IF f > t - 1 THEN 0 ELSE (t - 1) - f + 1
      BY FS_Interval
    <3> QED
      BY <3>1, <3>2
  <2> QED
    BY <2>1, FS_Subset, FS_CardinalityType
<1>4. Cardinality(Cut(f)) = 0
  BY FS_EmptySet
<1>5. Cardinality(Cut(u)) = Cardinality(Cut(t)) + (IF Valid(t) THEN 0 ELSE 1)
  <2>1. CASE Valid(t)
    <3>1. Cut(u) = Cut(t)
      BY <1>12, <2>1
    <3> QED
      BY <1>3, <2>1, <3>1
  <2>2. CASE ~Valid(t)
    <3>1. Cut(u) = Cut(t) \cup {t} /\ t \notin Cut(t)
      BY <1>12, <2>2
    <3> QED
      BY <1>3, <2>2, <3>1, FS_AddElement
  <2> QED
    BY <2>1, <2>2
<1> DEFINE c == Cardinality(Cut(t))
           n == t - f - c
<1>6. c \in Nat /\ n \in Nat /\ MayLose(f, t) = c * MaxCut + n * lag
  <2>1. c \in Nat /\ n \in Nat
    BY <1>3
  <2> HIDE DEF Cut, lag
  <2>2. MayLose(f, t) = c * MaxCut + n * lag
    BY <1>2
  <2> QED
    BY <2>1, <2>2
<1>7. MayLose(f, f) = 0
  <2>1. f - f - 0 = 0
    OBVIOUS
  <2> QED
    BY <1>1, <1>2, <1>4, <2>1
<1>8. MayLose(f, u) = IF Valid(t) THEN c * MaxCut + (n + 1) * lag
                                ELSE (c + 1) * MaxCut + n * lag
  <2>1. Valid(t) => Cardinality(Cut(u)) = c /\ u - f - c = n + 1
    BY <1>3, <1>5, <1>12
  <2>2. ~Valid(t) => Cardinality(Cut(u)) = c + 1 /\ u - f - (c + 1) = n
    BY <1>3, <1>5, <1>12
  <2> HIDE DEF Cut, c, n, lag
  <2> QED
    BY <1>13, <2>1, <2>2
<1>9. Excess(t) = IF Valid(t) THEN lag ELSE MaxCut
  BY DEF Excess
<1> HIDE DEF c, n, lag, Cut
<1>10. c * MaxCut \in Nat /\ n * lag \in Nat
  BY <1>1, <1>6
<1>11. (n + 1) * lag = n * lag + lag /\ (c + 1) * MaxCut = c * MaxCut + MaxCut
  BY <1>1, <1>6
<1>14. MayLose(f, u) = MayLose(f, t) + Excess(t)
  BY <1>1, <1>6, <1>8, <1>9, <1>10, <1>11
<1>15. MayLose(f, t) \in Nat
  BY <1>6, <1>10
<1>16. MayLose(f, t + 1) = MayLose(f, u)
  BY <1>12, Zenon
<1> QED
  BY <1>7, <1>14, <1>15, <1>16

\* How much later than a frame each the cycles between have begun.
Apart(f, d) ==
  /\ began[f + d + 1] \in Nat /\ began[f + 1] \in Nat
  /\ d * Frame <= began[f + d + 1] - began[f + 1]
  /\ began[f + d + 1] - began[f + 1] <= d * Frame + MayLose(f, f + d)

LEMMA OneCycleMore ==
  ASSUME EInv, NEW f \in Nat, NEW d \in 0..2, f + d + 1 < Len(began), Apart(f, d)
  PROVE  Apart(f, d + 1)
<1>1. /\ Len(began) \in Nat /\ f + d + 1 \in 0..(Len(began) - 1)
      /\ f + d + 1 \in 1..(Len(began) - 1) /\ f + d \in Nat /\ f <= f + d
      /\ f + (d + 1) + 1 = (f + d + 1) + 1 /\ f + (d + 1) = (f + d) + 1
      /\ (f + d + 1) - 1 = f + d
  BY InputTypes DEF EInv
<1> DEFINE a == began[f + 1]
           b == began[f + d + 1]
           c == began[(f + d + 1) + 1]
           p == d * Frame
           q == MayLose(f, f + d)
           x == Excess(f + d)
<1>2. c \in Nat
  BY <1>1, InputTypes DEF EInv
<1>3. Frame <= c - b /\ c - b <= Frame + x
  BY <1>1 DEF EInv, ClockKept, CycleLasts
<1>4. q \in Nat /\ MayLose(f, (f + d) + 1) = q + x
  BY <1>1, LossAdds
<1>5. p \in Nat /\ (d + 1) * Frame = p + Frame /\ x \in Nat
  BY Sizes, ExcessType
<1>6. a \in Nat /\ b \in Nat /\ p <= b - a /\ b - a <= p + q
  BY DEF Apart
<1> HIDE DEF a, b, c, p, q, x
<1>7. p + Frame <= c - a /\ c - a <= (p + Frame) + (q + x)
  BY <1>2, <1>3, <1>4, <1>5, <1>6, Sizes
<1> QED
  BY <1>1, <1>2, <1>4, <1>5, <1>6, <1>7 DEF Apart, a, c

LEMMA CyclesApart ==
  ASSUME EInv, NEW f \in 0..(Len(began) - 1), NEW d \in 0..3, f + d < Len(began)
  PROVE  Apart(f, d)
<1>1. Len(began) \in Nat /\ began[f + 1] \in Nat /\ f \in Nat
  BY InputTypes DEF EInv
<1>2. Apart(f, 0)
  <2>1. f + 0 + 1 = f + 1 /\ f + 0 = f /\ MayLose(f, f) = 0
    BY <1>1, LossAdds
  <2> QED
    BY <1>1, <2>1, Multiples DEF Apart
<1>3. d >= 1 => Apart(f, 1)
  BY <1>1, <1>2, OneCycleMore
<1>4. d >= 2 => Apart(f, 2)
  BY <1>1, <1>3, OneCycleMore
<1>5. d >= 3 => Apart(f, 3)
  BY <1>1, <1>4, OneCycleMore
<1> QED
  BY <1>2, <1>3, <1>4, <1>5

\* A report is planned for the cycle it is for, and started at most three
\* cycles before.
LEMMA ReportShape ==
  ASSUME EInv, NEW r \in reports
  PROVE  /\ r.target \in Lines /\ r.from \in 0..(Len(began) - 1) /\ r.from \in Nat
         /\ r.target - r.from \in 0..3 /\ shift[r.target] \in Int
         /\ r.due = began[r.from + 1] + (r.target - r.from) * Frame + shift[r.target]
<1>1. /\ r = [target |-> r.target, from |-> r.from, due |-> DueOf(r.from, r.target)]
      /\ r.target \in Lines /\ r.from \in 0..(Len(began) - 1)
      /\ EarlyKept(r) \/ LateKept(r)
  BY DEF EInv, ReportsKept
<1>2. Len(began) \in Nat /\ shift[r.target] \in Int /\ r.from \in Nat /\ r.target \in Int
  BY <1>1, InputTypes, Sizes DEF EInv, Lines
<1>3. r.target - r.from \in 0..3
  BY <1>1, <1>2 DEF EarlyKept, LateKept
<1>4. r.due = DueOf(r.from, r.target)
  BY <1>1
<1> QED
  BY <1>1, <1>2, <1>3, <1>4 DEF DueOf

LEMMA NoSlack ==
  ASSUME EInv, NEW r \in reports, r.target < Len(began)
  PROVE  /\ began[r.target + 1] \in Nat /\ r.due \in Int
         /\ r.due <= began[r.target + 1] + shift[r.target]
         /\ (began[r.target + 1] + shift[r.target]) - MayLose(r.from, r.target) <= r.due
<1> DEFINE d == r.target - r.from
<1>1. /\ r.target \in Lines /\ r.from \in 0..(Len(began) - 1) /\ r.from \in Nat
      /\ d \in 0..3 /\ shift[r.target] \in Int
      /\ r.due = began[r.from + 1] + d * Frame + shift[r.target]
  BY ReportShape
<1>2. r.from + d = r.target /\ r.from + d + 1 = r.target + 1 /\ r.from <= r.target
      /\ r.target \in Nat
  BY <1>1, Sizes DEF Lines
<1> HIDE DEF d
<1>3. Apart(r.from, d)
  BY <1>1, <1>2, CyclesApart
<1> DEFINE a == began[r.from + 1]
           b == began[r.target + 1]
           s == shift[r.target]
           p == d * Frame
           q == MayLose(r.from, r.target)
<1>4. p \in Nat /\ q \in Nat
  <2>1. p \in Nat
    BY <1>1, Sizes
  <2>2. q \in Nat
    BY <1>1, <1>2, LossAdds
  <2> QED
    BY <2>1, <2>2
<1>5. /\ a \in Nat /\ b \in Nat /\ s \in Int
      /\ p <= b - a /\ b - a <= p + q /\ r.due = a + p + s
  BY <1>1, <1>2, <1>3 DEF Apart
<1> HIDE DEF a, b, s, p, q
<1>6. b \in Nat /\ r.due \in Int /\ r.due <= b + s /\ (b + s) - q <= r.due
  BY <1>4, <1>5
<1> QED
  BY <1>6 DEF b, s, q

LEMMA OnTime == EInv => ReportsOnTime
  BY NoSlack DEF ReportsOnTime

\* A whole number of frames is no remainder.
LEMMA WholeFrames == (-Frame) % Frame = 0 /\ (-(Frame + Frame)) % Frame = 0
  BY Sizes

LEMMA WindowFound ==
  ASSUME TypeOK, NEW k \in Lines, HasWindow(k), shift[k] < 0
  PROVE  \E d \in 1..3 : d <= k /\ InWindow(k, d)
<1>1. shift[k] \in Int /\ k \in Nat
  BY InputTypes DEF Lines
<1>2. shift[k] > -Frame * (IF k < 3 THEN k ELSE 3) /\ shift[k] % Frame # 0
  BY <1>1 DEF HasWindow
<1>3. shift[k] # -Frame /\ shift[k] # -(Frame + Frame)
  BY <1>2, WholeFrames
<1>4. Frame * 0 = 0 /\ Frame * 1 = Frame /\ Frame * 2 = Frame + Frame
      /\ Frame * 3 = Frame + Frame + Frame
  BY Sizes
<1>5. CASE k = 0
  BY <1>1, <1>2, <1>4, <1>5
<1>6. CASE k = 1
  <2>1. InWindow(k, 1)
    BY <1>1, <1>2, <1>4, <1>6, Multiples, Sizes DEF InWindow
  <2> QED
    BY <1>6, <2>1
<1>7. CASE k = 2
  <2>1. InWindow(k, 1) \/ InWindow(k, 2)
    BY <1>1, <1>2, <1>3, <1>4, <1>7, Multiples, Sizes DEF InWindow
  <2> QED
    BY <1>7, <2>1
<1>8. CASE k >= 3
  <2>1. InWindow(k, 1) \/ InWindow(k, 2) \/ InWindow(k, 3)
    BY <1>1, <1>2, <1>3, <1>4, <1>8, Multiples, Sizes DEF InWindow
  <2> QED
    BY <1>1, <1>8, <2>1
<1> QED
  BY <1>1, <1>5, <1>6, <1>7, <1>8

\* Between the edges of a window there is no whole number of frames.
LEMMA NoEdge ==
  ASSUME TypeOK, NEW t \in Lines, NEW d \in 1..3, InWindow(t, d), d <= t
  PROVE  HasWindow(t)
<1> DEFINE q == shift[t] \div Frame
<1>1. shift[t] \in Int /\ t \in Nat /\ -d * Frame < shift[t] /\ shift[t] < -(d - 1) * Frame
  BY InputTypes DEF InWindow, Lines
<1>2. shift[t] % Frame # 0
  <2> SUFFICES ASSUME shift[t] % Frame = 0 PROVE FALSE
    OBVIOUS
  <2>1. q \in Int /\ shift[t] = Frame * q
    <3> DEFINE a == shift[t]
    <3>1. a \in Int /\ a % Frame = 0 /\ q = a \div Frame
      BY <1>1
    <3> HIDE DEF a, q
    <3>2. a \div Frame \in Int /\ a = Frame * (a \div Frame) + (a % Frame)
      BY <3>1, Sizes
    <3>3. q \in Int /\ a = Frame * q + 0
      BY <3>1, <3>2
    <3>4. Frame * q \in Int
      BY <3>3, Sizes
    <3>5. a = Frame * q
      BY <3>3, <3>4
    <3> QED
      BY <3>3, <3>5 DEF a
  <2> HIDE DEF q
  <2>2. Frame * (q + d) = Frame * q + d * Frame /\ -d * Frame = -(d * Frame)
        /\ -(d - 1) * Frame = Frame - d * Frame /\ d * Frame \in Nat
    BY <2>1, Sizes
  <2>3. 0 < Frame * (q + d) /\ Frame * (q + d) < Frame
    BY <1>1, <2>1, <2>2, Sizes
  <2>4. q + d >= 1 => Frame * (q + d) >= Frame
    <3>1. q + d >= 1 => (q + d) - 1 \in Nat /\ Frame * (q + d) = Frame * ((q + d) - 1) + Frame
      BY <2>1, Sizes
    <3>2. q + d >= 1 => Frame * ((q + d) - 1) \in Nat
      BY <3>1, Sizes
    <3> QED
      BY <3>1, <3>2, Sizes
  <2>5. q + d <= 0 => Frame * (q + d) <= 0
    <3>1. q + d <= 0 => -(q + d) \in Nat /\ Frame * (q + d) = -(Frame * (-(q + d)))
      BY <2>1, Sizes
    <3>2. q + d <= 0 => Frame * (-(q + d)) \in Nat
      BY <3>1, Sizes
    <3> QED
      BY <3>1, <3>2, Sizes
  <2> QED
    BY <2>1, <2>3, <2>4, <2>5, Sizes
<1>3. shift[t] > -Frame * (IF t < 3 THEN t ELSE 3)
  <2>1. /\ -Frame * 1 = -Frame /\ -Frame * 2 = -(Frame + Frame)
        /\ -Frame * 3 = -(Frame + Frame + Frame)
        /\ -1 * Frame = -Frame /\ -2 * Frame = -(Frame + Frame)
        /\ -3 * Frame = -(Frame + Frame + Frame)
    BY Sizes
  <2>2. t = 1 \/ t = 2 \/ t >= 3
    BY <1>1
  <2> QED
    BY <1>1, <2>1, <2>2, Sizes
<1> QED
  BY <1>2, <1>3 DEF HasWindow

\* A report has a window of its own.
LEMMA WindowNeeded ==
  ASSUME EInv, NEW r \in reports
  PROVE  HasWindow(r.target)
<1>1. /\ r.target \in Lines /\ r.from \in Nat /\ (EarlyKept(r) \/ LateKept(r))
  BY ReportShape DEF EInv, ReportsKept
<1>2. CASE LateKept(r)
  BY <1>2 DEF LateKept, HasWindow
<1>3. CASE EarlyKept(r)
  <2>1. r.target - r.from <= r.target
    BY <1>1, Sizes DEF Lines
  <2> QED
    BY <1>1, <1>3, <2>1, NoEdge DEF EInv, EarlyKept
<1> QED
  BY <1>1, <1>2, <1>3

LEMMA WindowsUsed == EInv => HandoversAreReported
<1> SUFFICES ASSUME EInv, pc = "handover", Breaking, HasWindow(index)
             PROVE  \E r \in reports : r.target = index
  BY WindowNeeded DEF HandoversAreReported
<1>1. /\ TypeOK /\ index \in Lines /\ Valid(index) /\ Len(began) = index + 1
      /\ index >= 1 => WillHandover(index)
      /\ shift[index] \in Int /\ index \in Nat
  BY ListIsTrue, InputTypes DEF EInv, Position
<1>2. CASE shift[index] >= 0
  BY <1>2 DEF EInv, AllReported
<1>3. CASE shift[index] < 0
  <2>1. PICK d \in 1..3 : d <= index /\ InWindow(index, d)
    BY <1>1, <1>3, WindowFound
  <2>2. index - d \in 0..(Len(began) - 1) /\ index >= 1
    BY <1>1, <2>1
  <2> QED
    BY <1>1, <2>1, <2>2 DEF EInv, AllReported
<1> QED
  BY <1>1, <1>2, <1>3

LEMMA ReportTrue ==
  ASSUME EInv, NEW r \in reports
  PROVE  /\ Valid(r.target)
         /\ pc = "handover" /\ r.target = index => Breaking
<1>1. r.target \in Lines /\ r.from \in Nat /\ (EarlyKept(r) \/ LateKept(r))
  BY ReportShape DEF EInv, ReportsKept
<1>2. CASE LateKept(r)
  BY <1>2 DEF LateKept, EInv, PhaseKept
<1>3. CASE EarlyKept(r)
  <2>1. r.target >= 1 /\ WillHandover(r.target) /\ Valid(r.target)
    BY <1>1, <1>3, Sizes DEF EarlyKept, Lines
  <2> QED
    BY <2>1, ListIsTrue
<1> QED
  BY <1>1, <1>2, <1>3

LEMMA NetworkTrue == EInv => NetworkFollowsFile /\ PredictionsMatch /\ ReportsAreTrue
<1> SUFFICES ASSUME EInv PROVE NetworkFollowsFile /\ PredictionsMatch /\ ReportsAreTrue
  OBVIOUS
<1>1. NetworkFollowsFile
  BY DEF EInv
<1>2. PredictionsMatch
  BY ListIsTrue DEF PredictionsMatch
<1>3. ReportsAreTrue
  BY ReportsDiffer, ReportTrue DEF ReportsAreTrue
<1> QED
  BY <1>1, <1>2, <1>3

------------------------------------------------------------------------------
\* The invariant holds throughout.
THEOREM EmulatorInvariance == Spec => []EInv
<1>1. Init => EInv
  BY EmulatorInit
<1>2. EInv /\ [Next]_vars => EInv'
  BY EmulatorNext
<1> QED
  BY <1>1, <1>2, PTL DEF Spec

\* The variables of the playback keep their types.
THEOREM EmulatorTypeCorrect == Spec => []TypeOK
<1>1. EInv => TypeOK
  BY DEF EInv
<1> QED
  BY <1>1, EmulatorInvariance, PTL

\* While a cycle sleeps, the links that are up and the delays along the chain
\* are those of the line of the file (emulator.py:292-297, 366-382).
THEOREM NetworkIsFile == Spec => []NetworkFollowsFile
<1>1. EInv => NetworkFollowsFile
  BY NetworkTrue
<1> QED
  BY <1>1, EmulatorInvariance, PTL

\* The list of handovers made before the emulation starts is true of every
\* cycle but the first (emulator.py:232-255 against 302-344).
THEOREM PredictionsHold == Spec => []PredictionsMatch
<1>1. EInv => PredictionsMatch
  BY NetworkTrue
<1> QED
  BY <1>1, EmulatorInvariance, PTL

\* No handover is reported twice, and none that does not take place
\* (emulator.py:272-289, 346).
THEOREM ReportsTrue == Spec => []ReportsAreTrue
<1>1. EInv => ReportsAreTrue
  BY NetworkTrue
<1> QED
  BY <1>1, EmulatorInvariance, PTL

\* A report is due as drawn, or earlier by what the cycles that it is waited
\* for in take beyond their frames (emulator.py:272-294, 384-388).
THEOREM ReportsPunctual == Spec => []ReportsOnTime
<1>1. EInv => ReportsOnTime
  BY OnTime
<1> QED
  BY <1>1, EmulatorInvariance, PTL

\* A handover is reported if, and only if, one of the windows is open for it
\* (emulator.py:269-284, 351-355).
THEOREM AllReportedInTime == Spec => []HandoversAreReported
<1>1. EInv => HandoversAreReported
  BY WindowsUsed
<1> QED
  BY <1>1, EmulatorInvariance, PTL

\* In the playback, too, no two threads alter two interfaces of one switch,
\* and every planned handover is carried out, where the chain has a link
\* between satellites (emulator.py:334-364).
THEOREM HandoversCarriedOut ==
  ASSUME Hops >= 4 PROVE Spec => [](Pools!OneInterfacePerNode /\ Pools!NoHandoverLost)
<1>1. EInv => Phase!OneInterfacePerNode /\ Phase!NoHandoverLost
  BY ParametersAreSane, Phase!Exclusion, Phase!AllCarriedOut DEF EInv, PhaseKept, Phase!LongChain
<1>2. Phase!OneInterfacePerNode => Pools!OneInterfacePerNode
  BY DEF Phase!OneInterfacePerNode, Pools!OneInterfacePerNode, Phase!Live, Pools!Live,
         Phase!Links, Pools!Links, Phase!ShareSwitch, Pools!ShareSwitch
<1>3. Phase!NoHandoverLost => Pools!NoHandoverLost
  BY DEF Phase!NoHandoverLost, Pools!NoHandoverLost, Phase!Sides, Pools!Sides
<1> QED
  BY <1>1, <1>2, <1>3, EmulatorInvariance, PTL

------------------------------------------------------------------------------
(* What it is that the routes are shortest paths, which visit no node twice. *)

\* Between routes that keep both gateways, a mark stands for a change.
LEMMA SameGateways ==
  ASSUME NEW old \in Routes, NEW new \in Routes,
         ~GatewayChange(old, new)
  PROVE  /\ ComputeLinkDelta(old, new).raised = FALSE
         /\ ComputeLinkDelta(old, new).marks = {} <=> old = new
<1>1. old \in Seq(Nodes) /\ new \in Seq(Nodes) /\ Loop!Simple(old)
  BY RoutesAreSimple DEF Loop!Simple
<1>2. Len(old) >= 1 /\ Len(new) >= 1
  BY ParametersAreSane
<1>3. old[1] = new[1] /\ old[Len(old)] = new[Len(new)]
  BY DEF GatewayChange, Ingress, Egress
<1>4. /\ Loop!ComputeLinkDelta(old, new).raised = FALSE
      /\ Loop!ComputeLinkDelta(old, new).marks = {} <=> old = new
  <2>1. /\ \A p \in {} : Loop!IsSimplePath(p)
        /\ \A p \in {} : Loop!IsSimplePath(p) /\ Len(p) >= 1
    OBVIOUS
  <2>2. \A was \in Seq(Nodes), is \in Seq(Nodes) :
          /\ Loop!Simple(was) /\ Len(was) >= 1 /\ Len(is) >= 1
          /\ was[1] = is[1] /\ was[Len(was)] = is[Len(is)]
          => /\ Loop!ComputeLinkDelta(was, is).raised = FALSE
             /\ Loop!ComputeLinkDelta(was, is).marks = {} <=> was = is
    BY <2>1, Loop!FindsChanges
  <2> QED
    BY <1>1, <1>2, <1>3, <2>2
<1> QED
  BY <1>4, SameDelta

\* A line with a handover is a line with another route than the line before.
LEMMA PlannedIsChange ==
  ASSUME TypeOK, NEW k \in Lines, k - 1 \in Lines
  PROVE  Planned(k) <=> Valid(k) /\ route[k] # route[k - 1]
<1>1. CASE Valid(k) /\ Valid(k - 1)
  <2>1. route[k] \in Routes /\ route[k - 1] \in Routes
    BY <1>1, ValidRoute
  <2>2. CASE GatewayChange(route[k - 1], route[k])
    <3>1. route[k] # route[k - 1]
      BY <2>2 DEF GatewayChange
    <3> QED
      BY <1>1, <2>2, <3>1 DEF Planned
  <2>3. CASE ~GatewayChange(route[k - 1], route[k])
    BY <1>1, <2>1, <2>3, SameGateways DEF Planned
  <2> QED
    BY <2>2, <2>3
<1>2. CASE ~(Valid(k) /\ Valid(k - 1))
  BY <1>2 DEF Planned, Valid
<1> QED
  BY <1>1, <1>2

\* The list made before the emulation has a handover for exactly the lines
\* whose route is not the one of the line before (emulator.py:232-255).
THEOREM HandoverIsRouteChange ==
  Spec => [](\A k \in 1..(Len(handovers) - 1) :
               WillHandover(k) <=> Valid(k) /\ route[k] # route[k - 1])
<1>1. ASSUME EInv, NEW k \in 1..(Len(handovers) - 1)
      PROVE  WillHandover(k) <=> Valid(k) /\ route[k] # route[k - 1]
  <2>1. WillHandover(k) <=> Planned(k)
    BY <1>1 DEF EInv, ListMade
  <2>2. TypeOK /\ Len(handovers) \in 1..Cycles
    BY <1>1 DEF EInv, TypeOK
  <2>3. k \in Lines /\ k - 1 \in Lines
    BY <1>1, <2>2, Sizes DEF Lines
  <2> QED
    BY <2>1, <2>2, <2>3, PlannedIsChange
<1>2. EInv => \A k \in 1..(Len(handovers) - 1) :
                WillHandover(k) <=> Valid(k) /\ route[k] # route[k - 1]
  BY <1>1
<1> QED
  BY <1>2, EmulatorInvariance, PTL

\* Where an IndexError can come from.
CrashCause ==
  pc = "crashed" =>
    /\ Len(handovers) = Cycles
    /\ Len(curPath) = 1 /\ lastPath # NoRoute /\ GatewayChange(lastPath, curPath)

\* An IndexError never ends the program before the emulation has begun, and then
\* only where a gateway changes and a single satellite serves both users
\* (emulator.py:130-143, 252, 334).
THEOREM CrashesAreOneSatellite == Spec => []CrashCause
<1>1. Init => CrashCause
  BY DEF Init, CrashCause
<1>2. ASSUME EInv, CrashCause, [Next]_vars, pc' = "crashed"
      PROVE  /\ Len(handovers') = Cycles
             /\ Len(curPath') = 1 /\ lastPath' # NoRoute
             /\ GatewayChange(lastPath', curPath')
  <2>0. TypeOK
    BY <1>2 DEF EInv
  <2>1. CASE PrepareLine
    <3> DEFINE k == Len(handovers)
    <3>1. /\ k < Cycles /\ Valid(k) /\ Valid(k - 1)
          /\ ~GatewayChange(route[k - 1], route[k])
          /\ ComputeLinkDelta(route[k - 1], route[k]).raised
      BY <1>2, <2>1 DEF PrepareLine, Valid
    <3>2. k \in Lines /\ k - 1 \in Lines
      BY <2>0, <3>1, Sizes DEF TypeOK, Lines
    <3>3. route[k] \in Routes /\ route[k - 1] \in Routes
      BY <2>0, <3>1, <3>2, ValidRoute
    <3> QED
      BY <3>1, <3>3, SameGateways
  <2>2. CASE TakeRoute
    <3>1. /\ pc = "cycle" /\ Valid(index) /\ handovers' = handovers
          /\ lastPath' = curPath /\ curPath' = route[index]
          /\ ComputeLinkDelta(curPath, route[index]).raised
      BY <1>2, <2>2 DEF TakeRoute, RightNumber, Valid
    <3>2. Len(handovers) = Cycles /\ index \in Lines
      BY <1>2, <3>1, InputTypes, Sizes DEF EInv, ListMade, Position, Lines
    <3>3. route[index] \in Routes /\ Len(route[index]) \in Nat \ {0}
      BY <2>0, <3>1, <3>2, ValidRoute
    <3>4. Len(route[index]) = 1
      BY <3>1, <3>3, DeltaType
    <3>5. curPath # NoRoute
      BY <3>1, <3>3, SameDelta, Loop!FromNothing DEF NoRoute
    <3>6. curPath \in Routes
      BY <2>0, <3>5 DEF TypeOK
    <3>7. GatewayChange(curPath, route[index])
      BY <3>1, <3>3, <3>6, SameGateways
    <3> QED
      BY <3>1, <3>2, <3>4, <3>5, <3>7
  <2>3. CASE Wake
    BY <1>2, <2>3 DEF Wake
  <2>4. CASE EndPrepare \/ WrongNumber \/ LoseService \/ Reconfigure
    BY <1>2, <2>4 DEF EndPrepare, WrongNumber, LoseService, Reconfigure
  <2>5. CASE Handover
    BY <1>2, <2>5 DEF Handover, CrashCause, paths, GatewayChange, Ingress, Egress
  <2>6. CASE UNCHANGED vars
    BY <1>2, <2>6 DEF vars, CrashCause, paths, GatewayChange, Ingress, Egress
  <2> QED
    BY <1>2, <2>1, <2>2, <2>3, <2>4, <2>5, <2>6 DEF Next
<1>3. EInv /\ CrashCause /\ [Next]_vars => CrashCause'
  BY <1>2 DEF CrashCause, GatewayChange, Ingress, Egress
<1> QED
  BY <1>1, <1>3, EmulatorInvariance, PTL DEF Spec

------------------------------------------------------------------------------
(* SaTCP from end to end. The playback's steps are Emulator's, so its       *)
(* invariant holds here too. The rest says where the clock is, which        *)
(* reports have been sent, and what the relay has made of them.             *)

Punctual ==
  /\ now \in Nat
  /\ pc \in {"prepare", "cycle"} => now = clock
  /\ pc = "handover" => clock <= now
  /\ pc = "asleep" => now <= clock

\* While the program runs no report is behind its time, and the last one to be
\* sent is the one that the relay counts from.
Sending ==
  /\ delivered \subseteq reports
  /\ \A r \in delivered : r.due <= last
  /\ ~Ended => \A r \in reports \ delivered : now <= r.due
  /\ inhibited => \E r \in delivered : r.due = last

Holding ==
  /\ inhibited \in BOOLEAN /\ last \in Nat /\ last <= now
  /\ inhibited => now <= last + Duration + 1
  /\ ~inhibited /\ delivered # {} => last + Duration < now

RelayInv == Punctual /\ Sending /\ Holding

\* Only beginning a cycle starts reports, and none is due before that.
LEMMA ReportsAhead ==
  ASSUME EInv, pc = "cycle", NEW r \in EarlyReports(index) \cup LateReport(index)
  PROVE  clock <= r.due
<1>1. /\ TypeOK /\ index \in Nat /\ index < Cycles /\ clock \in Nat
      /\ \A k \in Lines : shift[k] \in Int
  BY InputTypes DEF EInv, Position
<1>2. CASE r \in EarlyReports(index)
  <2>1. PICK d \in 1..3 : /\ index + d < Cycles /\ -d * Frame < shift[index + d]
                          /\ r = [target |-> index + d, from |-> index,
                                  due |-> clock + d * Frame + shift[index + d]]
    BY <1>2 DEF EarlyReports
  <2>2. shift[index + d] \in Int /\ r.due = clock + d * Frame + shift[index + d]
    BY <1>1, <2>1, Sizes DEF Lines
  <2> QED
    BY <1>1, <2>1, <2>2, Multiples, Sizes
<1>3. CASE r \in LateReport(index)
  <2>1. shift[index] \in Int
    BY <1>1, Sizes DEF Lines
  <2>2. shift[index] >= 0 /\ r = [target |-> index, from |-> index, due |-> clock + shift[index]]
    BY <1>3 DEF LateReport
  <2>3. r.due = clock + shift[index]
    BY <2>2
  <2> QED
    BY <1>1, <2>1, <2>2, <2>3
<1> QED
  BY <1>2, <1>3

LEMMA PlayIsNext == Play => Next /\ UNCHANGED <<relay, delivered>>
  BY DEF Play, Next, Sleep

\* What a step of the playback does to the clock and the reports.
LEMMA PlayKeepsTime ==
  ASSUME EInv, RelayInv, Play
  PROVE  /\ Punctual' /\ reports \subseteq reports'
         /\ ~Ended' => ~Ended /\ \A r \in reports' \ reports : now <= r.due
<1>1. now' = now /\ now \in Nat /\ clock \in Nat
  BY PlayIsNext, InputTypes DEF relay, RelayInv, Punctual, EInv
<1>2. CASE PrepareLine
  <2>1. pc = "prepare" /\ pc' \in {"prepare", "crashed"} /\ UNCHANGED <<clock, reports>>
    BY <1>2 DEF PrepareLine
  <2> QED
    BY <1>1, <2>1 DEF RelayInv, Punctual, Ended
<1>3. CASE EndPrepare \/ WrongNumber \/ Handover
  <2>1. /\ UNCHANGED <<clock, reports>>
        /\ \/ pc = "prepare" /\ pc' = "cycle"
           \/ pc = "cycle" /\ pc' = "returned"
           \/ pc = "handover" /\ pc' = "handover"
    BY <1>3 DEF EndPrepare, WrongNumber, Handover
  <2> QED
    BY <1>1, <2>1 DEF RelayInv, Punctual, Ended
<1>4. CASE LoseService
  <2>1. /\ pc = "cycle" /\ pc' = "asleep"
        /\ reports' = reports \cup EarlyReports(index)
    BY <1>4 DEF LoseService, RightNumber
  <2>3. PICK busy \in 0..MaxCut : clock' = clock + busy + Frame
    BY <1>4 DEF LoseService
  <2>2. now = clock /\ now <= clock'
    BY <1>1, <2>1, <2>3, Sizes DEF RelayInv, Punctual
  <2> QED
    BY <1>1, <2>1, <2>2, ReportsAhead DEF Punctual, Ended
<1>5. CASE TakeRoute
  <2>1. /\ pc = "cycle" /\ pc' \in {"crashed", "handover"} /\ clock' = clock
        /\ reports \subseteq reports'
        /\ reports' \subseteq reports \cup EarlyReports(index) \cup LateReport(index)
    BY <1>5 DEF TakeRoute, RightNumber
  <2>2. now = clock
    BY <2>1 DEF RelayInv, Punctual
  <2> QED
    BY <1>1, <2>1, <2>2, ReportsAhead DEF Punctual, Ended
<1>6. CASE Sleep
  <2>1. /\ pc = "handover" /\ pc' = "asleep" /\ UNCHANGED reports
        /\ clock' = clock + Later(Frame, now - clock)
    BY <1>6 DEF Sleep, Reconfigure
  <2>2. now <= clock'
    BY <1>1, <2>1, Sizes DEF Later
  <2> QED
    BY <1>1, <2>1, <2>2 DEF Punctual, Ended
<1>7. CASE now = clock /\ Wake
  <2>1. /\ pc = "asleep" /\ pc' \in {"cycle", "done"} /\ UNCHANGED <<clock, reports>>
    BY <1>7 DEF Wake
  <2> QED
    BY <1>1, <1>7, <2>1 DEF Punctual, Ended
<1> QED
  BY <1>2, <1>3, <1>4, <1>5, <1>6, <1>7 DEF Play

LEMMA RelayInit == InhibitionInit => EInv /\ RelayInv
<1> SUFFICES ASSUME InhibitionInit PROVE EInv /\ RelayInv
  OBVIOUS
<1>1. EInv
  BY EmulatorInit DEF InhibitionInit
<1>2. now = 0 /\ clock = 0 /\ pc = "prepare" /\ delivered = {} /\ reports = {}
      /\ inhibited = FALSE /\ last = now
  BY DEF InhibitionInit, Init, Relay!Init
<1>3. Punctual /\ Sending
  BY <1>2 DEF Punctual, Sending
<1>4. Holding
  <2>1. inhibited \in BOOLEAN
    BY <1>2, Zenon
  <2>3. last \in Nat /\ last <= now
    BY <1>2
  <2>2. ~inhibited /\ ~(delivered # {})
    BY <1>2
  <2> QED
    BY <2>1, <2>2, <2>3, Zenon DEF Holding
<1> QED
  BY <1>1, <1>3, <1>4 DEF RelayInv

LEMMA RelayNext == EInv /\ RelayInv /\ [InhibitionNext]_allVars => EInv' /\ RelayInv'
<1> SUFFICES ASSUME EInv, RelayInv, [InhibitionNext]_allVars PROVE EInv' /\ RelayInv'
  OBVIOUS
<1>1. EInv'
  <2>1. [Next]_vars
    BY PlayIsNext DEF InhibitionNext, Deliver, EndInhibition, Tick, allVars
  <2> QED
    BY <2>1, EmulatorNext
<1>2. now \in Nat /\ last \in Nat /\ \A r \in reports : r.due \in Int
  <2>1. ASSUME NEW r \in reports PROVE r.due \in Int
    <3> DEFINE d == r.target - r.from
    <3>1. /\ r.from \in 0..(Len(began) - 1) /\ d \in 0..3 /\ shift[r.target] \in Int
          /\ r.due = began[r.from + 1] + d * Frame + shift[r.target]
      BY ReportShape
    <3> HIDE DEF d
    <3>2. began[r.from + 1] \in Nat /\ d * Frame \in Nat
      BY <3>1, InputTypes, Sizes DEF EInv
    <3> QED
      BY <3>1, <3>2
  <2> QED
    BY <2>1 DEF RelayInv, Punctual, Holding
<1>3. CASE Play
  <2>1. UNCHANGED <<inhibited, last, now, delivered>>
    BY <1>3, PlayIsNext DEF relay
  <2>2. /\ Punctual' /\ reports \subseteq reports'
        /\ ~Ended' => ~Ended /\ \A r \in reports' \ reports : now <= r.due
    BY <1>3, PlayKeepsTime
  <2>3. Sending'
    BY <2>1, <2>2 DEF RelayInv, Sending
  <2>4. Holding'
    BY <2>1 DEF RelayInv, Holding
  <2> QED
    BY <1>1, <2>2, <2>3, <2>4 DEF RelayInv
<1>4. CASE Deliver
  <2>1. PICK r \in reports \ delivered :
          /\ r.due = now /\ delivered' = delivered \cup {r}
          /\ inhibited' = TRUE /\ last' = now /\ now' = now /\ UNCHANGED vars
    BY <1>4 DEF Deliver, Relay!Renew
  <2>2. UNCHANGED <<pc, clock, reports>>
    BY <2>1 DEF vars
  <2>3. Punctual'
    BY <2>1, <2>2 DEF RelayInv, Punctual
  <2>4. Sending'
    BY <1>2, <2>1, <2>2 DEF RelayInv, Sending, Holding, Ended
  <2>5. Holding'
    BY <1>2, <2>1, DurationIsTime DEF Holding
  <2> QED
    BY <1>1, <2>3, <2>4, <2>5 DEF RelayInv
<1>5. CASE EndInhibition
  <2>1. /\ inhibited /\ last + Duration < now /\ inhibited' = FALSE
        /\ UNCHANGED <<last, now, delivered>> /\ UNCHANGED vars
    BY <1>5 DEF EndInhibition, Relay!Expire, Relay!Overdue
  <2>2. UNCHANGED <<pc, clock, reports>>
    BY <2>1 DEF vars
  <2>3. Punctual' /\ Sending' /\ Holding'
    BY <2>1, <2>2 DEF RelayInv, Punctual, Sending, Holding, Ended
  <2> QED
    BY <1>1, <2>3 DEF RelayInv
<1>6. CASE Tick
  <2>1. /\ \/ pc = "handover"
           \/ pc = "asleep" /\ now < clock
           \/ Ended
        /\ Ended \/ \A r \in reports \ delivered : r.due # now
        /\ ~(inhibited /\ last + Duration < now)
        /\ now' = now + 1 /\ UNCHANGED <<inhibited, last, delivered>> /\ UNCHANGED vars
    BY <1>6 DEF Tick, Relay!Tick, Relay!Overdue
  <2>2. UNCHANGED <<pc, clock, reports>> /\ clock \in Nat
    BY <2>1, InputTypes DEF vars, EInv
  <2>3. Punctual'
    BY <1>2, <2>1, <2>2 DEF RelayInv, Punctual, Ended
  <2>4. Sending'
    BY <1>2, <2>1, <2>2 DEF RelayInv, Sending, Ended
  <2>5. Holding'
    BY <1>2, <2>1, DurationIsTime DEF RelayInv, Holding
  <2> QED
    BY <1>1, <2>3, <2>4, <2>5 DEF RelayInv
<1>7. CASE UNCHANGED allVars
  <2>1. UNCHANGED <<inhibited, last, now, delivered, pc, clock, reports>>
    BY <1>7 DEF allVars, relay, vars
  <2> QED
    BY <1>1, <2>1 DEF RelayInv, Punctual, Sending, Holding, Ended
<1> QED
  BY <1>3, <1>4, <1>5, <1>6, <1>7 DEF InhibitionNext

\* A link is broken only for a handover of the cycle.
LEMMA BrokenIsPlanned ==
  ASSUME EInv, Pools!Broken # {}
  PROVE  Breaking
<1>1. PICK l \in Phase!Links : Phase!Live(l)
  BY DEF Pools!Broken, Pools!Live, Pools!Links, Phase!Live, Phase!Links
<1>2. Phase!TypeOK /\ Phase!Grouping /\ Phase!Staging
  BY DEF EInv, PhaseKept, Phase!PhaseInv
<1>3. l \in marks \cup ends
  BY <1>1, <1>2 DEF Phase!TypeOK, Phase!Grouping, Phase!Staging, Phase!Live
<1> QED
  BY <1>3 DEF Breaking

\* A number between two multiples of the frame.
LEMMA Quotient ==
  ASSUME NEW a \in Nat, NEW d \in 1..3, (d - 1) * Frame < a, a < d * Frame
  PROVE  a \div Frame = d - 1
<1> DEFINE q == a \div Frame
<1>1. q \in Nat /\ a % Frame \in 0..(Frame - 1) /\ a = Frame * q + (a % Frame)
  BY Sizes
<1> HIDE DEF q
<1>2. Frame * q <= a /\ a < Frame * q + Frame /\ Frame * q \in Nat
  BY <1>1, Sizes
<1>3. q >= 3 => Frame * q >= Frame + Frame + Frame
  <2>1. q >= 3 => q - 3 \in Nat /\ Frame * q = Frame * (q - 3) + (Frame + Frame + Frame)
    BY <1>1, Sizes
  <2>2. q >= 3 => Frame * (q - 3) \in Nat
    BY <2>1, Sizes
  <2> QED
    BY <2>1, <2>2, Sizes
<1>4. /\ q = 0 => Frame * q = 0
      /\ q = 1 => Frame * q = Frame
      /\ q = 2 => Frame * q = Frame + Frame
  BY Sizes
<1>5. q = d - 1
  BY <1>1, <1>2, <1>3, <1>4, Multiples, Sizes
<1> QED
  BY <1>5 DEF q

\* The window that a report was started in says where it was started from.
LEMMA LostBound ==
  ASSUME EInv, NEW r \in reports, r.target < Len(began)
  PROVE  /\ Lost(r.target) = MayLose(r.from, r.target) /\ Lost(r.target) \in Nat
         /\ began[r.target + 1] \in Nat /\ shift[r.target] \in Int /\ r.due \in Int
         /\ r.due <= began[r.target + 1] + shift[r.target]
         /\ (began[r.target + 1] + shift[r.target]) - Lost(r.target) <= r.due
<1> DEFINE d == r.target - r.from
           t == r.target
<1>1. /\ t \in Lines /\ t \in Nat /\ r.from \in Nat /\ d \in 0..3 /\ shift[t] \in Int
      /\ r.from = t - d /\ r.from <= t
  BY ReportShape, Sizes DEF Lines
<1>2. \/ d \in 1..3 /\ InWindow(t, d)
      \/ d = 0 /\ shift[t] >= 0
  BY <1>1 DEF EInv, ReportsKept, EarlyKept, LateKept
<1>3. MayLose(r.from, t) \in Nat /\ MayLose(r.from, r.from) = 0
  BY <1>1, LossAdds
<1>4. Lost(t) = MayLose(r.from, t)
  <2> HIDE DEF d, t
  <2>1. CASE d = 0 /\ shift[t] >= 0
    BY <1>1, <1>3, <2>1 DEF Lost
  <2>2. CASE d \in 1..3 /\ InWindow(t, d)
    <3>1. shift[t] < 0 /\ -d * Frame < shift[t] /\ shift[t] < -(d - 1) * Frame
      BY <1>1, <2>2, OneWindow DEF EInv, InWindow
    <3>2. (-shift[t]) \div Frame = d - 1
      <4>1. d * Frame \in Nat /\ (d - 1) * Frame \in Nat
        BY <2>2, Sizes
      <4>2. -shift[t] \in Nat /\ (d - 1) * Frame < -shift[t] /\ -shift[t] < d * Frame
        BY <1>1, <3>1, <4>1
      <4> QED
        BY <2>2, <4>2, Quotient
    <3>3. t - ((-shift[t]) \div Frame + 1) = r.from
      BY <1>1, <2>2, <3>2
    <3>4. ~(shift[t] >= 0)
      BY <1>1, <3>1
    <3> QED
      BY <3>3, <3>4 DEF Lost
  <2> QED
    BY <1>2, <2>1, <2>2
<1> QED
  BY <1>1, <1>3, <1>4, NoSlack DEF t

LEMMA Covered == EInv /\ RelayInv => InhibitionCovers
<1> SUFFICES ASSUME EInv, RelayInv, pc = "handover", Pools!Broken # {}, HasWindow(index),
                    clock + shift[index] < now,
                    now <= clock + shift[index] + Duration - Lost(index)
             PROVE  inhibited
  BY DEF InhibitionCovers
<1>1. PICK r \in reports : r.target = index
  BY BrokenIsPlanned, WindowsUsed DEF HandoversAreReported
<1>2. /\ clock = began[index + 1] /\ index < Len(began) /\ index \in Lines
      /\ shift[index] \in Int /\ clock \in Nat
  BY ListIsTrue, InputTypes DEF EInv, ClockKept, Position
<1>3. /\ r.due \in Int /\ Lost(index) \in Nat
      /\ r.due <= clock + shift[index] /\ (clock + shift[index]) - Lost(index) <= r.due
  BY <1>1, <1>2, LostBound
<1>4. now \in Nat /\ last \in Nat
  BY DEF RelayInv, Punctual, Holding
<1>5. r \in delivered
  BY <1>2, <1>3, <1>4 DEF RelayInv, Sending, Ended
<1>6. r.due <= last
  BY <1>5 DEF RelayInv, Sending
<1>7. now <= last + Duration
  BY <1>2, <1>3, <1>4, <1>6, DurationIsTime
<1> QED
  BY <1>4, <1>5, <1>7, DurationIsTime DEF RelayInv, Holding

\* A report is for a line with a handover.
LEMMA ReportIsForChange ==
  ASSUME EInv, NEW r \in reports
  PROVE  RouteChanges(r.target)
<1>1. /\ TypeOK /\ r.target \in Lines /\ r.target \in Nat /\ Valid(r.target)
      /\ r.from \in Nat /\ (EarlyKept(r) \/ LateKept(r))
  BY ReportShape, ReportTrue, Sizes DEF EInv, ReportsKept, Lines
<1>2. r.target = 0 \/ Planned(r.target)
  BY <1>1 DEF EarlyKept, LateKept
<1>3. r.target # 0 => r.target - 1 \in Lines
  BY <1>1, Sizes DEF Lines
<1> QED
  BY <1>1, <1>2, <1>3, PlannedIsChange DEF RouteChanges

LEMMA Due == EInv /\ RelayInv => InhibitionIsDue
<1> SUFFICES ASSUME EInv, RelayInv, inhibited PROVE InhibitionIsDue
  BY DEF InhibitionIsDue
<1>1. PICK r \in reports : r.due = last
  BY DEF RelayInv, Sending
<1>2. r.due <= now /\ now <= r.due + Duration + 1
  BY <1>1 DEF RelayInv, Holding
<1>3. RouteChanges(r.target)
  BY ReportIsForChange
<1>4. r.target < Len(began) =>
        /\ r.due <= began[r.target + 1] + shift[r.target]
        /\ (began[r.target + 1] + shift[r.target]) - Lost(r.target) <= r.due
  BY LostBound
<1> QED
  BY <1>2, <1>3, <1>4 DEF InhibitionIsDue

LEMMA Completes == EInv => SomeHandoverCompletes
<1> SUFFICES ASSUME EInv PROVE SomeHandoverCompletes
  OBVIOUS
<1>1. Phase!SomeHandoverCompletes
  BY ParametersAreSane, Phase!SomeCarriedOut DEF EInv, PhaseKept
<1> QED
  BY <1>1 DEF SomeHandoverCompletes, Pools!SomeHandoverCompletes, Phase!SomeHandoverCompletes

\* The playback keeps its invariant on a running clock, and the relay its own.
THEOREM RelayInvariance == InhibitionSpec => [](EInv /\ RelayInv)
<1>1. InhibitionInit => EInv /\ RelayInv
  BY RelayInit
<1>2. EInv /\ RelayInv /\ [InhibitionNext]_allVars => EInv' /\ RelayInv'
  BY RelayNext
<1> QED
  BY <1>1, <1>2, PTL DEF InhibitionSpec

\* While a link of a handover is down the congestion control is held still,
\* from the planned time of its report on and for the duration, less what the
\* cycles that the report was waited for in may take beyond their frames
\* (emulator.py:272-294 with the relay).
THEOREM HandoversCovered == InhibitionSpec => []InhibitionCovers
<1>1. EInv /\ RelayInv => InhibitionCovers
  BY Covered
<1> QED
  BY <1>1, RelayInvariance, PTL

\* The congestion control is held still only around a handover of the file, a
\* line whose route is not that of the line before, and no longer than the
\* duration (emulator.py:269-294, 351-355 with the relay).
THEOREM InhibitionsDue == InhibitionSpec => []InhibitionIsDue
<1>1. EInv /\ RelayInv => InhibitionIsDue
  BY Due
<1> QED
  BY <1>1, RelayInvariance, PTL

\* Not all handovers of a cycle are cut short, on a chain of any length
\* (emulator.py:345-362).
THEOREM SomeHandoverCarriedOut == InhibitionSpec => []SomeHandoverCompletes
<1>1. EInv => SomeHandoverCompletes
  BY Completes
<1> QED
  BY <1>1, RelayInvariance, PTL
==============================================================================
