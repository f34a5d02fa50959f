------------------------ MODULE HandoverPools_proofs ------------------------
(***************************************************************************)
(* Proofs about the handover phase for chains of any length: some handover *)
(* of every phase completes, and on a chain of four or more switches no    *)
(* two threads meet in a switch, hence no command is refused, hence every  *)
(* planned handover is carried out, and the phase implements LinkBreaks.   *)
(*                                                                         *)
(* NoHandoverLost and OneInterfacePerNode are not inductive: IInv adds     *)
(* what the grouping loop has achieved so far (Grouping), which threads    *)
(* may live in which phase (Staging), how far a thread has come            *)
(* (Progress), and who cut a handover short (Company).                     *)
(***************************************************************************)
EXTENDS HandoverPools, TLAPS

\* With three switches the two end links meet in the only satellite.
LongChain == Hops >= 4

\* What the loop does to a list: its range, its last element.
LEMMA AppendFacts ==
  ASSUME NEW S, NEW g \in Seq(S), NEW k \in S
  PROVE  /\ Append(g, k) \in Seq(S)
         /\ Append(g, k) # << >>
         /\ LastOf(Append(g, k)) = k
         /\ Range(Append(g, k)) = Range(g) \cup {k}
<1> DEFINE h == Append(g, k)
<1>1. h \in Seq(S) /\ Len(h) = Len(g) + 1 /\ Len(g) \in Nat
  OBVIOUS
<1>2. \A m \in 1..Len(g) : h[m] = g[m]
  OBVIOUS
<1>3. h[Len(g) + 1] = k
  OBVIOUS
<1>4. DOMAIN h = 1..(Len(g) + 1) /\ DOMAIN g = 1..Len(g)
  OBVIOUS
<1>5. Range(h) = {h[m] : m \in 1..(Len(g) + 1)} /\ Range(g) = {g[m] : m \in 1..Len(g)}
  BY <1>4, Zenon DEF Range
<1>6. Range(h) = Range(g) \cup {k}
  <2>1. ASSUME NEW x \in Range(h) PROVE x \in Range(g) \cup {k}
    <3>1. PICK m \in 1..(Len(g) + 1) : x = h[m]
      BY <1>5
    <3>2. m \in 1..Len(g) \/ m = Len(g) + 1
      BY <1>1
    <3> QED
      BY <1>2, <1>3, <1>5, <3>1, <3>2
  <2>2. ASSUME NEW x \in Range(g) PROVE x \in Range(h)
    <3>1. PICK m \in 1..Len(g) : x = g[m]
      BY <1>5
    <3>2. m \in 1..(Len(g) + 1)
      BY <1>1
    <3> QED
      BY <1>2, <1>5, <3>1, <3>2
  <2>3. k \in Range(h)
    <3>1. Len(g) + 1 \in 1..(Len(g) + 1)
      BY <1>1
    <3> QED
      BY <1>3, <1>5, <3>1
  <2> QED
    BY <2>1, <2>2, <2>3
<1>7. LastOf(h) = k
  BY <1>1, <1>3 DEF LastOf
<1>8. h # << >>
  BY <1>1
<1> QED
  BY <1>1, <1>6, <1>7, <1>8

LEMMA EmptyRange == Range(<< >>) = {}
  BY DEF Range

LEMMA RangeType ==
  ASSUME NEW S, NEW g \in Seq(S)
  PROVE  Range(g) \subseteq S
<1>1. DOMAIN g = 1..Len(g)
  OBVIOUS
<1>2. \A m \in 1..Len(g) : g[m] \in S
  OBVIOUS
<1> QED
  BY <1>1, <1>2 DEF Range

\* The two groups are sets of links without neighbours, and two live threads
\* of a phase come from one group, or are the two end handovers.
LEMMA Exclusive ==
  ASSUME LongChain, TypeOK, Grouping, Staging
  PROVE  OneInterfacePerNode
<1> SUFFICES ASSUME NEW k \in Links, NEW l \in Links, k # l, Live(k), Live(l),
                    ShareSwitch(k, l)
             PROVE  FALSE
  BY DEF OneInterfacePerNode
<1>1. k \in Int /\ l \in Int /\ (k - l = 1 \/ l - k = 1)
  BY HopsAssumption DEF Links, ShareSwitch
<1>2. CASE phase = "pool1"
  <2>1. k \in Range(group1) /\ l \in Range(group1)
    BY <1>2 DEF Staging, Live
  <2> QED
    BY <2>1, <1>1 DEF Grouping
<1>3. CASE phase = "pool2"
  <2>1. /\ k \notin Range(group1) /\ l \notin Range(group1)
        /\ k \in Range(group2) /\ l \in Range(group2)
    BY <1>3 DEF Staging, Live
  <2>2. k - 1 \in Range(group1) /\ l - 1 \in Range(group1)
    BY <2>1 DEF Grouping
  <2>3. k - 1 = l \/ l - 1 = k
    BY <1>1
  <2> QED
    BY <2>1, <2>2, <2>3
<1>4. CASE phase = "ends"
  <2>1. k \in EndLinks /\ l \in EndLinks
    BY <1>4 DEF Staging, Live, TypeOK
  <2> QED
    BY <2>1, <1>1, HopsAssumption DEF EndLinks, LongChain
<1>5. CASE phase \in {"idle", "grouping", "joined"}
  BY <1>5 DEF Staging, Live
<1> QED
  BY <1>2, <1>3, <1>4, <1>5 DEF TypeOK

\* So the shell a thread needs is free.
LEMMA NobodyRefused ==
  ASSUME TypeOK, OneInterfacePerNode, NEW l \in Links, thread[l] = "ready"
  PROVE  ~ShellBusy(l)
<1> SUFFICES ASSUME NEW k \in Links, thread[k] = "running", ShellOf(k) = ShellOf(l)
             PROVE  FALSE
  BY DEF ShellBusy
<1>1. k \in Int /\ l \in Int /\ Hops \in Int
  BY HopsAssumption DEF Links
<1>2. SideOf(count[k]) \in {1, 2} /\ SideOf(count[l]) \in {1, 2}
  BY DEF SideOf
<1>3. ShellOf(k) \in {k, k + 1}
  BY <1>1, <1>2 DEF ShellOf, SwitchOf
<1>4. ShellOf(l) \in {l, l + 1}
  BY <1>1, <1>2 DEF ShellOf, SwitchOf
<1>5. ShareSwitch(k, l)
  BY <1>1, <1>3, <1>4 DEF ShareSwitch
<1>6. k # l /\ Live(k) /\ Live(l)
  BY DEF Live
<1> QED
  BY <1>5, <1>6 DEF OneInterfacePerNode
\* A cycle begins with every link up and no thread.
LEMMA FreshPhase ==
  ASSUME phase' = "grouping", marks' \in SUBSET Interior, ends' \in SUBSET EndLinks,
         i' = 0, group1' = << >>, group2' = << >>, up' = AllUp,
         thread' = [l \in Links |-> "none"], count' = [l \in Links |-> 0]
  PROVE  PhaseInv'
<1>1. TypeOK'
  BY HopsAssumption DEF TypeOK, AllUp
<1>2. Grouping'
  <2>1. \A k \in marks' : ~(k < 0)
    BY HopsAssumption DEF Interior
  <2> QED
    BY <2>1, EmptyRange DEF Grouping
<1>3. Staging'
  BY DEF Staging, Live
<1>4. Progress'
  <2> SUFFICES ASSUME NEW l \in Links
               PROVE  /\ thread'[l] = "none" /\ count'[l] = 0
                      /\ up'[<<l, 1>>] = (0 \notin {1, 2})
                      /\ up'[<<l, 2>>] = (0 \notin {2, 3})
    BY DEF Progress, Live
  <2>1. up'[<<l, 1>>] = TRUE /\ up'[<<l, 2>>] = TRUE
    BY DEF AllUp, Sides
  <2>2. (0 \notin {1, 2}) = TRUE /\ (0 \notin {2, 3}) = TRUE
    OBVIOUS
  <2>3. thread'[l] = "none" /\ count'[l] = 0
    OBVIOUS
  <2> QED
    BY <2>1, <2>2, <2>3, Zenon
<1>5. Company'
  BY DEF Company
<1> QED
  BY <1>1, <1>2, <1>3, <1>4, <1>5 DEF PhaseInv

\* Between two phases only the interfaces change.
LEMMA PhaseOver ==
  ASSUME PhaseInv, phase \in {"idle", "joined"}, phase' = "idle",
         UNCHANGED <<marks, ends, i, group1, group2, thread, count>>,
         up' \in [Links \X Sides -> BOOLEAN]
  PROVE  PhaseInv'
<1>1. TypeOK' /\ Grouping' /\ Staging'
  BY DEF PhaseInv, TypeOK, Grouping, Staging, Live
<1>2. Progress' /\ Company'
  BY DEF PhaseInv, Progress, Company, Live
<1> QED
  BY <1>1, <1>2 DEF PhaseInv

LEMMA InitInvariant == Init => IInv
<1> SUFFICES ASSUME Init PROVE IInv
  OBVIOUS
<1>1. TypeOK
  BY HopsAssumption DEF Init, TypeOK, AllUp
<1>2. Grouping
  BY EmptyRange DEF Init, Grouping
<1>3. Staging
  BY DEF Init, Staging, Live
<1>4. Progress /\ Company
  BY DEF Init, Progress, Company, Live
<1> QED
  BY <1>1, <1>2, <1>3, <1>4 DEF IInv, PhaseInv, Init

\* One iteration of the loop keeps the groups apart.
LEMMA GroupLinkInvariant == PhaseInv /\ GroupLink => PhaseInv'
<1> SUFFICES ASSUME PhaseInv, GroupLink PROVE PhaseInv'
  OBVIOUS
<1> USE DEF PhaseInv
<1>1. /\ i \in Nat /\ i < Hops - 1 /\ i' = i + 1 /\ phase = "grouping" /\ phase' = phase
      /\ marks' = marks /\ ends' = ends /\ thread' = thread /\ count' = count /\ up' = up
  BY DEF GroupLink, TypeOK
<1>2. /\ group1 \in Seq(Interior) /\ group2 \in Seq(Interior) /\ marks \subseteq Interior
  BY DEF TypeOK
<1>3. /\ \A k \in Range(group1) : k \in Int
      /\ \A k \in Range(group2) : k \in Int
      /\ \A k \in marks : k \in Int
  <2>1. Range(group1) \subseteq Interior /\ Range(group2) \subseteq Interior
    BY <1>2, RangeType
  <2> QED
    BY <1>2, <2>1, HopsAssumption DEF Interior
<1>4. CASE i \notin marks
  <2>1. group1' = group1 /\ group2' = group2
    BY <1>4 DEF GroupLink
  <2>2. TypeOK'
    BY <1>1, <2>1, HopsAssumption DEF TypeOK
  <2>3. Grouping'
    BY <1>1, <1>2, <1>3, <1>4, <2>1 DEF Grouping
  <2> QED
    BY <1>1, <2>1, <2>2, <2>3 DEF Staging, Progress, Company, Live
<1>5. CASE i \in marks /\ (group1 = << >> \/ LastOf(group1) # i - 1)
  <2>1. group1' = Append(group1, i) /\ group2' = group2
    BY <1>5 DEF GroupLink
  <2>2. /\ group1' \in Seq(Interior) /\ group1' # << >> /\ LastOf(group1') = i
        /\ Range(group1') = Range(group1) \cup {i}
    BY <1>2, <1>5, <2>1, AppendFacts
  <2>3. TypeOK'
    BY <1>1, <2>1, <2>2, HopsAssumption DEF TypeOK
  \* The last element is the largest, so i - 1 is not in group 1 at all.
  <2>4. i - 1 \notin Range(group1)
    <3>1. CASE group1 = << >>
      BY <3>1, EmptyRange
    <3>2. CASE group1 # << >> /\ LastOf(group1) # i - 1
      <4>1. LastOf(group1) < i - 1
        BY <1>1, <1>3, <3>2 DEF Grouping
      <4> QED
        BY <1>1, <1>3, <3>2, <4>1 DEF Grouping
    <3> QED
      BY <1>5, <3>1, <3>2
  <2>5. i \notin Range(group1) /\ i \notin Range(group2)
    BY <1>1, <1>3 DEF Grouping
  <2>6. Grouping'
    <3>1. \A k \in Range(group1') : k \in marks /\ k < i + 1 /\ k <= i
      BY <1>1, <1>3, <1>5, <2>2 DEF Grouping
    <3>2. \A k \in Range(group2) :
            k \in marks /\ k < i + 1 /\ k - 1 \in Range(group1') /\ k \notin Range(group1')
      BY <1>1, <1>3, <2>2, <2>5 DEF Grouping
    <3>3. \A k, l \in Range(group1') : k - l # 1
      BY <1>1, <1>3, <2>2, <2>4, <2>5 DEF Grouping
    <3>4. \A k \in marks : k < i + 1 => k \in Range(group1') \cup Range(group2)
      BY <1>1, <1>2, <1>3, <2>2 DEF Grouping
    <3> QED
      BY <1>1, <2>1, <2>2, <3>1, <3>2, <3>3, <3>4 DEF Grouping
  <2> QED
    BY <1>1, <2>1, <2>3, <2>6 DEF Staging, Progress, Company, Live
<1>6. CASE i \in marks /\ group1 # << >> /\ LastOf(group1) = i - 1
  <2>1. group2' = Append(group2, i) /\ group1' = group1
    BY <1>6 DEF GroupLink
  <2>2. group2' \in Seq(Interior) /\ Range(group2') = Range(group2) \cup {i}
    BY <1>2, <1>6, <2>1, AppendFacts
  <2>3. TypeOK'
    BY <1>1, <2>1, <2>2, HopsAssumption DEF TypeOK
  <2>4. i \notin Range(group1) /\ i - 1 \in Range(group1)
    BY <1>1, <1>3, <1>6 DEF Grouping
  <2>5. Grouping'
    <3>1. \A k \in Range(group1) : k \in marks /\ k < i + 1 /\ k <= LastOf(group1)
      BY <1>1, <1>3 DEF Grouping
    <3>2. \A k \in Range(group2') :
            k \in marks /\ k < i + 1 /\ k - 1 \in Range(group1) /\ k \notin Range(group1)
      BY <1>1, <1>3, <1>6, <2>2, <2>4 DEF Grouping
    <3>3. \A k \in marks : k < i + 1 => k \in Range(group1) \cup Range(group2')
      BY <1>1, <1>2, <1>3, <2>2 DEF Grouping
    <3> QED
      BY <1>1, <2>1, <3>1, <3>2, <3>3 DEF Grouping
  <2> QED
    BY <1>1, <2>1, <2>3, <2>5 DEF Staging, Progress, Company, Live
<1> QED
  BY <1>4, <1>5, <1>6
\* A pool starts where every thread before it has ended.
LEMMA StartInvariant ==
  ASSUME PhaseInv, StartPool1 \/ StartPool2 \/ StartEnds \/ JoinEnds
  PROVE  PhaseInv'
<1> USE DEF PhaseInv
<1>1. /\ marks' = marks /\ ends' = ends /\ i' = i /\ group1' = group1 /\ group2' = group2
      /\ count' = count /\ up' = up
  BY DEF StartPool1, StartPool2, StartEnds, JoinEnds
<1>2. /\ thread \in [Links -> {"none", "ready", "running", "ended"}]
      /\ Range(group1) \subseteq Interior /\ Range(group2) \subseteq Interior
      /\ marks \subseteq Interior /\ ends \subseteq EndLinks
      /\ EndLinks \subseteq Links /\ EndLinks \cap Interior = {}
  <2>1. EndLinks \subseteq Links /\ EndLinks \cap Interior = {}
    BY HopsAssumption DEF EndLinks, Links, Interior
  <2> QED
    BY <2>1, RangeType DEF TypeOK
\* Whoever is submitted has no thread yet.
<1>3. ASSUME NEW nodes, Submit(nodes), \A l \in Links : l \in nodes => thread[l] = "none",
             phase # "idle", phase' # "idle"
      PROVE  /\ thread' \in [Links -> {"none", "ready", "running", "ended"}]
             /\ Progress' /\ Company'
             /\ \A l \in Links : thread'[l] = IF l \in nodes THEN "ready" ELSE thread[l]
  <2>1. \A l \in Links : thread'[l] = IF l \in nodes THEN "ready" ELSE thread[l]
    BY <1>3 DEF Submit
  <2>2. thread' \in [Links -> {"none", "ready", "running", "ended"}]
    BY <1>2, <1>3 DEF Submit
  <2>3. Progress'
    <3> SUFFICES ASSUME NEW l \in Links
                 PROVE  /\ thread'[l] = "none" => count[l] = 0
                        /\ thread'[l] \in {"ready", "running"} => count[l] \in 0..3
                        /\ up[<<l, 1>>] = (count[l] \notin {1, 2})
                        /\ up[<<l, 2>>] = (count[l] \notin {2, 3})
      BY <1>1, <1>3 DEF Progress, Live
    <3>1. /\ up[<<l, 1>>] = (count[l] \notin {1, 2})
          /\ up[<<l, 2>>] = (count[l] \notin {2, 3})
      BY <1>3 DEF Progress
    <3>2. CASE l \in nodes
      BY <1>3, <2>1, <3>1, <3>2 DEF Progress
    <3>3. CASE l \notin nodes
      BY <2>1, <3>1, <3>3 DEF Progress, Live
    <3> QED
      BY <3>2, <3>3
  <2>4. Company'
    <3> SUFFICES ASSUME NEW l \in Links, thread'[l] = "ended", count[l] # 4
                 PROVE  /\ Hops = 3
                        /\ \E k \in ends \ {l} : Live(k)' \/ (thread'[k] = "ended" /\ count[k] = 4)
      BY <1>1 DEF Company
    <3>1. thread[l] = "ended"
      BY <2>1
    <3>2. PICK k \in ends \ {l} : Live(k) \/ (thread[k] = "ended" /\ count[k] = 4)
      BY <3>1 DEF Company
    <3>3. k \in Links /\ thread[k] # "none"
      BY <1>2, <3>2 DEF Live
    <3>4. thread'[k] = thread[k]
      BY <1>3, <2>1, <3>3
    <3> QED
      BY <3>1, <3>2, <3>4 DEF Company, Live
  <2> QED
    BY <2>1, <2>2, <2>3, <2>4
<1>4. CASE StartPool1
  <2>1. phase = "grouping" /\ phase' = "pool1" /\ i = Hops - 1 /\ Submit(Range(group1))
    BY <1>4 DEF StartPool1
  <2>2. \A l \in Links : thread[l] = "none"
    BY <2>1 DEF Staging
  <2>3. /\ thread' \in [Links -> {"none", "ready", "running", "ended"}] /\ Progress' /\ Company'
        /\ \A l \in Links : thread'[l] = IF l \in Range(group1) THEN "ready" ELSE thread[l]
    BY <1>3, <2>1, <2>2
  <2>4. TypeOK'
    BY <1>1, <2>1, <2>3 DEF TypeOK
  <2>5. Grouping'
    BY <1>1, <2>1 DEF Grouping
  <2>6. Staging'
    BY <1>1, <2>1, <2>2, <2>3 DEF Staging
  <2> QED
    BY <2>3, <2>4, <2>5, <2>6
<1>5. CASE StartPool2
  <2>1. phase = "pool1" /\ phase' = "pool2" /\ Joined /\ Submit(Range(group2))
    BY <1>5 DEF StartPool2
  <2>2. \A l \in Links : IF l \in Range(group1) THEN thread[l] = "ended" ELSE thread[l] = "none"
    BY <1>2, <2>1 DEF Staging, Joined, Live
  <2>3. \A l \in Links : l \in Range(group2) => thread[l] = "none"
    BY <2>2 DEF Grouping
  <2>4. /\ thread' \in [Links -> {"none", "ready", "running", "ended"}] /\ Progress' /\ Company'
        /\ \A l \in Links : thread'[l] = IF l \in Range(group2) THEN "ready" ELSE thread[l]
    BY <1>3, <2>1, <2>3
  <2>5. TypeOK'
    BY <1>1, <2>1, <2>4 DEF TypeOK
  <2>6. Grouping'
    BY <1>1, <2>1 DEF Grouping
  <2>7. \A l \in Range(group2) : l \notin Range(group1)
    BY DEF Grouping
  <2>8. Staging'
    BY <1>1, <2>1, <2>2, <2>4, <2>7 DEF Staging
  <2> QED
    BY <2>4, <2>5, <2>6, <2>8
<1>6. CASE StartEnds
  <2>1. phase = "pool2" /\ phase' = "ends" /\ Joined /\ Submit(ends)
    BY <1>6 DEF StartEnds
  \* The groups are all of marks by now.
  <2>2. \A l \in marks : l \in Range(group1) \/ l \in Range(group2)
    <3>1. i = Hops - 1
      BY <2>1 DEF Grouping
    <3>2. \A l \in marks : l < Hops - 1
      BY <1>2, HopsAssumption DEF Interior
    <3> QED
      BY <2>1, <3>1, <3>2 DEF Grouping
  <2>3. \A l : l \in Range(group1) \/ l \in Range(group2) => l \in marks
    BY DEF Grouping
  <2>4. \A l \in Links : IF l \in marks THEN thread[l] = "ended" ELSE thread[l] = "none"
    BY <1>2, <2>1, <2>2, <2>3 DEF Staging, Joined, Live
  <2>5. \A l \in Links : l \in ends => thread[l] = "none"
    BY <1>2, <2>4
  <2>6. /\ thread' \in [Links -> {"none", "ready", "running", "ended"}] /\ Progress' /\ Company'
        /\ \A l \in Links : thread'[l] = IF l \in ends THEN "ready" ELSE thread[l]
    BY <1>3, <2>1, <2>5
  <2>7. TypeOK'
    BY <1>1, <2>1, <2>6 DEF TypeOK
  <2>8. Grouping'
    BY <1>1, <2>1 DEF Grouping
  <2>9. Staging'
    BY <1>1, <1>2, <2>1, <2>4, <2>6 DEF Staging
  <2> QED
    BY <2>6, <2>7, <2>8, <2>9
<1>7. CASE JoinEnds
  <2>1. phase = "ends" /\ phase' = "joined" /\ Joined /\ thread' = thread
    BY <1>7 DEF JoinEnds
  <2>2. TypeOK' /\ Grouping' /\ Progress' /\ Company'
    BY <1>1, <2>1 DEF TypeOK, Grouping, Progress, Company, Live
  <2>3. \A l \in Links : l \in marks \/ l \in ends => thread[l] = "ended"
    BY <1>2, <2>1 DEF Staging, Joined, Live
  <2>4. Staging'
    BY <1>1, <2>1, <2>3 DEF Staging, Joined, Live
  <2> QED
    BY <2>2, <2>4
<1> QED
  BY <1>4, <1>5, <1>6, <1>7
\* Only the ends of a chain of three can be refused: on a longer chain the
\* shell that a thread needs is free.
LEMMA RefusedOnlyThere ==
  ASSUME PhaseInv, NEW l \in Links, thread[l] = "ready", ShellBusy(l)
  PROVE  Hops = 3 /\ \E k \in ends \ {l} : k \in Links /\ thread[k] = "running"
<1> USE DEF PhaseInv
<1>1. ~LongChain
  BY Exclusive, NobodyRefused
<1>2. Hops = 3
  BY <1>1, HopsAssumption DEF LongChain
<1>3. PICK k \in Links : thread[k] = "running"
  BY DEF ShellBusy
<1>4. marks = {} /\ Range(group1) = {} /\ Range(group2) = {}
  <2>1. Interior = {}
    BY <1>2 DEF Interior
  <2> QED
    BY <2>1, RangeType DEF TypeOK
<1>5. phase = "ends" /\ k \in ends
  BY <1>3, <1>4 DEF Staging, Live, TypeOK
<1> QED
  BY <1>2, <1>3, <1>5

\* No command is refused: the shell a thread needs is free.
LEMMA CommandStarts ==
  ASSUME LongChain, PhaseInv, NEW l \in Links, StartCommand(l)
  PROVE  /\ thread[l] = "ready" /\ thread' = [thread EXCEPT ![l] = "running"]
         /\ UNCHANGED <<phase, marks, ends, i, group1, group2, count, up>>
<1>1. ~ShellBusy(l)
  BY RefusedOnlyThere DEF StartCommand, LongChain
<1> QED
  BY <1>1 DEF StartCommand

LEMMA StartCommandInvariant ==
  ASSUME PhaseInv, NEW l \in Links, StartCommand(l)
  PROVE  PhaseInv'
<1> USE DEF PhaseInv
<1> DEFINE now == IF ShellBusy(l) THEN "ended" ELSE "running"
<1>1. /\ thread[l] = "ready" /\ thread' = [thread EXCEPT ![l] = now]
      /\ now \in {"ended", "running"}
      /\ UNCHANGED <<phase, marks, ends, i, group1, group2, count, up>>
  BY DEF StartCommand
<1>2. /\ thread'[l] = now
      /\ \A k \in Links : k # l => thread'[k] = thread[k]
  BY <1>1 DEF TypeOK
<1>3. now = "ended" => ShellBusy(l)
  OBVIOUS
<1> HIDE DEF now
<1>4. TypeOK' /\ Grouping'
  BY <1>1 DEF TypeOK, Grouping
<1>5. Staging'
  <2>1. phase \in {"pool1", "pool2", "ends"}
    BY <1>1 DEF Staging, Live, TypeOK
  <2> QED
    BY <1>1, <1>2, <2>1 DEF Staging, Live
<1>6. Progress'
  BY <1>1, <1>2 DEF Progress, Live
<1>7. Company'
  <2> SUFFICES ASSUME NEW m \in Links, thread'[m] = "ended", count[m] # 4
               PROVE  /\ Hops = 3
                      /\ \E k \in ends \ {m} : Live(k)' \/ (thread'[k] = "ended" /\ count[k] = 4)
    BY <1>1 DEF Company
  \* it is this command that is refused:
  <2>1. CASE m = l
    <3>1. PICK k \in ends \ {l} : Hops = 3 /\ k \in Links /\ thread[k] = "running"
      BY <1>1, <1>2, <1>3, <2>1, RefusedOnlyThere
    <3>2. thread'[k] = "running"
      BY <1>2, <3>1
    <3> QED
      BY <2>1, <3>1, <3>2 DEF Live
  \* or one was before, and its company is not refused as well:
  <2>2. CASE m # l
    <3>1. thread[m] = "ended"
      BY <1>2, <2>2
    <3>2. PICK k \in ends \ {m} : Live(k) \/ (thread[k] = "ended" /\ count[k] = 4)
      BY <3>1 DEF Company
    <3>3. Hops = 3 /\ Links = {0, 1} /\ k \in Links
      <4>1. Hops = 3
        BY <3>1 DEF Company
      <4> QED
        BY <4>1, <3>2 DEF TypeOK, Links, EndLinks
    <3>4. CASE k = l
      <4>1. ~ShellBusy(l)
        <5>1. \A j \in Links : thread[j] # "running"
          BY <1>1, <2>2, <3>1, <3>3
        <5> QED
          BY <5>1 DEF ShellBusy
      <4>2. thread'[k] = "running"
        BY <1>1, <1>2, <1>3, <3>4, <4>1
      <4> QED
        BY <3>2, <3>3, <4>2 DEF Live
    <3>5. CASE k # l
      BY <1>2, <3>2, <3>3, <3>5 DEF Live
    <3> QED
      BY <3>4, <3>5
  <2> QED
    BY <2>1, <2>2
<1> QED
  BY <1>4, <1>5, <1>6, <1>7

LEMMA FinishCommandInvariant ==
  ASSUME PhaseInv, NEW l \in Links, FinishCommand(l)
  PROVE  PhaseInv'
<1> USE DEF PhaseInv
<1> DEFINE side == SideOf(count[l])
<1>1. /\ thread[l] = "running"
      /\ up' = [up EXCEPT ![<<l, side>>] = UpAfter(count[l])]
      /\ count' = [count EXCEPT ![l] = @ + 1]
      /\ thread' = [thread EXCEPT ![l] = IF count[l] = 3 THEN "ended" ELSE "ready"]
      /\ UNCHANGED <<phase, marks, ends, i, group1, group2>>
  BY DEF FinishCommand
<1>2. count[l] \in 0..3 /\ phase # "idle"
  BY <1>1 DEF Progress, Staging, Live
<1>3. /\ side \in Sides /\ UpAfter(count[l]) \in BOOLEAN
      /\ <<l, side>> \in Links \X Sides
  BY <1>2 DEF SideOf, UpAfter, Sides
<1>4. /\ thread'[l] = (IF count[l] = 3 THEN "ended" ELSE "ready")
      /\ count'[l] = count[l] + 1
      /\ \A k \in Links : k # l => thread'[k] = thread[k] /\ count'[k] = count[k]
  BY <1>1 DEF TypeOK
<1>5. TypeOK'
  <2>1. count' \in [Links -> 0..4]
    BY <1>1, <1>2 DEF TypeOK
  <2>2. up' \in [Links \X Sides -> BOOLEAN]
    BY <1>1, <1>3 DEF TypeOK
  <2>3. thread' \in [Links -> {"none", "ready", "running", "ended"}]
    BY <1>1 DEF TypeOK
  <2> QED
    BY <1>1, <2>1, <2>2, <2>3 DEF TypeOK
<1>6. Grouping'
  BY <1>1 DEF Grouping
<1>7. Staging'
  <2>1. thread'[l] \in {"ready", "ended"}
    BY <1>4
  <2>2. phase \in {"pool1", "pool2", "ends"}
    BY <1>1 DEF Staging, Live, TypeOK
  <2>3. ~(phase \in {"joined", "idle", "grouping"})
    BY <2>2
  <2>4. /\ phase = "pool1" => l \in Range(group1)
        /\ phase = "pool2" => l \notin Range(group1) /\ l \in Range(group2)
        /\ phase = "ends" => l \notin marks /\ l \in ends
    BY <1>1 DEF Staging
  <2> QED
    BY <1>1, <1>4, <2>1, <2>3, <2>4 DEF Staging
<1>8. Progress'
  <2>1. ASSUME NEW k \in Links, k # l
        PROVE  /\ thread'[k] = thread[k] /\ count'[k] = count[k]
               /\ up'[<<k, 1>>] = up[<<k, 1>>] /\ up'[<<k, 2>>] = up[<<k, 2>>]
    <3>1. /\ <<k, 1>> \in Links \X Sides /\ <<k, 2>> \in Links \X Sides
          /\ <<k, 1>> # <<l, side>> /\ <<k, 2>> # <<l, side>>
      BY <2>1 DEF Sides
    <3> QED
      BY <1>1, <1>4, <2>1, <3>1 DEF TypeOK
  <2>2. up'[<<l, side>>] = UpAfter(count[l])
    BY <1>1, <1>3 DEF TypeOK
  <2>3. \A s \in Sides : s # side => up'[<<l, s>>] = up[<<l, s>>]
    BY <1>1, <1>3 DEF TypeOK
  <2>4. /\ up[<<l, 1>>] = (count[l] \notin {1, 2})
        /\ up[<<l, 2>>] = (count[l] \notin {2, 3})
    BY <1>2 DEF Progress
  <2>5. /\ up'[<<l, 1>>] = (count'[l] \notin {1, 2})
        /\ up'[<<l, 2>>] = (count'[l] \notin {2, 3})
    <3>1. CASE count[l] = 0
      <4>1. side = 1 /\ UpAfter(count[l]) = FALSE /\ count'[l] = 1
        BY <3>1, <1>4 DEF SideOf, UpAfter
      <4>2. up'[<<l, 1>>] = FALSE /\ up'[<<l, 2>>] = up[<<l, 2>>]
        BY <4>1, <2>2, <2>3 DEF Sides
      <4>3. /\ (count[l] \notin {1, 2}) = TRUE /\ (count[l] \notin {2, 3}) = TRUE
            /\ (count'[l] \notin {1, 2}) = FALSE /\ (count'[l] \notin {2, 3}) = TRUE
        BY <4>1, <3>1
      <4> QED
        BY <4>2, <4>3, <2>4, Zenon
    <3>2. CASE count[l] = 1
      <4>1. side = 2 /\ UpAfter(count[l]) = FALSE /\ count'[l] = 2
        BY <3>2, <1>4 DEF SideOf, UpAfter
      <4>2. up'[<<l, 2>>] = FALSE /\ up'[<<l, 1>>] = up[<<l, 1>>]
        BY <4>1, <2>2, <2>3 DEF Sides
      <4>3. /\ (count[l] \notin {1, 2}) = FALSE /\ (count[l] \notin {2, 3}) = TRUE
            /\ (count'[l] \notin {1, 2}) = FALSE /\ (count'[l] \notin {2, 3}) = FALSE
        BY <4>1, <3>2
      <4> QED
        BY <4>2, <4>3, <2>4, Zenon
    <3>3. CASE count[l] = 2
      <4>1. side = 1 /\ UpAfter(count[l]) = TRUE /\ count'[l] = 3
        BY <3>3, <1>4 DEF SideOf, UpAfter
      <4>2. up'[<<l, 1>>] = TRUE /\ up'[<<l, 2>>] = up[<<l, 2>>]
        BY <4>1, <2>2, <2>3 DEF Sides
      <4>3. /\ (count[l] \notin {1, 2}) = FALSE /\ (count[l] \notin {2, 3}) = FALSE
            /\ (count'[l] \notin {1, 2}) = TRUE /\ (count'[l] \notin {2, 3}) = FALSE
        BY <4>1, <3>3
      <4> QED
        BY <4>2, <4>3, <2>4, Zenon
    <3>4. CASE count[l] = 3
      <4>1. side = 2 /\ UpAfter(count[l]) = TRUE /\ count'[l] = 4
        BY <3>4, <1>4 DEF SideOf, UpAfter
      <4>2. up'[<<l, 2>>] = TRUE /\ up'[<<l, 1>>] = up[<<l, 1>>]
        BY <4>1, <2>2, <2>3 DEF Sides
      <4>3. /\ (count[l] \notin {1, 2}) = TRUE /\ (count[l] \notin {2, 3}) = FALSE
            /\ (count'[l] \notin {1, 2}) = TRUE /\ (count'[l] \notin {2, 3}) = TRUE
        BY <4>1, <3>4
      <4> QED
        BY <4>2, <4>3, <2>4, Zenon
    <3> QED
      BY <1>2, <3>1, <3>2, <3>3, <3>4
  <2>6. /\ thread'[l] # "none"
        /\ Live(l)' => count'[l] \in 0..3
    BY <1>2, <1>4 DEF Live
  <2>7. ASSUME NEW k \in Links
        PROVE  /\ thread'[k] = "none" => count'[k] = 0
               /\ Live(k)' => count'[k] \in 0..3
               /\ up'[<<k, 1>>] = (count'[k] \notin {1, 2})
               /\ up'[<<k, 2>>] = (count'[k] \notin {2, 3})
    <3>1. CASE k = l
      BY <3>1, <2>5, <2>6
    <3>2. CASE k # l
      BY <1>2, <3>2, <2>1 DEF Progress, Live
    <3> QED
      BY <3>1, <3>2
  <2> QED
    BY <2>7, Zenon DEF Progress
<1>9. Company'
  <2> SUFFICES ASSUME NEW m \in Links, thread'[m] = "ended", count'[m] # 4
               PROVE  /\ Hops = 3
                      /\ \E k \in ends \ {m} :
                           Live(k)' \/ (thread'[k] = "ended" /\ count'[k] = 4)
    BY <1>1 DEF Company
  <2>1. m # l /\ thread[m] = "ended" /\ count[m] # 4
    BY <1>2, <1>4
  <2>2. PICK k \in ends \ {m} : Live(k) \/ (thread[k] = "ended" /\ count[k] = 4)
    BY <2>1 DEF Company
  <2>3. k \in Links
    BY <2>2, HopsAssumption DEF TypeOK, EndLinks, Links
  <2> QED
    BY <1>2, <1>4, <2>1, <2>2, <2>3 DEF Company, Live
<1> QED
  BY <1>5, <1>6, <1>7, <1>8, <1>9

\* A step of the phase, wherever the phase is used.
LEMMA StepInvariant == PhaseInv /\ Step => PhaseInv'
<1> SUFFICES ASSUME PhaseInv, Step PROVE PhaseInv'
  OBVIOUS
<1>1. CASE GroupLink
  BY <1>1, GroupLinkInvariant
<1>2. CASE StartPool1 \/ StartPool2 \/ StartEnds \/ JoinEnds
  BY <1>2, StartInvariant
<1>3. ASSUME NEW l \in Links, StartCommand(l)
      PROVE  PhaseInv'
  BY <1>3, StartCommandInvariant
<1>4. ASSUME NEW l \in Links, FinishCommand(l)
      PROVE  PhaseInv'
  BY <1>4, FinishCommandInvariant
<1> QED
  BY <1>1, <1>2, <1>3, <1>4 DEF Step

\* It begins and ends the phase nowhere, and leaves alone what is planned.
LEMMA StepKeeps ==
  ASSUME PhaseInv, Step
  PROVE  phase # "idle" /\ phase' # "idle" /\ marks' = marks /\ ends' = ends
<1>1. ASSUME NEW l \in Links, StartCommand(l) \/ FinishCommand(l)
      PROVE  phase # "idle" /\ phase' # "idle" /\ marks' = marks /\ ends' = ends
  BY <1>1 DEF PhaseInv, Staging, Live, StartCommand, FinishCommand
<1>2. CASE GroupLink \/ StartPool1 \/ StartPool2 \/ StartEnds \/ JoinEnds
  BY <1>2 DEF GroupLink, StartPool1, StartPool2, StartEnds, JoinEnds
<1> QED
  BY <1>1, <1>2 DEF Step

LEMMA NextInvariant == IInv /\ [Next]_vars => IInv'
<1> SUFFICES ASSUME IInv, [Next]_vars PROVE IInv'
  OBVIOUS
<1>1. ASSUME NEW m \in SUBSET Interior, NEW e \in SUBSET EndLinks, Begin(m, e)
      PROVE  IInv'
  BY <1>1, FreshPhase DEF Begin, IInv
<1>2. CASE Step
  BY <1>2, StepInvariant, StepKeeps DEF IInv
<1>3. CASE Reconfigure
  <2>1. up' \in [Links \X Sides -> BOOLEAN]
    BY <1>3 DEF Reconfigure, AllUp
  <2> QED
    BY <1>3, <2>1, PhaseOver DEF Reconfigure, IInv
<1>4. CASE UNCHANGED vars
  BY <1>4 DEF vars, IInv, PhaseInv, TypeOK, Grouping, Staging, Progress, Company, Live
<1> QED
  BY <1>1, <1>2, <1>3, <1>4 DEF Next

------------------------------------------------------------------------------
(* What the invariant gives. *)

\* On a long chain a thread that has ended has done all its work.
LEMMA WorkDone ==
  ASSUME LongChain, PhaseInv
  PROVE  \A l \in Links : thread[l] = "ended" => count[l] = 4
  BY DEF PhaseInv, Company, LongChain

LEMMA Exclusion == LongChain /\ PhaseInv => OneInterfacePerNode
  BY Exclusive DEF PhaseInv

LEMMA AllCarriedOut == LongChain /\ PhaseInv => NoHandoverLost
<1> SUFFICES ASSUME LongChain, PhaseInv, phase = "joined", NEW l \in marks \cup ends
             PROVE  count[l] = 4 /\ \A side \in Sides : up[<<l, side>>]
  BY DEF NoHandoverLost
<1>1. l \in Links
  BY HopsAssumption DEF PhaseInv, TypeOK, Interior, EndLinks, Links
<1>2. count[l] = 4
  BY <1>1, WorkDone DEF PhaseInv, Staging
<1>3. (count[l] \notin {1, 2}) = TRUE /\ (count[l] \notin {2, 3}) = TRUE
  BY <1>2
<1>4. up[<<l, 1>>] = TRUE /\ up[<<l, 2>>] = TRUE
  BY <1>1, <1>3 DEF PhaseInv, Progress
<1> QED
  BY <1>2, <1>4 DEF Sides

LEMMA SomeCarriedOut == PhaseInv => SomeHandoverCompletes
<1> SUFFICES ASSUME PhaseInv, phase = "joined", NEW l \in marks \cup ends
             PROVE  \E k \in marks \cup ends : count[k] = 4
  BY DEF SomeHandoverCompletes
<1>1. /\ l \in Links /\ \A k \in ends : k \in Links
  BY HopsAssumption DEF PhaseInv, TypeOK, Interior, EndLinks, Links
<1>2. thread[l] = "ended"
  BY <1>1 DEF PhaseInv, Staging
<1>3. CASE count[l] # 4
  <2>1. PICK k \in ends \ {l} : Live(k) \/ (thread[k] = "ended" /\ count[k] = 4)
    BY <1>1, <1>2, <1>3 DEF PhaseInv, Company
  <2>2. ~Live(k)
    BY <1>1, <2>1 DEF PhaseInv, Staging
  <2> QED
    BY <2>1, <2>2
<1> QED
  BY <1>3

\* The invariant holds throughout.
THEOREM Invariance == Spec => []IInv
<1>1. Init => IInv
  BY InitInvariant
<1>2. IInv /\ [Next]_vars => IInv'
  BY NextInvariant
<1> QED
  BY <1>1, <1>2, PTL DEF Spec

\* The variables of the phase keep their types.
THEOREM TypeCorrect == Spec => []TypeOK
<1>1. IInv => TypeOK
  BY DEF IInv, PhaseInv
<1> QED
  BY <1>1, Invariance, PTL

\* No two threads of a pool alter two interfaces of one switch at the same
\* time (emulator.py:336-362), on any chain of four or more switches.
THEOREM NodesNotShared == ASSUME LongChain PROVE Spec => []OneInterfacePerNode
<1>1. IInv => OneInterfacePerNode
  BY Exclusion DEF IInv
<1> QED
  BY <1>1, Invariance, PTL

\* Every planned handover has been carried out when the pools are joined.
THEOREM NothingLost == ASSUME LongChain PROVE Spec => []NoHandoverLost
<1>1. IInv => NoHandoverLost
  BY AllCarriedOut DEF IInv
<1> QED
  BY <1>1, Invariance, PTL

\* On a chain of any length, the shortest included, not all handovers of a
\* phase are cut short (emulator.py:336-362).
THEOREM SomeComplete == Spec => []SomeHandoverCompletes
<1>1. IInv => SomeHandoverCompletes
  BY SomeCarriedOut DEF IInv
<1> QED
  BY <1>1, Invariance, PTL

\* No marked link is dropped or handed to both groups.
THEOREM SplitIsComplete == Spec => []GroupsSplitMarks
<1>1. IInv => GroupsSplitMarks
  <2> SUFFICES ASSUME IInv, phase \in {"pool1", "pool2", "ends", "joined"}
               PROVE  /\ Range(group1) \cup Range(group2) = marks
                      /\ Range(group1) \cap Range(group2) = {}
                      /\ \A k, l \in Range(group1) : k - l # 1
                      /\ \A k, l \in Range(group2) : k - l # 1
    BY DEF GroupsSplitMarks
  <2>1. /\ phase # "idle" /\ i = Hops - 1
    BY DEF IInv, PhaseInv, Grouping
  <2>2. \A k \in marks : k < i
    BY <2>1, HopsAssumption DEF IInv, PhaseInv, TypeOK, Interior
  <2>3. Range(group1) \cup Range(group2) = marks
    BY <2>1, <2>2 DEF IInv, PhaseInv, Grouping
  <2>4. Range(group1) \cap Range(group2) = {}
    BY DEF IInv, PhaseInv, Grouping
  <2>5. ASSUME NEW k \in Range(group2), NEW l \in Range(group2), k - l = 1 PROVE FALSE
    <3>1. k \in Int /\ l \in Int
      <4>1. k \in Interior /\ l \in Interior
        BY <2>3 DEF IInv, PhaseInv, TypeOK
      <4> QED
        BY <4>1, HopsAssumption DEF Interior
    <3>2. k - 1 = l
      BY <2>5, <3>1
    <3> QED
      BY <3>2 DEF IInv, PhaseInv, Grouping
  <2> QED
    BY <2>3, <2>4, <2>5 DEF IInv, PhaseInv, Grouping
<1> QED
  BY <1>1, Invariance, PTL

\* A step of the handover phase is a step of LinkBreaks or leaves it alone.
LEMMA StepImplements ==
  ASSUME LongChain, IInv, [Next]_vars
  PROVE  [Abstract!Next]_(Abstract!vars)
<1> USE DEF IInv, PhaseInv
<1>0. /\ marks \subseteq Links /\ ends \subseteq Links /\ Links = Abstract!Links
      /\ \A l \in marks \cup ends : l \in Links
  BY HopsAssumption DEF TypeOK, Interior, EndLinks, Links, Abstract!Links
<1>1. ASSUME Todo' = Todo, Broken' = Broken
      PROVE  [Abstract!Next]_(Abstract!vars)
  BY <1>1 DEF Abstract!vars
<1>2. ASSUME NEW m \in SUBSET Interior, NEW e \in SUBSET EndLinks, Begin(m, e)
      PROVE  [Abstract!Next]_(Abstract!vars)
  <2>1. /\ phase = "idle" /\ phase' = "grouping" /\ marks' = m /\ ends' = e
        /\ thread' = [l \in Links |-> "none"] /\ count' = [l \in Links |-> 0]
    BY <1>2 DEF Begin
  <2>2. Todo = {} /\ Broken = {}
    BY <2>1 DEF Todo, Broken, Staging
  <2>3. Broken' = {}
    BY <2>1 DEF Broken, Live
  <2>4. Todo' \in SUBSET Links
    <3>1. m \subseteq Links /\ e \subseteq Links
      BY HopsAssumption DEF Interior, EndLinks, Links
    <3> QED
      BY <2>1, <3>1 DEF Todo
  <2> QED
    BY <1>0, <2>2, <2>3, <2>4 DEF Abstract!Next, Abstract!Plan
<1>3. CASE GroupLink
  <2>1. UNCHANGED <<phase, marks, ends, thread, count>>
    BY <1>3 DEF GroupLink
  <2>2. Todo' = Todo /\ Broken' = Broken
    BY <2>1 DEF Todo, Broken, Live, Started
  <2> QED
    BY <1>1, <2>2
\* Submitting a thread does not yet break a link.
<1>4. ASSUME NEW nodes, Submit(nodes), UNCHANGED <<marks, ends, count>>,
             phase \notin {"idle", "joined"}, phase' \notin {"idle", "joined"},
             \A l \in Links : l \in nodes => thread[l] = "none"
      PROVE  [Abstract!Next]_(Abstract!vars)
  <2>1. \A l \in Links : thread'[l] = IF l \in nodes THEN "ready" ELSE thread[l]
    BY <1>4 DEF Submit
  <2>2. \A l \in Links : thread[l] = "none" => count[l] = 0
    BY DEF Progress
  <2>3. ASSUME NEW l \in Links
        PROVE  /\ Started(l)' <=> Started(l)
               /\ (Live(l) /\ Started(l))' <=> Live(l) /\ Started(l)
    BY <1>4, <2>1, <2>2 DEF Started, Live
  <2>4. Todo' = Todo
    BY <1>0, <1>4, <2>3 DEF Todo
  <2>5. Broken' = Broken
    BY <2>3 DEF Broken
  <2> QED
    BY <1>1, <2>4, <2>5
<1>5. CASE StartPool1
  BY <1>4, <1>5 DEF StartPool1, Staging
<1>6. CASE StartPool2
  <2>1. \A l \in Links : l \in Range(group2) => thread[l] = "none"
    BY <1>6 DEF StartPool2, Staging, Joined, Live, Grouping
  <2> QED
    BY <1>4, <1>6, <2>1 DEF StartPool2
<1>7. CASE StartEnds
  <2>1. \A l \in Links : l \in ends => thread[l] = "none"
    <3>1. \A l \in ends : l \notin marks
      BY HopsAssumption DEF TypeOK, Interior, EndLinks
    <3>2. \A l : l \in Range(group1) \/ l \in Range(group2) => l \in marks
      BY DEF Grouping
    <3> QED
      BY <1>7, <3>1, <3>2 DEF StartEnds, Staging
  <2> QED
    BY <1>4, <1>7, <2>1 DEF StartEnds
<1>8. CASE JoinEnds
  <2>1. /\ phase = "ends" /\ phase' = "joined" /\ Joined
        /\ UNCHANGED <<marks, ends, thread, count>>
    BY <1>8 DEF JoinEnds
  <2>2. \A l \in marks \cup ends : thread[l] = "ended"
    BY <1>0, <2>1 DEF Staging, Joined, Live, TypeOK
  <2>3. Todo = {} /\ Todo' = {}
    BY <2>1, <2>2 DEF Todo, Started
  <2>4. Broken' = Broken
    BY <2>1 DEF Broken, Live, Started
  <2> QED
    BY <1>1, <2>3, <2>4
<1>9. ASSUME NEW l \in Links, StartCommand(l)
      PROVE  [Abstract!Next]_(Abstract!vars)
  <2>1. /\ thread[l] = "ready" /\ thread' = [thread EXCEPT ![l] = "running"]
        /\ UNCHANGED <<phase, marks, ends, count>>
    BY <1>9, CommandStarts
  <2>2. /\ thread'[l] = "running"
        /\ \A k \in Links : k # l => thread'[k] = thread[k]
    BY <2>1 DEF TypeOK
  <2>3. /\ Live(l) /\ Live(l)' /\ Started(l)'
        /\ Started(l) <=> count[l] > 0
    BY <2>1, <2>2 DEF Live, Started
  <2>4. ASSUME NEW k \in Links, k # l
        PROVE  (Started(k)' <=> Started(k)) /\ (Live(k)' <=> Live(k))
    BY <2>1, <2>2, <2>4 DEF Live, Started
  <2>5. phase \notin {"idle", "joined"} /\ l \in marks \cup ends
    <3>1. phase \in {"pool1", "pool2", "ends"}
      BY <2>1 DEF Staging, Live, TypeOK
    <3>2. l \in marks \cup ends
      BY <2>1, <3>1 DEF Staging, Grouping
    <3> QED
      BY <3>1, <3>2
  <2>6. CASE Started(l)
    <3>0. ASSUME NEW k \in Links
          PROVE  (Started(k)' <=> Started(k)) /\ (Live(k)' <=> Live(k))
      BY <2>3, <2>4, <2>6
    <3>1. Todo' = Todo
      BY <1>0, <2>1, <3>0 DEF Todo
    <3>2. Broken' = Broken
      BY <3>0 DEF Broken
    <3> QED
      BY <1>1, <3>1, <3>2
  <2>7. CASE ~Started(l)
    <3>1. l \in Todo
      BY <2>5, <2>7 DEF Todo
    <3>2. \A k \in Broken : ~Abstract!ShareSwitch(k, l)
      <4>1. OneInterfacePerNode
        BY Exclusive
      <4> QED
        BY <4>1, <2>3, <2>7 DEF Broken, OneInterfacePerNode, ShareSwitch, Abstract!ShareSwitch
    <3>3. Todo' = Todo \ {l}
      <4>1. ASSUME NEW k \in marks \cup ends
            PROVE  ~Started(k)' <=> ~Started(k) /\ k # l
        BY <1>0, <2>3, <2>4
      <4> QED
        BY <2>1, <2>5, <4>1 DEF Todo
    <3>4. Broken' = Broken \cup {l}
      <4>1. ASSUME NEW k \in Links
            PROVE  Live(k)' /\ Started(k)' <=> (Live(k) /\ Started(k)) \/ k = l
        BY <2>3, <2>4
      <4> QED
        BY <4>1 DEF Broken
    <3> QED
      BY <1>0, <3>1, <3>2, <3>3, <3>4 DEF Abstract!Next, Abstract!Break
  <2> QED
    BY <2>6, <2>7
<1>10. ASSUME NEW l \in Links, FinishCommand(l)
       PROVE  [Abstract!Next]_(Abstract!vars)
  <2>1. /\ thread[l] = "running" /\ UNCHANGED <<phase, marks, ends>>
        /\ count' = [count EXCEPT ![l] = @ + 1]
        /\ thread' = [thread EXCEPT ![l] = IF count[l] = 3 THEN "ended" ELSE "ready"]
        /\ count[l] \in 0..3
    BY <1>10 DEF FinishCommand, Progress, Live
  <2>2. /\ thread'[l] = (IF count[l] = 3 THEN "ended" ELSE "ready")
        /\ count'[l] = count[l] + 1
        /\ \A k \in Links : k # l => thread'[k] = thread[k] /\ count'[k] = count[k]
    BY <2>1 DEF TypeOK
  <2>3. Live(l) /\ Started(l) /\ Started(l)'
    BY <2>1, <2>2 DEF Live, Started
  <2>4. ASSUME NEW k \in Links, k # l
        PROVE  (Started(k)' <=> Started(k)) /\ (Live(k)' <=> Live(k))
    BY <2>2, <2>4 DEF Live, Started
  <2>5. Todo' = Todo
    <3>1. ASSUME NEW k \in Links PROVE Started(k)' <=> Started(k)
      BY <2>3, <2>4
    <3> QED
      BY <1>0, <2>1, <3>1 DEF Todo
  <2>6. CASE count[l] = 3
    <3>1. ~Live(l)'
      BY <2>2, <2>6 DEF Live
    <3>2. Broken' = Broken \ {l} /\ l \in Broken
      <4>1. ASSUME NEW k \in Links
            PROVE  Live(k)' /\ Started(k)' <=> Live(k) /\ Started(k) /\ k # l
        BY <2>4, <3>1
      <4> QED
        BY <2>3, <4>1 DEF Broken
    <3> QED
      BY <1>0, <2>5, <3>2 DEF Abstract!Next, Abstract!Restore
  <2>7. CASE count[l] # 3
    <3>1. Live(l)'
      BY <2>2, <2>7 DEF Live
    <3>2. Broken' = Broken
      <4>1. ASSUME NEW k \in Links
            PROVE  Live(k)' /\ Started(k)' <=> Live(k) /\ Started(k)
        BY <2>3, <2>4, <3>1
      <4> QED
        BY <4>1 DEF Broken
    <3> QED
      BY <1>1, <2>5, <3>2
  <2> QED
    BY <2>6, <2>7
<1>12. CASE Reconfigure
  <2>1. /\ phase = "joined" /\ phase' = "idle"
        /\ UNCHANGED <<marks, ends, thread, count>>
    BY <1>12 DEF Reconfigure
  <2>2. Todo' = Todo /\ Broken' = Broken
    BY <2>1 DEF Todo, Broken, Live, Started
  <2> QED
    BY <1>1, <2>2
<1>13. CASE UNCHANGED vars
  <2>1. Todo' = Todo /\ Broken' = Broken
    BY <1>13 DEF vars, Todo, Broken, Live, Started
  <2> QED
    BY <1>1, <2>1
<1> QED
  BY <1>2, <1>3, <1>5, <1>6, <1>7, <1>8, <1>9, <1>10, <1>12, <1>13 DEF Next, Step

\* The handover phase implements LinkBreaks: each planned link is broken and
\* restored once, never together with a neighbour.
THEOREM Implements == ASSUME LongChain PROVE Spec => ImplementsLinkBreaks
<1>1. Init => Abstract!Init
  BY DEF Init, Abstract!Init, Todo, Broken, Live
<1>2. IInv /\ [Next]_vars => [Abstract!Next]_(Abstract!vars)
  BY StepImplements
<1> QED
  BY <1>1, <1>2, Invariance, PTL DEF Spec, ImplementsLinkBreaks, Abstract!Spec
==============================================================================
