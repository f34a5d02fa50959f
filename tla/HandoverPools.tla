---------------------------- MODULE HandoverPools ----------------------------
(***************************************************************************)
(* The handover phase of one cycle of update_precomputed_link              *)
(* (emulation_stage/emulator.py): the links to break are split into two    *)
(* groups, and three thread pools, each joined before the next is started, *)
(* break them. A thread takes its link down and up again with              *)
(* net.configLinkStatus, which runs one ifconfig in the shell of each of   *)
(* the two switches. A mininet node runs one command at a time: a second   *)
(* one is refused with an exception, which the thread catches and prints,  *)
(* so the rest of that handover does not take place.                       *)
(*                                                                         *)
(* A group is the list of its link numbers; the net that every element of  *)
(* the source's lists carries along is left out.                           *)
(***************************************************************************)
EXTENDS Integers, Sequences, Functions

CONSTANT Hops       \* intermediate_hop_num

ASSUME HopsAssumption == Hops \in Nat /\ Hops >= 3

Links    == 0..(Hops - 2)           \* link l joins switch l and switch l + 1
Interior == 1..(Hops - 3)           \* links between two switching nodes
EndLinks == {0, Hops - 2}           \* dish to satellite
Sides    == {1, 2}

\* The switch on each side, in the order of the arguments of
\* configLinkStatus: the second user's handover names the dish first.
SwitchOf(l, side) ==
  IF l = Hops - 2 THEN (IF side = 1 THEN Hops - 1 ELSE Hops - 2)
                  ELSE l + side - 1

VARIABLES
  phase,            \* "idle", "grouping", "pool1", "pool2", "ends", "joined"
  marks,            \* the links with a one in handover_arr
  ends,             \* end_handover_nodes
  i,                \* the loop counter of the grouping loop
  group1, group2,   \* handover_nodes_group1 and _group2
  thread,           \* per link: "none", "ready", "running" (an ifconfig), "ended"
  count,            \* per link: the ifconfig commands done, of four
  up                \* per link and side: the interface is up

vars == <<phase, marks, ends, i, group1, group2, thread, count, up>>

Live(l) == thread[l] \in {"ready", "running"}
AllUp   == [x \in Links \X Sides |-> TRUE]

Init ==
  /\ phase = "idle"
  /\ marks = {} /\ ends = {}
  /\ i = 0
  /\ group1 = << >> /\ group2 = << >>
  /\ thread = [l \in Links |-> "none"]
  /\ count = [l \in Links |-> 0]
  /\ up = AllUp

\* The handovers of this cycle are known (lines 302-332).
Begin(m, e) ==
  /\ phase = "idle"
  /\ phase' = "grouping"
  /\ marks' = m /\ ends' = e
  /\ i' = 0
  /\ group1' = << >> /\ group2' = << >>
  /\ thread' = [l \in Links |-> "none"]
  /\ count' = [l \in Links |-> 0]
  /\ UNCHANGED up

\* Slip: the last element of the wrong group is looked at.
GroupLinkByGroup2 ==
  /\ phase = "grouping" /\ i < Hops - 1
  /\ i' = i + 1
  /\ IF i \notin marks
       THEN UNCHANGED <<group1, group2>>
       ELSE IF group2 = << >> \/ group2[Len(group2)] # i - 1
              THEN group1' = Append(group1, i) /\ UNCHANGED group2
              ELSE group2' = Append(group2, i) /\ UNCHANGED group1
  /\ UNCHANGED <<phase, marks, ends, thread, count, up>>

\* One iteration of the loop that fills the groups.
LastOf(group) == group[Len(group)]

GroupLink ==
  /\ phase = "grouping" /\ i < Hops - 1
  /\ i' = i + 1
  /\ IF i \notin marks
       THEN UNCHANGED <<group1, group2>>
       ELSE IF group1 = << >> \/ LastOf(group1) # i - 1
              THEN group1' = Append(group1, i) /\ UNCHANGED group2
              ELSE group2' = Append(group2, i) /\ UNCHANGED group1
  /\ UNCHANGED <<phase, marks, ends, thread, count, up>>

\* executor.map hands one thread to every element.
Submit(nodes) ==
  thread' = [l \in Links |-> IF l \in nodes THEN "ready" ELSE thread[l]]

\* The end of a with block waits for all its threads.
Joined == \A l \in Links : ~Live(l)

StartPool1 ==
  /\ phase = "grouping" /\ i = Hops - 1
  /\ phase' = "pool1"
  /\ Submit(Range(group1))
  /\ UNCHANGED <<marks, ends, i, group1, group2, count, up>>

\* Slip: the pool is not joined before the next one starts.
StartPool2Early ==
  /\ phase = "pool1"
  /\ phase' = "pool2"
  /\ Submit(Range(group2))
  /\ UNCHANGED <<marks, ends, i, group1, group2, count, up>>

StartPool2 ==
  /\ phase = "pool1" /\ Joined
  /\ phase' = "pool2"
  /\ Submit(Range(group2))
  /\ UNCHANGED <<marks, ends, i, group1, group2, count, up>>

StartEnds ==
  /\ phase = "pool2" /\ Joined
  /\ phase' = "ends"
  /\ Submit(ends)
  /\ UNCHANGED <<marks, ends, i, group1, group2, count, up>>

\* Slip: the executor is shut down without waiting.
JoinEndsEarly ==
  /\ phase = "ends"
  /\ phase' = "joined"
  /\ UNCHANGED <<marks, ends, i, group1, group2, thread, count, up>>

JoinEnds ==
  /\ phase = "ends" /\ Joined
  /\ phase' = "joined"
  /\ UNCHANGED <<marks, ends, i, group1, group2, thread, count, up>>

\* A thread runs its four commands: down on side 1, down on side 2, up on
\* side 1, up on side 2.
SideOf(k)    == IF k \in {0, 2} THEN 1 ELSE 2
UpAfter(k)   == k >= 2
ShellOf(l)   == SwitchOf(l, SideOf(count[l]))
ShellBusy(l) == \E k \in Links : thread[k] = "running" /\ ShellOf(k) = ShellOf(l)

\* A command takes the shell. If the shell is in use, the exception leaves the
\* handover unfinished.
StartCommand(l) ==
  /\ thread[l] = "ready"
  /\ thread' = [thread EXCEPT ![l] = IF ShellBusy(l) THEN "ended" ELSE "running"]
  /\ UNCHANGED <<phase, marks, ends, i, group1, group2, count, up>>

\* Slip: the thread returns after the first side is back up.
FinishCommandShort(l) ==
  /\ thread[l] = "running"
  /\ up' = [up EXCEPT ![<<l, SideOf(count[l])>>] = UpAfter(count[l])]
  /\ count' = [count EXCEPT ![l] = @ + 1]
  /\ thread' = [thread EXCEPT ![l] = IF count[l] = 2 THEN "ended" ELSE "ready"]
  /\ UNCHANGED <<phase, marks, ends, i, group1, group2>>

\* Slip: a command that never returns.
FinishCommandHang(l) ==
  /\ thread[l] = "running" /\ count[l] # 2
  /\ up' = [up EXCEPT ![<<l, SideOf(count[l])>>] = UpAfter(count[l])]
  /\ count' = [count EXCEPT ![l] = @ + 1]
  /\ thread' = [thread EXCEPT ![l] = IF count[l] = 3 THEN "ended" ELSE "ready"]
  /\ UNCHANGED <<phase, marks, ends, i, group1, group2>>

FinishCommand(l) ==
  /\ thread[l] = "running"
  /\ up' = [up EXCEPT ![<<l, SideOf(count[l])>>] = UpAfter(count[l])]
  /\ count' = [count EXCEPT ![l] = @ + 1]
  /\ thread' = [thread EXCEPT ![l] = IF count[l] = 3 THEN "ended" ELSE "ready"]
  /\ UNCHANGED <<phase, marks, ends, i, group1, group2>>

\* set_link_properties on every link; configuring an interface brings it up.
Reconfigure ==
  /\ phase = "joined"
  /\ phase' = "idle"
  /\ up' = AllUp
  /\ UNCHANGED <<marks, ends, i, group1, group2, thread, count>>

Step ==
  \/ GroupLink
  \/ StartPool1
  \/ StartPool2
  \/ StartEnds
  \/ JoinEnds
  \/ \E l \in Links : StartCommand(l) \/ FinishCommand(l)

Next ==
  \/ \E m \in SUBSET Interior, e \in SUBSET EndLinks : Begin(m, e)
  \/ Step
  \/ Reconfigure

Spec == Init /\ [][Next]_vars

\* The interpreter and the scheduler keep running the main thread and the
\* pool threads; when a cycle has handovers is the route's business.
FairSpec == Spec /\ WF_vars(Step)
------------------------------------------------------------------------------
TypeOK ==
  /\ phase \in {"idle", "grouping", "pool1", "pool2", "ends", "joined"}
  /\ marks \in SUBSET Interior
  /\ ends \in SUBSET EndLinks
  /\ i \in 0..(Hops - 1)
  /\ group1 \in Seq(Interior)
  /\ group2 \in Seq(Interior)
  /\ thread \in [Links -> {"none", "ready", "running", "ended"}]
  /\ count \in [Links -> 0..4]
  /\ up \in [Links \X Sides -> BOOLEAN]

ShareSwitch(k, l) == k - l \in {-1, 0, 1}

\* The comment at emulator.py:340: the groups "avoid altering two interfaces
\* of the same node at the same time". No two live threads, of whichever
\* pool, work on links that meet in a switch.
OneInterfacePerNode ==
  \A k, l \in Links : k # l /\ Live(k) /\ Live(l) => ~ShareSwitch(k, l)

\* The split loses no link, doubles none, and separates neighbours
\* (lines 336-343, the group a link goes to depends on group 1 alone).
GroupsSplitMarks ==
  phase \in {"pool1", "pool2", "ends", "joined"} =>
    /\ Range(group1) \cup Range(group2) = marks
    /\ Range(group1) \cap Range(group2) = {}
    /\ \A g \in {Range(group1), Range(group2)} : \A k, l \in g : k - l # 1

\* When the pools are joined every planned handover has been carried out to
\* its end: broken, restored, none cut short by the node's busy shell.
NoHandoverLost ==
  phase = "joined" =>
    \A l \in marks \cup ends :
      count[l] = 4 /\ \A side \in Sides : up[<<l, side>>]

\* Also where two threads do meet in a node, a refusal needs somebody who
\* is at work there: not all handovers of a pool can be cut short.
SomeHandoverCompletes ==
  phase = "joined" /\ marks \cup ends # {} =>
    \E l \in marks \cup ends : count[l] = 4

\* The handover phase implements LinkBreaks: a link is being broken from its
\* first ifconfig command to its last one.
Started(l) == thread[l] = "ended" \/ thread[l] = "running" \/ count[l] > 0

Todo == IF phase \in {"idle", "joined"}
          THEN {} ELSE {l \in marks \cup ends : ~Started(l)}
Broken == {l \in Links : Live(l) /\ Started(l)}

Abstract == INSTANCE LinkBreaks WITH todo <- Todo, broken <- Broken

\* Every planned link is broken and restored once, never together with a
\* link that ends in the same switch.
ImplementsLinkBreaks == Abstract!Spec

\* The main thread gets past its three joins.
PhaseEnds == phase = "grouping" ~> phase = "joined"
------------------------------------------------------------------------------
\* The inductive invariant of HandoverPools_proofs. What the grouping loop
\* has achieved after i iterations:
Grouping ==
  /\ \A k \in Range(group1) : k \in marks /\ k < i /\ k <= LastOf(group1)
  /\ \A k \in Range(group2) :
       k \in marks /\ k < i /\ k - 1 \in Range(group1) /\ k \notin Range(group1)
  /\ \A k, l \in Range(group1) : k - l # 1
  /\ group1 # << >> => LastOf(group1) \in Range(group1)
  /\ phase # "idle" => \A k \in marks : k < i => k \in Range(group1) \cup Range(group2)
  /\ phase \in {"pool1", "pool2", "ends", "joined"} => i = Hops - 1

\* which threads may live in which phase:
Staging ==
  \A l \in Links :
    /\ phase = "grouping" => thread[l] = "none"
    /\ phase = "pool1" => IF l \in Range(group1) THEN thread[l] # "none"
                                                 ELSE thread[l] = "none"
    /\ phase = "pool2" => IF l \in Range(group1) THEN thread[l] = "ended"
                          ELSE IF l \in Range(group2) THEN thread[l] # "none"
                          ELSE thread[l] = "none"
    /\ phase = "ends" => IF l \in marks THEN thread[l] = "ended"
                         ELSE IF l \in ends THEN thread[l] # "none"
                         ELSE thread[l] = "none"
    /\ phase \in {"joined", "idle"} => ~Live(l)
    /\ phase = "joined" /\ l \in marks \cup ends => thread[l] = "ended"

\* how far a thread has come with its link:
Progress ==
  \A l \in Links :
    /\ thread[l] = "none" => count[l] = 0
    /\ Live(l) => count[l] \in 0..3
    /\ phase # "idle" => /\ up[<<l, 1>>] = (count[l] \notin {1, 2})
                         /\ up[<<l, 2>>] = (count[l] \notin {2, 3})

\* and that only where the chain has no link between satellites a handover is
\* cut short, by one that is at work or has come to its end:
Company ==
  \A l \in Links : thread[l] = "ended" /\ count[l] # 4 =>
    /\ Hops = 3
    /\ \E k \in ends \ {l} : Live(k) \/ (thread[k] = "ended" /\ count[k] = 4)

PhaseInv == TypeOK /\ Grouping /\ Staging /\ Progress /\ Company

IInv == PhaseInv /\ (phase = "idle" => up = AllUp)
==============================================================================
