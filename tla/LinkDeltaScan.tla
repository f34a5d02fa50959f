---------------------------- MODULE LinkDeltaScan ----------------------------
(***************************************************************************)
(* The loop of compute_link_delta (emulation_stage/emulator.py) executed   *)
(* one iteration per step, for every pair of an old and a new route. It is *)
(* the form in which the function's promises are proved: LinkDelta gives   *)
(* the same loop body folded into one value for the emulator's model.      *)
(***************************************************************************)
EXTENDS LinkDelta

CONSTANTS
  Nodes,      \* satellites and ground stations
  OldPaths,   \* what last_routing_path[1:-1] may be: << >> stands for "NULL"
  NewPaths    \* what current_routing_path[1:-1] may be

IsSimplePath(p) ==
  /\ p \in Seq(Nodes)
  /\ \A k, l \in 1..Len(p) : p[k] = p[l] => k = l

\* nx.dijkstra_path returns a path without repeated nodes, with at least the
\* ingress satellite on it.
ASSUME PathsAreSimple ==
  /\ \A p \in OldPaths : IsSimplePath(p)
  /\ \A p \in NewPaths : IsSimplePath(p) /\ Len(p) >= 1

VARIABLES
  old, new,   \* the two arguments, with the terminals sliced off
  i,          \* the loop counter
  scan        \* j, handover_arr and whether an IndexError was raised

vars == <<old, new, i, scan>>

Init ==
  /\ old \in OldPaths
  /\ new \in NewPaths
  /\ i = 0
  /\ scan = ScanStart

Iterate ==
  /\ i < Len(new) /\ ~scan.raised
  /\ scan' = LoopBody(old, new, i, scan)
  /\ i' = i + 1
  /\ UNCHANGED <<old, new>>

Next == Iterate

Spec == Init /\ [][Next]_vars

Done == i = Len(new) /\ ~scan.raised

------------------------------------------------------------------------------
TypeOK ==
  /\ old \in OldPaths
  /\ new \in NewPaths
  /\ i \in 0..Len(new)
  /\ scan \in [j : Nat, marks : SUBSET (0..(Len(new) - 2)), raised : BOOLEAN]

\* Node b directly follows node a in path p.
Follows(p, a, b) == \E k \in 1..(Len(p) - 1) : p[k] = a /\ p[k + 1] = b

SameIngress == Len(old) >= 1 /\ old[1] = new[1]
SameEgress  == Len(old) >= 1 /\ old[Len(old)] = new[Len(new)]

\* The new route starts where the old one does, or at a node the old one
\* does not have: the cases in which the first iteration writes nothing.
StartsClean == Contains(old, new[1]) => IndexOf(old, new[1]) = 0

\* A mark stands for a link that the old route did not have, in every case
\* in which the first iteration does not write through index -1
\* (compute_link_delta, emulator.py:134-143).
MarksAreNewLinks ==
  StartsClean =>
    \A m \in scan.marks : ~Follows(old, new[m + 1], new[m + 2])

\* What the caller at emulator.py:252 relies on when it takes a sum of zero
\* for "no handover": between routes that share both gateway satellites, an
\* empty result means that the route did not change at all.
NoMarkMeansSameRoute ==
  Done /\ SameIngress /\ SameEgress /\ scan.marks = {} => new = old

\* The function returns a value, it never raises, for the calls that
\* emulator.py:252 makes (both gateway satellites kept) and for every route
\* with two or more switching nodes.
NoIndexError ==
  (Len(new) >= 2 \/ (SameIngress /\ SameEgress)) => ~scan.raised

\* The old-route pointer j stays one past the last node that both routes
\* have: what makes "index # j" mean "the link into this node is new".
CursorFollows ==
  /\ i = 0 => scan = ScanStart
  /\ i > 0 /\ ~scan.raised /\ Contains(old, new[i]) =>
       scan.j = IndexOf(old, new[i]) + 1

\* As long as nothing is marked, the two routes have been the same.
UnmarkedIsCommonPrefix ==
  SameIngress /\ scan.marks = {} /\ ~scan.raised =>
    /\ i <= Len(old)
    /\ scan.j = i
    /\ \A k \in 1..i : old[k] = new[k]

\* The inductive invariant of LinkDeltaScan_proofs.
IInv ==
  /\ TypeOK
  /\ CursorFollows
  /\ UnmarkedIsCommonPrefix
  /\ MarksAreNewLinks
  /\ NoIndexError

==============================================================================
