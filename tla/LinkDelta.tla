------------------------------ MODULE LinkDelta ------------------------------
(***************************************************************************)
(* compute_link_delta of emulation_stage/emulator.py: which links between  *)
(* the switching nodes of a new route are broken for a moment because they *)
(* were not there in the old route.                                        *)
(*                                                                         *)
(* A route is a list of nodes -1, n0, ..., nk, -2; the two user terminals  *)
(* are sliced off first, so old and new below are the sequences n0 .. nk.  *)
(* The list handover_arr of zeros and ones is the set of the (0-based)     *)
(* indices that hold a one.                                                *)
(***************************************************************************)
EXTENDS Integers, Sequences

Contains(path, node) == \E k \in 1..Len(path) : path[k] = node

\* list.index, 0-based; the nodes of a shortest path are all different.
IndexOf(path, node) == (CHOOSE k \in 1..Len(path) : path[k] = node) - 1

\* Slip: the pointer starts at the second node.
ScanStartLate == [j |-> 1, marks |-> {}, raised |-> FALSE]

\* The state of the loop: j is the pointer into the old route, marks the
\* ones of handover_arr, raised an IndexError that left the function.
ScanStart == [j |-> 0, marks |-> {}, raised |-> FALSE]

\* handover_arr[i - 1] = 1 on a list of Len(new) - 1 elements: index -1 is
\* Python's last element, and on an empty list it raises.
Mark(new, i, s) ==
  IF Len(new) = 1
    THEN [s EXCEPT !.raised = TRUE]
    ELSE [s EXCEPT !.marks = @ \cup {IF i > 0 THEN i - 1 ELSE Len(new) - 2}]

\* Slip: the start of a difference is not marked.
LoopBodyNoStart(old, new, i, s) ==
  LET at == IndexOf(old, new[i + 1])
  IN  IF Contains(old, new[i + 1])
        THEN [(IF at # s.j THEN Mark(new, i, s) ELSE s) EXCEPT !.j = at + 1]
        ELSE s

\* Slip: the pointer is not moved to the node that ends the difference.
LoopBodyNoMove(old, new, i, s) ==
  IF Contains(old, new[i + 1])
    THEN [(IF IndexOf(old, new[i + 1]) # s.j THEN Mark(new, i, s) ELSE s)
            EXCEPT !.j = @ + 1]
    ELSE IF i > 0 /\ Contains(old, new[i]) THEN Mark(new, i, s) ELSE s

\* One iteration of the loop, for the i-th node of the new route.
LoopBody(old, new, i, s) ==
  LET node == new[i + 1]
      at   == IndexOf(old, node)
  IN  IF Contains(old, node)
        THEN [(IF at # s.j THEN Mark(new, i, s) ELSE s) EXCEPT !.j = at + 1]
        ELSE IF i > 0 /\ Contains(old, new[i])
               THEN Mark(new, i, s)
               ELSE s

\* The whole function. The returned list has a zero on each side of
\* handover_arr, so mark m stands for the link of nodes m+1 and m+2 of the
\* full route. LinkDeltaScan takes the same iterations as steps.
ComputeLinkDelta(old, new) ==
  LET scan[i \in 0..Len(new)] ==
        IF i = 0 THEN ScanStart ELSE LoopBody(old, new, i - 1, scan[i - 1])
  IN  [marks  |-> {m + 1 : m \in scan[Len(new)].marks},
       raised |-> scan[Len(new)].raised]
==============================================================================
