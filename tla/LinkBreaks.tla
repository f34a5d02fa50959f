----------------------------- MODULE LinkBreaks -----------------------------
(***************************************************************************)
(* What the handover phase of a cycle promises, without its groups, pools  *)
(* and threads: every planned link is broken and restored once, and two    *)
(* links that end in the same switch are never altered at the same time.   *)
(***************************************************************************)
EXTENDS Integers

CONSTANT Hops       \* intermediate_hop_num, the switches s0 .. s(Hops-1)

Links == 0..(Hops - 2)      \* link l joins the switches s(l) and s(l+1)

ShareSwitch(k, l) == k - l \in {-1, 0, 1}

VARIABLES
  todo,     \* links whose break is still to come
  broken    \* links being broken

vars == <<todo, broken>>

Init == todo = {} /\ broken = {}

Plan ==
  /\ todo = {} /\ broken = {}
  /\ todo' \in SUBSET Links
  /\ UNCHANGED broken

Break(l) ==
  /\ l \in todo
  /\ \A k \in broken : ~ShareSwitch(k, l)
  /\ todo' = todo \ {l}
  /\ broken' = broken \cup {l}

Restore(l) ==
  /\ l \in broken
  /\ broken' = broken \ {l}
  /\ UNCHANGED todo

Next == Plan \/ \E l \in Links : Break(l) \/ Restore(l)

Spec == Init /\ [][Next]_vars
==============================================================================
