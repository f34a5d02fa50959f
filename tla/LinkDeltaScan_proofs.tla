------------------------ MODULE LinkDeltaScan_proofs ------------------------
(***************************************************************************)
(* Proofs about compute_link_delta for routes of any length over any set   *)
(* of nodes. The inductive invariant is IInv: the pointer into the old     *)
(* route stays just past the last common node (CursorFollows), and the two *)
(* routes agree as long as nothing is marked (UnmarkedIsCommonPrefix); the *)
(* promises to the caller follow from these two. The last theorem carries  *)
(* them over to the recursive function that the emulator's model calls.    *)
(***************************************************************************)
EXTENDS LinkDeltaScan, WellFoundedInduction, TLAPS

\* What the proofs need of the length of a list that is not empty.
LEMMA OneOrMore ==
  ASSUME NEW x \in Nat, x >= 1
  PROVE  /\ x = 1 \/ x >= 2
         /\ x = 1 => ~(x >= 2)
         /\ x # 1 => x - 2 \in 0..(x - 2)
  OBVIOUS

\* In a path without repeated nodes, IndexOf is the position of the node,
\* counted from zero (list.index of Python).
LEMMA IndexOfPosition ==
  ASSUME NEW p, IsSimplePath(p), NEW k \in 1..Len(p)
  PROVE  IndexOf(p, p[k]) = k - 1
<1> DEFINE P(m) == m \in 1..Len(p) /\ p[m] = p[k]
<1>1. \A m : P(m) => m = k
  BY DEF IsSimplePath
<1>2. P(k)
  OBVIOUS
<1>3. (CHOOSE m \in 1..Len(p) : p[m] = p[k]) = k
  BY <1>1, <1>2
<1> QED
  BY <1>3 DEF IndexOf

\* A node that a path contains sits at its index.
LEMMA NodeAtIndex ==
  ASSUME NEW p, IsSimplePath(p), NEW a, Contains(p, a)
  PROVE  /\ IndexOf(p, a) \in 0..(Len(p) - 1)
         /\ p[IndexOf(p, a) + 1] = a
<1>1. PICK k \in 1..Len(p) : p[k] = a
  BY DEF Contains
<1>2. IndexOf(p, a) = k - 1
  BY <1>1, IndexOfPosition
<1>3. Len(p) \in Nat
  BY DEF IsSimplePath
<1> QED
  BY <1>1, <1>2, <1>3

\* If a is followed by b in a path, their indices are consecutive.
LEMMA FollowsIndex ==
  ASSUME NEW p, IsSimplePath(p), NEW a, NEW b, Follows(p, a, b)
  PROVE  /\ Contains(p, a)
         /\ Contains(p, b)
         /\ IndexOf(p, b) = IndexOf(p, a) + 1
<1>1. Len(p) \in Nat
  BY DEF IsSimplePath
<1>2. PICK k \in 1..(Len(p) - 1) : p[k] = a /\ p[k + 1] = b
  BY DEF Follows
<1>3. k \in 1..Len(p) /\ k + 1 \in 1..Len(p)
  BY <1>1
<1>4. IndexOf(p, a) = k - 1 /\ IndexOf(p, b) = k
  BY <1>2, <1>3, IndexOfPosition
<1> QED
  BY <1>2, <1>3, <1>4 DEF Contains

\* What one write of handover_arr[i - 1] = 1 does.
LEMMA MarkEffect ==
  ASSUME NEW n, Len(n) \in Nat, NEW k \in 0..(Len(n) - 1),
         NEW s \in [j : Nat, marks : SUBSET (0..(Len(n) - 2)), raised : BOOLEAN]
  PROVE  LET t == Mark(n, k, s)
         IN  /\ t \in [j : Nat, marks : SUBSET (0..(Len(n) - 2)), raised : BOOLEAN]
             /\ t.j = s.j
             /\ Len(n) = 1 => t.raised /\ t.marks = s.marks
             /\ Len(n) # 1 => /\ t.raised = s.raised
                              /\ t.marks # {}
                              /\ k > 0 => t.marks = s.marks \cup {k - 1}
<1>1. CASE Len(n) = 1
  BY <1>1 DEF Mark
<1>2. CASE Len(n) # 1
  <2>1. Mark(n, k, s) =
          [s EXCEPT !.marks = @ \cup {IF k > 0 THEN k - 1 ELSE Len(n) - 2}]
    BY <1>2 DEF Mark
  <2>2. (IF k > 0 THEN k - 1 ELSE Len(n) - 2) \in 0..(Len(n) - 2)
    <3>1. Len(n) - 2 \in 0..(Len(n) - 2)
      <4>1. Len(n) >= 1
        OBVIOUS
      <4> QED
        BY <1>2, <4>1, OneOrMore, Zenon
    <3>2. k > 0 => k - 1 \in 0..(Len(n) - 2)
      OBVIOUS
    <3> QED
      BY <3>1, <3>2, Zenon
  <2> QED
    BY <1>2, <2>1, <2>2
<1> QED
  BY <1>1, <1>2

\* The four ways an iteration goes: a common node where the pointer expects
\* it, a common node elsewhere, the first node of a difference, and a node
\* inside a difference.
LEMMA LoopBodyCases ==
  ASSUME NEW s, s \in [j : Nat, marks : SUBSET (0..(Len(new) - 2)), raised : BOOLEAN],
         IsSimplePath(old), IsSimplePath(new), NEW k \in 0..(Len(new) - 1)
  PROVE  LET node == new[k + 1]
             t    == LoopBody(old, new, k, s)
         IN  \/ /\ Contains(old, node) /\ IndexOf(old, node) = s.j
                /\ t = [s EXCEPT !.j = IndexOf(old, node) + 1]
             \/ /\ Contains(old, node) /\ IndexOf(old, node) # s.j
                /\ t = [Mark(new, k, s) EXCEPT !.j = IndexOf(old, node) + 1]
             \/ /\ ~Contains(old, node) /\ k > 0 /\ Contains(old, new[k])
                /\ t = Mark(new, k, s)
             \/ /\ ~Contains(old, node) /\ ~(k > 0 /\ Contains(old, new[k]))
                /\ t = s
<1> DEFINE node == new[k + 1]
<1>1. CASE Contains(old, node) /\ IndexOf(old, node) = s.j
  BY <1>1, Zenon DEF LoopBody
<1>2. CASE Contains(old, node) /\ IndexOf(old, node) # s.j
  BY <1>2, Zenon DEF LoopBody
<1>3. CASE ~Contains(old, node) /\ k > 0 /\ Contains(old, new[k])
  BY <1>3, Zenon DEF LoopBody
<1>4. CASE ~Contains(old, node) /\ ~(k > 0 /\ Contains(old, new[k]))
  BY <1>4, Zenon DEF LoopBody
<1> QED
  BY <1>1, <1>2, <1>3, <1>4

LEMMA InitInvariant == Init => IInv
<1> SUFFICES ASSUME Init PROVE IInv
  OBVIOUS
<1>1. IsSimplePath(new) /\ Len(new) >= 1 /\ Len(new) \in Nat
  BY PathsAreSimple DEF Init, IsSimplePath
<1>2. IsSimplePath(old) /\ Len(old) \in Nat
  BY PathsAreSimple DEF Init, IsSimplePath
<1>3. TypeOK
  BY <1>1 DEF Init, TypeOK, ScanStart
<1>4. CursorFollows /\ MarksAreNewLinks /\ NoIndexError
  BY DEF Init, CursorFollows, MarksAreNewLinks, NoIndexError, ScanStart
<1>5. UnmarkedIsCommonPrefix
  BY <1>2 DEF Init, UnmarkedIsCommonPrefix, ScanStart
<1> QED
  BY <1>3, <1>4, <1>5 DEF IInv

LEMMA NextInvariant == IInv /\ [Next]_vars => IInv'
<1> SUFFICES ASSUME IInv, [Next]_vars PROVE IInv'
  OBVIOUS
<1>1. CASE UNCHANGED vars
  BY <1>1 DEF vars, IInv, TypeOK, CursorFollows, UnmarkedIsCommonPrefix,
    MarksAreNewLinks, NoIndexError, SameIngress, SameEgress, StartsClean
<1>2. CASE Iterate
  <2> DEFINE node == new[i + 1]
             Scans == [j : Nat, marks : SUBSET (0..(Len(new) - 2)), raised : BOOLEAN]
  <2>1. /\ IsSimplePath(old) /\ IsSimplePath(new)
        /\ Len(old) \in Nat /\ Len(new) \in Nat /\ Len(new) >= 1
    BY PathsAreSimple DEF IInv, TypeOK, IsSimplePath
  <2>2. /\ i \in 0..(Len(new) - 1) /\ i' = i + 1 /\ ~scan.raised
        /\ scan \in Scans /\ scan' = LoopBody(old, new, i, scan)
        /\ old' = old /\ new' = new
    BY <1>2, <2>1 DEF Iterate, IInv, TypeOK
  <2>3. LET t == Mark(new, i, scan)
        IN  /\ t \in Scans /\ t.j = scan.j
            /\ Len(new) = 1 => t.raised /\ t.marks = scan.marks
            /\ Len(new) # 1 => /\ t.raised = scan.raised
                               /\ t.marks # {}
                               /\ i > 0 => t.marks = scan.marks \cup {i - 1}
    BY <2>1, <2>2, MarkEffect
  <2>4. i > 0 /\ Contains(old, new[i]) => scan.j = IndexOf(old, new[i]) + 1
    BY <2>2 DEF IInv, CursorFollows
  <2>5. i = 0 => scan = ScanStart
    BY DEF IInv, CursorFollows
  <2>6. Contains(old, node) =>
          IndexOf(old, node) \in 0..(Len(old) - 1) /\ old[IndexOf(old, node) + 1] = node
    BY <2>1, NodeAtIndex
  <2>7. i > 0 /\ Follows(old, new[i], node) =>
          Contains(old, node) /\ Contains(old, new[i]) /\ IndexOf(old, node) = scan.j
    BY <2>1, <2>4, FollowsIndex
  \* The four outcomes, with the fields of the new state spelled out.
  <2> DEFINE
        Expected == /\ Contains(old, node) /\ IndexOf(old, node) = scan.j
                    /\ scan' = [scan EXCEPT !.j = IndexOf(old, node) + 1]
        Ends     == /\ Contains(old, node) /\ IndexOf(old, node) # scan.j
                    /\ scan' = [Mark(new, i, scan) EXCEPT !.j = IndexOf(old, node) + 1]
        Starts   == /\ ~Contains(old, node) /\ i > 0 /\ Contains(old, new[i])
                    /\ scan' = Mark(new, i, scan)
        Inside   == /\ ~Contains(old, node) /\ ~(i > 0 /\ Contains(old, new[i]))
                    /\ scan' = scan
  <2>8. Expected \/ Ends \/ Starts \/ Inside
    BY <2>1, <2>2, LoopBodyCases
  <2> HIDE DEF Expected, Ends, Starts, Inside
  <2>9. scan' \in Scans
    BY <2>2, <2>3, <2>6, <2>8 DEF Expected, Ends, Starts, Inside
  <2>10. TypeOK'
    BY <2>1, <2>2, <2>9 DEF IInv, TypeOK
  <2>11. CursorFollows'
    <3>1. Contains(old, node) => scan'.j = IndexOf(old, node) + 1
      BY <2>2, <2>3, <2>8 DEF Expected, Ends, Starts, Inside
    <3> QED
      BY <2>2, <3>1 DEF CursorFollows
  \* A step adds the mark i - 1 at most, unless it is the first one.
  <2>12. i > 0 => scan'.marks \subseteq scan.marks \cup {i - 1}
    BY <2>2, <2>3, <2>8 DEF Expected, Ends, Starts, Inside
  <2>13. Ends \/ Starts => scan'.raised \/ scan'.marks # {}
    BY <2>2, <2>3 DEF Ends, Starts
  <2>14. MarksAreNewLinks'
    <3> SUFFICES ASSUME StartsClean, NEW m \in scan'.marks, Follows(old, new[m + 1], new[m + 2])
                 PROVE  FALSE
      BY <2>2 DEF MarksAreNewLinks, StartsClean, Follows, Contains, IndexOf
    <3>1. m \notin scan.marks
      BY DEF IInv, MarksAreNewLinks
    <3>2. CASE i = 0
      <4>1. ~Ends /\ ~Starts
        BY <3>2, <2>5 DEF Ends, Starts, StartsClean, ScanStart
      <4>2. scan'.marks = scan.marks
        BY <4>1, <2>2, <2>8 DEF Expected, Inside
      <4> QED
        BY <4>2, <3>1
    <3>3. CASE i > 0
      <4>1. m = i - 1
        BY <3>1, <3>3, <2>12
      <4>2. Follows(old, new[i], node)
        BY <4>1, <2>2
      <4>3. Expected
        BY <4>2, <3>3, <2>7, <2>8 DEF Ends, Starts, Inside
      <4>4. scan'.marks = scan.marks
        BY <4>3, <2>2 DEF Expected
      <4> QED
        BY <4>4, <3>1
    <3> QED
      BY <3>2, <3>3, <2>2
  <2>15. UnmarkedIsCommonPrefix'
    <3> SUFFICES ASSUME SameIngress, scan'.marks = {}, ~scan'.raised
                 PROVE  /\ i + 1 <= Len(old)
                        /\ scan'.j = i + 1
                        /\ \A k \in 1..(i + 1) : old[k] = new[k]
      BY <2>2 DEF UnmarkedIsCommonPrefix, SameIngress
    <3>1. Expected \/ Inside
      BY <2>8, <2>13
    <3>2. scan.marks = {}
      BY <3>1, <2>2 DEF Expected, Inside
    <3>3. i <= Len(old) /\ scan.j = i /\ \A k \in 1..i : old[k] = new[k]
      BY <3>2, <2>2 DEF IInv, UnmarkedIsCommonPrefix
    <3>4. Contains(old, node) /\ IndexOf(old, node) = i
      <4>1. CASE i = 0
        <5>1. old[1] = node /\ 1 \in 1..Len(old)
          BY <4>1, <2>1 DEF SameIngress
        <5>2. Contains(old, node)
          BY <5>1 DEF Contains
        <5>3. IndexOf(old, node) = 0
          BY <5>1, <2>1, IndexOfPosition
        <5> QED
          BY <5>2, <5>3, <4>1
      <4>2. CASE i > 0
        <5>1. old[i] = new[i] /\ i \in 1..Len(old)
          BY <4>2, <3>3, <2>2
        <5>2. Contains(old, new[i])
          BY <5>1 DEF Contains
        <5> QED
          BY <5>2, <4>2, <3>1, <3>3 DEF Expected, Inside
      <4> QED
        BY <4>1, <4>2, <2>2
    <3>5. scan'.j = i + 1
      BY <3>1, <3>4, <2>2 DEF Expected, Inside
    <3>6. i + 1 <= Len(old)
      BY <3>4, <2>1, <2>2, <2>6
    <3>7. old[i + 1] = new[i + 1]
      BY <3>4, <2>6
    <3>8. ASSUME NEW k \in 1..(i + 1) PROVE old[k] = new[k]
      <4>1. k \in 1..i \/ k = i + 1
        BY <2>2
      <4> QED
        BY <4>1, <3>3, <3>7
    <3> QED
      BY <3>5, <3>6, <3>8
  <2>16. NoIndexError'
    <3> SUFFICES ASSUME Len(new) >= 2 \/ (SameIngress /\ SameEgress)
                 PROVE  ~scan'.raised
      BY <2>2 DEF NoIndexError, SameIngress, SameEgress
    <3>1. CASE Len(new) >= 2
      <4>1. Len(new) # 1
        BY <3>1, <2>1, OneOrMore, Zenon
      <4> QED
        BY <4>1, <2>2, <2>3, <2>8 DEF Expected, Ends, Starts, Inside
    <3>2. CASE Len(new) = 1 /\ SameIngress
      <4>1. i = 0 /\ scan.j = 0
        BY <3>2, <2>2, <2>5 DEF ScanStart
      <4>2. old[1] = node /\ 1 \in 1..Len(old)
        BY <4>1, <3>2, <2>1 DEF SameIngress
      <4>3. Contains(old, node)
        BY <4>2 DEF Contains
      <4>4. IndexOf(old, node) = 0
        BY <4>2, <2>1, IndexOfPosition
      <4>5. Expected
        BY <4>1, <4>3, <4>4, <2>8 DEF Ends, Starts, Inside
      <4> QED
        BY <4>5, <2>2 DEF Expected
    <3>3. Len(new) >= 2 \/ Len(new) = 1
      BY <2>1, OneOrMore, Zenon
    <3> QED
      BY <3>1, <3>2, <3>3, Zenon
  <2> QED
    BY <2>10, <2>11, <2>14, <2>15, <2>16 DEF IInv
<1> QED
  BY <1>1, <1>2 DEF Next

THEOREM Invariance == Spec => []IInv
  BY InitInvariant, NextInvariant, PTL DEF Spec

\* The loop variables keep their ranges: every mark is the index of an
\* element of handover_arr (emulator.py:130-143).
THEOREM TypeCorrect == Spec => []TypeOK
<1>1. IInv => TypeOK
  BY DEF IInv
<1> QED
  BY <1>1, Invariance, PTL

\* No link that both routes have is marked, unless the first iteration
\* writes through index -1 (emulator.py:134-143).
THEOREM MarksAreNew == Spec => []MarksAreNewLinks
<1>1. IInv => MarksAreNewLinks
  BY DEF IInv
<1> QED
  BY <1>1, Invariance, PTL

\* The function does not raise for the calls of emulator.py:252, nor for
\* any route with two or more switching nodes.
THEOREM NeverRaises == Spec => []NoIndexError
<1>1. IInv => NoIndexError
  BY DEF IInv
<1> QED
  BY <1>1, Invariance, PTL

\* When both gateway satellites are kept, a result without marks means that
\* the route is the same: the test of emulator.py:252 misses no handover.
THEOREM NoMarkMeansSame == Spec => []NoMarkMeansSameRoute
<1>1. IInv => NoMarkMeansSameRoute
  <2> SUFFICES ASSUME IInv, Done, SameIngress, SameEgress, scan.marks = {}
               PROVE  new = old
    BY DEF NoMarkMeansSameRoute
  <2>1. /\ IsSimplePath(old) /\ IsSimplePath(new)
        /\ Len(old) \in Nat /\ Len(new) \in Nat /\ Len(new) >= 1
        /\ old \in Seq(Nodes) /\ new \in Seq(Nodes)
    BY PathsAreSimple DEF IInv, TypeOK, IsSimplePath
  <2>2. Len(new) <= Len(old) /\ \A k \in 1..Len(new) : old[k] = new[k]
    BY DEF IInv, UnmarkedIsCommonPrefix, Done
  <2>3. old[Len(old)] = old[Len(new)]
    BY <2>1, <2>2 DEF SameEgress
  <2>4. Len(old) = Len(new)
    BY <2>1, <2>2, <2>3 DEF IsSimplePath
  <2> QED
    BY <2>1, <2>2, <2>4
<1> QED
  BY <1>1, Invariance, PTL

------------------------------------------------------------------------------
(* Induction, and what a recursive function computes.                      *)

\* Every set of natural numbers has a least element.
LEMMA Least ==
  ASSUME NEW S \in SUBSET Nat, S # {}
  PROVE  \E n \in S : \A m \in S : n <= m
<1> DEFINE Less == {ss \in Nat \X Nat : ss[1] < ss[2]}
<1>1. IsWellFoundedOn(Less, Nat)
  BY NatLessThanWellFounded DEF OpToRel
<1>2. \E n \in S : \A m \in S : ~(<<m, n>> \in Less)
  BY <1>1, WFMin
<1>3. \A m, n \in Nat : m < n => <<m, n>> \in Less
  OBVIOUS
<1> HIDE DEF Less
<1>4. \E n \in S : \A m \in S : ~(m < n)
  BY <1>2, <1>3
<1> QED
  BY <1>4

\* So a set with zero and every successor has them all.
LEMMA AllOf ==
  ASSUME NEW S, 0 \in S, \A n \in Nat : n \in S => n + 1 \in S
  PROVE  Nat \subseteq S
<1> SUFFICES ASSUME Nat \ S # {} PROVE FALSE
  OBVIOUS
<1>1. PICK n \in Nat \ S : \A m \in Nat \ S : n <= m
  BY Least
<1>2. n - 1 \in Nat /\ n - 1 \in S
  BY <1>1
<1> QED
  BY <1>1, <1>2

\* The loop of compute_link_delta, up to the n-th node.
IsScan(f, was, now, n) ==
  f = [k \in 0..n |-> IF k = 0 THEN ScanStart ELSE LoopBody(was, now, k - 1, f[k - 1])]

LEMMA ScanExists ==
  ASSUME NEW was, NEW now, NEW n \in Nat
  PROVE  \E f : IsScan(f, was, now, n)
<1> DEFINE Reached == {m \in Nat : \E f : IsScan(f, was, now, m)}
<1>1. 0 \in Reached
  <2>1. IsScan([k \in 0..0 |-> ScanStart], was, now, 0)
    BY DEF IsScan
  <2> QED
    BY <2>1
<1>2. ASSUME NEW m \in Nat, m \in Reached PROVE m + 1 \in Reached
  <2>1. PICK f : IsScan(f, was, now, m)
    BY <1>2
  <2> DEFINE g == [k \in 0..(m + 1) |->
                     IF k = m + 1 THEN LoopBody(was, now, m, f[m]) ELSE f[k]]
  <2>2. \A k \in 0..m : f[k] = IF k = 0 THEN ScanStart ELSE LoopBody(was, now, k - 1, f[k - 1])
    BY <2>1 DEF IsScan
  <2>3. \A k \in 0..(m + 1) :
          g[k] = IF k = 0 THEN ScanStart ELSE LoopBody(was, now, k - 1, g[k - 1])
    <3> SUFFICES ASSUME NEW k \in 0..(m + 1)
                 PROVE  g[k] = IF k = 0 THEN ScanStart
                                        ELSE LoopBody(was, now, k - 1, g[k - 1])
      OBVIOUS
    <3>1. CASE k = m + 1
      <4>1. k - 1 = m /\ k # 0 /\ g[m] = f[m]
        BY <3>1
      <4> QED
        BY <3>1, <4>1
    <3>2. CASE k # m + 1 /\ k # 0
      <4>1. k \in 0..m /\ k - 1 \in 0..m /\ k - 1 # m + 1 /\ k - 1 \in 0..(m + 1)
        BY <3>2
      <4>2. g[k] = f[k] /\ g[k - 1] = f[k - 1]
        BY <3>2, <4>1
      <4> QED
        BY <2>2, <3>2, <4>1, <4>2
    <3>3. CASE k = 0
      BY <2>2, <3>3
    <3> QED
      BY <3>1, <3>2, <3>3
  <2>4. g = [k \in 0..(m + 1) |-> g[k]]
    OBVIOUS
  <2> HIDE DEF g
  <2>5. IsScan(g, was, now, m + 1)
    BY <2>3, <2>4 DEF IsScan
  <2> QED
    BY <2>5
<1>3. Nat \subseteq Reached
  <2> HIDE DEF Reached
  <2> QED
    BY <1>1, <1>2, AllOf
<1> QED
  BY <1>3

\* ComputeLinkDelta returns what the last iteration leaves.
LEMMA DeltaIsScan ==
  ASSUME NEW was, NEW now, Len(now) \in Nat
  PROVE  \E f : /\ IsScan(f, was, now, Len(now))
                /\ ComputeLinkDelta(was, now) =
                     [marks |-> {m + 1 : m \in f[Len(now)].marks}, raised |-> f[Len(now)].raised]
<1> DEFINE F == CHOOSE f : IsScan(f, was, now, Len(now))
<1>1. IsScan(F, was, now, Len(now))
  BY ScanExists
<1>2. ComputeLinkDelta(was, now) =
        [marks |-> {m + 1 : m \in F[Len(now)].marks}, raised |-> F[Len(now)].raised]
  BY DEF ComputeLinkDelta, IsScan
<1> QED
  BY <1>1, <1>2

\* handover_arr has one element less than the route has nodes, and it is the
\* empty list alone that an index can be out of.
LoopOK(s, now) ==
  /\ s = [j |-> s.j, marks |-> s.marks, raised |-> s.raised]
  /\ s.marks \subseteq 0..(Len(now) - 2)
  /\ s.raised \in BOOLEAN /\ (s.raised => Len(now) = 1)

\* The index that a mark is set at, Python's -1 included, is in handover_arr.
LEMMA IndexFits ==
  ASSUME NEW n \in Nat, n # 0, n # 1, NEW k \in 0..(n - 1)
  PROVE  (IF k > 0 THEN k - 1 ELSE n - 2) \in 0..(n - 2)
  OBVIOUS

\* An iteration keeps that.
LEMMA LoopBodyOK ==
  ASSUME NEW was, NEW now, Len(now) \in Nat \ {0}, NEW k \in 0..(Len(now) - 1),
         NEW s, LoopOK(s, now)
  PROVE  LoopOK(LoopBody(was, now, k, s), now)
<1> DEFINE m == Mark(now, k, s)
<1>1. LoopOK(m, now)
  <2>1. CASE Len(now) = 1
    <3>1. m = [j |-> s.j, marks |-> s.marks, raised |-> TRUE]
      BY <2>1 DEF Mark, LoopOK
    <3> QED
      BY <2>1, <3>1 DEF LoopOK
  <2>2. CASE Len(now) # 1
    <3> DEFINE at == IF k > 0 THEN k - 1 ELSE Len(now) - 2
    <3>1. at \in 0..(Len(now) - 2)
      BY <2>2, IndexFits
    <3>2. m = [j |-> s.j, marks |-> s.marks \cup {at}, raised |-> s.raised]
      BY <2>2 DEF Mark, LoopOK
    <3> HIDE DEF at, m
    <3> QED
      BY <3>1, <3>2 DEF LoopOK
  <2> QED
    BY <2>1, <2>2
<1>2. \A at : LoopOK([m EXCEPT !.j = at], now) /\ LoopOK([s EXCEPT !.j = at], now)
  <2> HIDE DEF m
  <2> TAKE at
  <2>1. /\ [m EXCEPT !.j = at] = [j |-> at, marks |-> m.marks, raised |-> m.raised]
        /\ [s EXCEPT !.j = at] = [j |-> at, marks |-> s.marks, raised |-> s.raised]
    BY <1>1 DEF LoopOK
  <2> QED
    BY <1>1, <2>1 DEF LoopOK
<1> QED
  BY <1>1, <1>2 DEF LoopBody

\* compute_link_delta marks links between the nodes of the new route.
LEMMA DeltaType ==
  ASSUME NEW was, NEW now, Len(now) \in Nat \ {0}
  PROVE  LET d == ComputeLinkDelta(was, now)
         IN  /\ d.marks \subseteq 1..(Len(now) - 1) /\ d.raised \in BOOLEAN
             /\ d.raised => Len(now) = 1
<1>1. PICK f : /\ IsScan(f, was, now, Len(now))
               /\ ComputeLinkDelta(was, now) =
                    [marks |-> {m + 1 : m \in f[Len(now)].marks}, raised |-> f[Len(now)].raised]
  BY DeltaIsScan
<1> DEFINE Fine == {k \in Nat : k <= Len(now) => LoopOK(f[k], now)}
<1>2. 0 \in Fine
  <2>1. f[0] = ScanStart
    BY <1>1 DEF IsScan
  <2>2. LoopOK(ScanStart, now)
    BY DEF LoopOK, ScanStart
  <2> QED
    BY <2>1, <2>2
<1>3. ASSUME NEW k \in Nat, k \in Fine PROVE k + 1 \in Fine
  <2> SUFFICES ASSUME k + 1 <= Len(now) PROVE LoopOK(f[k + 1], now)
    OBVIOUS
  <2>1. k + 1 \in 0..Len(now) /\ k + 1 # 0 /\ (k + 1) - 1 = k
    OBVIOUS
  <2>2. f[k + 1] = LoopBody(was, now, k, f[k])
    BY <1>1, <2>1 DEF IsScan
  <2>3. LoopOK(f[k], now) /\ k \in 0..(Len(now) - 1)
    BY <1>3
  <2> QED
    BY <2>2, <2>3, LoopBodyOK
<1>4. LoopOK(f[Len(now)], now)
  <2> HIDE DEF Fine
  <2>1. Len(now) \in Fine
    BY <1>2, <1>3, AllOf
  <2> QED
    BY <2>1 DEF Fine
<1> QED
  BY <1>1, <1>4 DEF LoopOK

\* Where there was no route nothing is marked out of bounds.
LEMMA FromNothing ==
  ASSUME NEW now, Len(now) \in Nat \ {0}
  PROVE  ComputeLinkDelta(<< >>, now).raised = FALSE
<1>1. CASE Len(now) # 1
  BY <1>1, DeltaType
<1>2. CASE Len(now) = 1
  <2>1. PICK f : /\ IsScan(f, << >>, now, 1)
                 /\ ComputeLinkDelta(<< >>, now) =
                      [marks |-> {m + 1 : m \in f[1].marks}, raised |-> f[1].raised]
    BY <1>2, DeltaIsScan
  <2>2. 0 \in 0..1 /\ 1 \in 0..1 /\ 1 - 1 = 0
    OBVIOUS
  <2>3. f[0] = ScanStart /\ f[1] = LoopBody(<< >>, now, 0, f[0])
    BY <2>1, <2>2 DEF IsScan
  <2>4. ~Contains(<< >>, now[0 + 1])
    BY DEF Contains
  <2>5. f[1] = ScanStart
    BY <2>3, <2>4 DEF LoopBody
  <2> QED
    BY <2>1, <2>5 DEF ScanStart
<1> QED
  BY <1>1, <1>2

------------------------------------------------------------------------------
(* The function, between two routes that share their gateways.             *)

\* A path visits no node twice.
Simple(p) == \A k, l \in 1..Len(p) : p[k] = p[l] => k = l

\* The pointer is moved.
LEMMA PointerMoved ==
  ASSUME NEW s, s = [j |-> s.j, marks |-> s.marks, raised |-> s.raised], NEW at
  PROVE  [s EXCEPT !.j = at] = [j |-> at, marks |-> s.marks, raised |-> s.raised]
  OBVIOUS

\* The first k nodes of two routes are the same.
SameUpTo(was, now, k) == k <= Len(was) /\ \A l \in 1..k : was[l] = now[l]

\* An iteration of the loop over two routes that have been the same so far.
LEMMA NextNode ==
  ASSUME NEW S, NEW was \in Seq(S), NEW now \in Seq(S), Simple(was),
         Len(was) >= 1, was[1] = now[1],
         NEW k \in Nat, k < Len(now), SameUpTo(was, now, k),
         NEW s, s = [j |-> k, marks |-> {}, raised |-> FALSE]
  PROVE  /\ SameUpTo(was, now, k + 1) =>
              LoopBody(was, now, k, s) = [j |-> k + 1, marks |-> {}, raised |-> FALSE]
         /\ ~SameUpTo(was, now, k + 1) => LoopBody(was, now, k, s).marks # {}
<1> DEFINE t == LoopBody(was, now, k, s)
           m == Mark(now, k, s)
<1>0. /\ s.j = k /\ s.raised = FALSE /\ s.marks = {}
      /\ s = [j |-> s.j, marks |-> s.marks, raised |-> s.raised]
  OBVIOUS
<1>01. /\ k <= Len(was) /\ \A l \in 1..k : was[l] = now[l]
       /\ SameUpTo(was, now, k + 1) <=> k < Len(was) /\ was[k + 1] = now[k + 1]
  BY DEF SameUpTo
<1>1. CASE k < Len(was) /\ was[k + 1] = now[k + 1]
  <2>1. k + 1 \in 1..Len(was)
    BY <1>1
  <2>2. Contains(was, now[k + 1])
    BY <1>1, <2>1 DEF Contains
  <2>3. IndexOf(was, now[k + 1]) = k
    <3>1. (CHOOSE l \in 1..Len(was) : was[l] = now[k + 1]) = k + 1
      BY <1>1, <2>1 DEF Simple
    <3>2. IndexOf(was, now[k + 1]) = (k + 1) - 1
      BY <3>1 DEF IndexOf
    <3> QED
      BY <3>2
  <2>4. t = [s EXCEPT !.j = k + 1]
    BY <2>2, <2>3 DEF LoopBody
  <2>5. [s EXCEPT !.j = k + 1] = [j |-> k + 1, marks |-> s.marks, raised |-> s.raised]
    BY <1>0, PointerMoved
  <2> QED
    BY <1>0, <1>01, <1>1, <2>4, <2>5
<1>2. CASE ~(k < Len(was) /\ was[k + 1] = now[k + 1])
  <2>1. k > 0 /\ Len(now) # 1
    BY <1>01, <1>2
  <2>2. m.marks # {} /\ m = [j |-> m.j, marks |-> m.marks, raised |-> m.raised]
    <3>1. m = [s EXCEPT !.marks = @ \cup {k - 1}]
      BY <2>1 DEF Mark
    <3>2. m = [j |-> s.j, marks |-> s.marks \cup {k - 1}, raised |-> s.raised]
      BY <3>1
    <3> HIDE DEF m
    <3> QED
      BY <1>0, <3>2
  <2> HIDE DEF m
  <2>3. CASE Contains(was, now[k + 1])
    <3> DEFINE at == IndexOf(was, now[k + 1])
    <3>1. at + 1 \in 1..Len(was) /\ was[at + 1] = now[k + 1]
      <4>1. PICK l \in 1..Len(was) : was[l] = now[k + 1]
        BY <2>3 DEF Contains
      <4>2. (CHOOSE n \in 1..Len(was) : was[n] = now[k + 1]) = l
        BY <4>1 DEF Simple
      <4>3. at = l - 1
        BY <4>2 DEF IndexOf
      <4> QED
        BY <4>1, <4>3
    <3> HIDE DEF at
    <3>2. at # s.j
      BY <1>0, <1>2, <3>1
    <3>3. t = [m EXCEPT !.j = at + 1]
      BY <2>3, <3>2 DEF LoopBody, at, m
    <3>4. [m EXCEPT !.j = at + 1] = [j |-> at + 1, marks |-> m.marks, raised |-> m.raised]
      BY <2>2, PointerMoved
    <3>5. t.marks = m.marks
      BY <3>3, <3>4
    <3> QED
      BY <1>01, <1>2, <2>2, <3>5
  <2>4. CASE ~Contains(was, now[k + 1])
    <3>1. was[k] = now[k] /\ k \in 1..Len(was)
      BY <1>01, <2>1
    <3>2. Contains(was, now[k])
      BY <3>1 DEF Contains
    <3>3. t = m
      BY <2>1, <2>4, <3>2 DEF LoopBody, m
    <3> QED
      BY <1>01, <1>2, <2>2, <3>3
  <2> QED
    BY <2>3, <2>4
<1> QED
  BY <1>01, <1>1, <1>2

\* What is marked stays marked.
LEMMA MarksStay ==
  ASSUME NEW was, NEW now, NEW k, NEW s, LoopOK(s, now), s.marks # {}
  PROVE  LoopBody(was, now, k, s).marks # {}
<1> DEFINE m == Mark(now, k, s)
<1>1. m.marks # {} /\ m = [j |-> m.j, marks |-> m.marks, raised |-> m.raised]
  <2>1. CASE Len(now) = 1
    <3>1. m = [j |-> s.j, marks |-> s.marks, raised |-> TRUE]
      BY <2>1 DEF Mark, LoopOK
    <3> QED
      BY <3>1
  <2>2. CASE Len(now) # 1
    <3> DEFINE at == IF k > 0 THEN k - 1 ELSE Len(now) - 2
    <3>1. m = [j |-> s.j, marks |-> s.marks \cup {at}, raised |-> s.raised]
      BY <2>2 DEF Mark, LoopOK
    <3> HIDE DEF at, m
    <3> QED
      BY <3>1
  <2> QED
    BY <2>1, <2>2
<1>2. \A at : [m EXCEPT !.j = at].marks # {} /\ [s EXCEPT !.j = at].marks # {}
  <2> HIDE DEF m
  <2> TAKE at
  <2>1. /\ [m EXCEPT !.j = at] = [j |-> at, marks |-> m.marks, raised |-> m.raised]
        /\ [s EXCEPT !.j = at] = [j |-> at, marks |-> s.marks, raised |-> s.raised]
    BY <1>1, PointerMoved DEF LoopOK
  <2> QED
    BY <1>1, <2>1
<1> QED
  BY <1>1, <1>2 DEF LoopBody

\* compute_link_delta between routes that share their gateways: it does not
\* raise, and marks something if and only if the route has changed.
LEMMA FindsChanges ==
  ASSUME NEW S
  PROVE  \A was \in Seq(S), now \in Seq(S) :
           /\ Simple(was) /\ Len(was) >= 1 /\ Len(now) >= 1
           /\ was[1] = now[1] /\ was[Len(was)] = now[Len(now)]
           => /\ ComputeLinkDelta(was, now).raised = FALSE
              /\ ComputeLinkDelta(was, now).marks = {} <=> was = now
<1> SUFFICES ASSUME NEW was \in Seq(S), NEW now \in Seq(S), Simple(was),
                    Len(was) >= 1, Len(now) >= 1,
                    was[1] = now[1], was[Len(was)] = now[Len(now)]
             PROVE  /\ ComputeLinkDelta(was, now).raised = FALSE
                    /\ ComputeLinkDelta(was, now).marks = {} <=> was = now
  OBVIOUS
<1>1. PICK f : /\ IsScan(f, was, now, Len(now))
               /\ ComputeLinkDelta(was, now) =
                    [marks |-> {m + 1 : m \in f[Len(now)].marks}, raised |-> f[Len(now)].raised]
  BY DeltaIsScan
<1> DEFINE Same(k) == SameUpTo(was, now, k)
           Fine(k) == /\ LoopOK(f[k], now)
                      /\ Same(k) => f[k] = [j |-> k, marks |-> {}, raised |-> FALSE]
                      /\ ~Same(k) => f[k].marks # {}
           Reached == {k \in Nat : k <= Len(now) => Fine(k)}
<1>2. 0 \in Reached
  <2>1. f[0] = [j |-> 0, marks |-> {}, raised |-> FALSE]
    BY <1>1 DEF IsScan, ScanStart
  <2>2. LoopOK(f[0], now) /\ Same(0)
    BY <2>1 DEF LoopOK, SameUpTo
  <2> QED
    BY <2>1, <2>2
<1>3. ASSUME NEW k \in Nat, k \in Reached PROVE k + 1 \in Reached
  <2> SUFFICES ASSUME k + 1 <= Len(now) PROVE Fine(k + 1)
    OBVIOUS
  <2>1. k + 1 \in 0..Len(now) /\ k + 1 # 0 /\ (k + 1) - 1 = k /\ k < Len(now)
    OBVIOUS
  <2>2. f[k + 1] = LoopBody(was, now, k, f[k])
    BY <1>1, <2>1 DEF IsScan
  <2>3. Fine(k) /\ k \in 0..(Len(now) - 1)
    BY <1>3
  <2>4. LoopOK(f[k + 1], now)
    BY <2>2, <2>3, LoopBodyOK
  <2>5. Same(k + 1) => Same(k)
    BY DEF SameUpTo
  <2>6. CASE Same(k)
    <3>1. f[k] = [j |-> k, marks |-> {}, raised |-> FALSE]
      BY <2>3, <2>6
    <3>2. /\ Same(k + 1) =>
               LoopBody(was, now, k, f[k]) = [j |-> k + 1, marks |-> {}, raised |-> FALSE]
          /\ ~Same(k + 1) => LoopBody(was, now, k, f[k]).marks # {}
      BY <2>1, <2>6, <3>1, NextNode
    <3> QED
      BY <2>2, <2>4, <3>2
  <2>7. CASE ~Same(k)
    <3>1. f[k + 1].marks # {}
      BY <2>2, <2>3, <2>7, MarksStay
    <3> QED
      BY <2>4, <2>5, <2>7, <3>1
  <2> QED
    BY <2>6, <2>7
<1>4. Fine(Len(now))
  <2>1. Nat \subseteq Reached
    <3> HIDE DEF Reached
    <3> QED
      BY <1>2, <1>3, AllOf
  <2> QED
    BY <2>1
<1>5. Same(Len(now)) <=> was = now
  <2>1. ASSUME Same(Len(now)) PROVE was = now
    <3>1. Len(now) \in 1..Len(was) /\ Len(was) \in 1..Len(was)
      BY <2>1 DEF SameUpTo
    <3>2. Len(now) = Len(was)
      BY <2>1, <3>1 DEF Simple, SameUpTo
    <3> QED
      BY <2>1, <3>2 DEF SameUpTo
  <2> QED
    BY <2>1 DEF SameUpTo
<1>6. f[Len(now)].raised = FALSE
  <2>1. CASE Len(now) = 1
    <3>1. Same(Len(now))
      BY <2>1 DEF SameUpTo
    <3> QED
      BY <1>4, <3>1
  <2>2. CASE Len(now) # 1
    BY <1>4, <2>2 DEF LoopOK
  <2> QED
    BY <2>1, <2>2
<1>7. f[Len(now)].marks = {} <=> was = now
  BY <1>4, <1>5
<1>8. ComputeLinkDelta(was, now).marks = {} <=> f[Len(now)].marks = {}
  <2>1. ComputeLinkDelta(was, now).marks = {m + 1 : m \in f[Len(now)].marks}
    BY <1>1
  <2> QED
    BY <2>1
<1> QED
  BY <1>1, <1>6, <1>7, <1>8

------------------------------------------------------------------------------
\* The scan so far is the value of the recursive function, whatever it is.
Agrees == \A f : IsScan(f, old, new, Len(new)) => scan = f[i]

\* The loop, iteration by iteration, computes what ComputeLinkDelta does: what
\* is proved of the one holds of the other (emulator.py:124-146).
THEOREM LoopIsFunction ==
  Spec => [](i = Len(new) => ComputeLinkDelta(old, new) =
               [marks |-> {m + 1 : m \in scan.marks}, raised |-> scan.raised])
<1>1. Init => Agrees
  <2> SUFFICES ASSUME Init, NEW f, IsScan(f, old, new, Len(new)) PROVE scan = f[i]
    BY DEF Agrees
  <2>1. Len(new) \in Nat
    BY PathsAreSimple DEF Init, IsSimplePath
  <2>2. 0 \in 0..Len(new)
    BY <2>1
  <2> QED
    BY <2>2 DEF IsScan, Init
<1>2. IInv /\ Agrees /\ [Next]_vars => Agrees'
  <2> SUFFICES ASSUME IInv, Agrees, [Next]_vars, NEW f, IsScan(f, old', new', Len(new'))
               PROVE  scan' = f[i']
    BY DEF Agrees
  <2>1. CASE Iterate
    <3>1. /\ old' = old /\ new' = new /\ i' = i + 1 /\ i < Len(new)
          /\ scan' = LoopBody(old, new, i, scan)
      BY <2>1 DEF Iterate
    <3>2. Len(new) \in Nat /\ i \in Nat
      BY PathsAreSimple DEF IInv, TypeOK, IsSimplePath
    <3>3. i + 1 \in 0..Len(new) /\ i + 1 # 0 /\ (i + 1) - 1 = i
      BY <3>1, <3>2
    <3>4. f[i + 1] = LoopBody(old, new, i, f[i])
      BY <3>1, <3>3 DEF IsScan
    <3>5. scan = f[i]
      BY <3>1 DEF Agrees
    <3> QED
      BY <3>1, <3>4, <3>5
  <2>2. CASE UNCHANGED vars
    BY <2>2 DEF vars, Agrees
  <2> QED
    BY <2>1, <2>2 DEF Next
<1>3. IInv /\ Agrees =>
        (i = Len(new) => ComputeLinkDelta(old, new) =
           [marks |-> {m + 1 : m \in scan.marks}, raised |-> scan.raised])
  <2>1. IInv => Len(new) \in Nat
    BY PathsAreSimple DEF IInv, TypeOK, IsSimplePath
  <2> QED
    BY <2>1, DeltaIsScan DEF Agrees
<1> QED
  BY <1>1, <1>2, <1>3, Invariance, PTL DEF Spec
==============================================================================
