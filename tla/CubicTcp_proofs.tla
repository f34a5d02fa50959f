--------------------------- MODULE CubicTcp_proofs ---------------------------
(***************************************************************************)
(* Proofs about CUBIC for every window, scale and number of losses. What   *)
(* could go wrong is arithmetic: the window is divided by a difference,    *)
(* the credit by the count, the idle time is added to the epoch. IInv says *)
(* that the count left behind for an early return is at least two and that *)
(* no epoch lies in the future; both are kept by each operation, and with  *)
(* a count of at least two the growth of the window is bounded.            *)
(***************************************************************************)
EXTENDS CubicTcp, FiniteSetTheorems, TLAPS

------------------------------------------------------------------------------
(* Natural numbers. *)

\* A product of natural numbers is one.
LEMMA ProductNat ==
  ASSUME NEW a \in Nat, NEW b \in Nat
  PROVE  a * b \in Nat
  OBVIOUS

\* Division by a positive number.
LEMMA Division ==
  ASSUME NEW a \in Nat, NEW d \in Nat \ {0}
  PROVE  /\ a \div d \in Nat
         /\ a % d \in Nat
         /\ a = d * (a \div d) + (a % d)
  OBVIOUS

\* What is taken away in whole multiples leaves a natural number.
LEMMA Remainder ==
  ASSUME NEW a \in Nat, NEW d \in Nat \ {0}
  PROVE  a - (a \div d) * d \in Nat
<1>1. a = d * (a \div d) + (a % d) /\ a \div d \in Nat /\ a % d \in Nat
  BY Division
<1>2. (a \div d) * d = d * (a \div d)
  BY <1>1
<1>3. d * (a \div d) \in Nat
  BY <1>1, ProductNat
<1> QED
  BY <1>1, <1>2, <1>3

\* The cube root is a natural number.
LEMMA RootNat ==
  ASSUME NEW a \in Nat
  PROVE  CubicRoot(a) \in Nat
<1> DEFINE S == {r \in 1..a : r*r*r <= a}
<1>1. IsFiniteSet(1..a)
  BY FS_Interval
<1>2. IsFiniteSet(S)
  BY <1>1, FS_Subset
<1> QED
  BY <1>2, FS_CardinalityType DEF CubicRoot

------------------------------------------------------------------------------
(* bictcp_update. *)

\* A clock, a window and a memory as an operation finds them.
Present(c, w) == now \in 1..MaxTime /\ handover \in BOOLEAN /\ c \in Memories /\ w \in 1..Clamp

\* The time to the origin point is natural, with and without a handover.
LEMMA TimeToOriginNat ==
  ASSUME NEW c, NEW w, Present(c, w), c.lastMax > w
  PROVE  TimeToOrigin(c, w) \in Nat
<1> DEFINE k == CubicRoot(Factor * (c.lastMax - w))
<1>1. Factor \in Nat /\ c.lastMax - w \in Nat
  BY ScaleIsSane DEF Present, Memories
<1>2. Factor * (c.lastMax - w) \in Nat
  BY <1>1, ProductNat
<1>3. k \in Nat
  BY <1>2, RootNat
<1>4. k - (k * 8) \div 9 \in Nat
  BY <1>3
<1> QED
  BY <1>3, <1>4 DEF TimeToOrigin

\* An epoch starts at present, or has started before.
LEMMA StartEpochType ==
  ASSUME NEW c, NEW w, NEW n \in Nat, Present(c, w), c.epoch <= now
  PROVE  /\ StartEpoch(c, w, n) \in Memories
         /\ StartEpoch(c, w, n).epoch <= now
         /\ StartEpoch(c, w, n).found = c.found
         /\ StartEpoch(c, w, n).lastMax = c.lastMax
<1>1. CASE c.epoch # 0
  BY <1>1 DEF StartEpoch, Present
<1>2. CASE c.epoch = 0
  <2> DEFINE K == IF c.lastMax <= w THEN 0 ELSE TimeToOrigin(c, w)
             m == Larger(c.lastMax, w)
  <2>1. /\ now \in Nat /\ w \in 0..Clamp /\ c.lastMax \in 0..Clamp
        /\ w \in Nat /\ Clamp \in Nat
    BY ScaleIsSane DEF Present, Memories
  <2>2. K \in Nat
    BY <2>1, TimeToOriginNat
  <2>3. m \in 0..Clamp
    BY <2>1 DEF Larger
  <2>4. StartEpoch(c, w, n) =
          [c EXCEPT !.epoch = now, !.ackCnt = n, !.tcpCwnd = w, !.K = K, !.origin = m]
    BY <1>2 DEF StartEpoch
  <2> HIDE DEF K, m
  <2>5. c \in Memories
    BY DEF Present
  <2>6. StartEpoch(c, w, n) \in Memories
    BY <2>1, <2>2, <2>3, <2>4, <2>5 DEF Memories
  <2>7. /\ StartEpoch(c, w, n).epoch = now /\ StartEpoch(c, w, n).found = c.found
        /\ StartEpoch(c, w, n).lastMax = c.lastMax
    BY <2>4, <2>5 DEF Memories
  <2> QED
    BY <2>1, <2>6, <2>7
<1> QED
  BY <1>1, <1>2

\* The cubic curve has a value in the integers.
LEMMA TargetInt ==
  ASSUME NEW c \in Memories, now \in 1..MaxTime
  PROVE  Target(c) \in Int
<1> DEFINE t == now - c.epoch + c.delayMin
           offs == IF t < c.K THEN c.K - t ELSE t - c.K
<1>1. /\ c.epoch \in Nat /\ c.K \in Nat /\ c.delayMin \in Nat
      /\ c.origin \in Nat
  <2>1. c.delayMin \in Delays \cup {0} /\ c.origin \in 0..Clamp
    BY DEF Memories
  <2>2. \A d \in Delays : d \in Nat
    BY ScaleIsSane
  <2>3. c.delayMin \in Nat
    BY <2>1, <2>2
  <2> QED
    BY <2>1, <2>3 DEF Memories
<1>2. t \in Int /\ offs \in Nat
  BY <1>1, ScaleIsSane
<1>3. offs * offs * offs \in Nat
  <2> HIDE DEF offs
  <2>1. offs * offs \in Nat
    BY <1>2, ProductNat
  <2> QED
    BY <1>2, <2>1, ProductNat
<1>4. (offs * offs * offs) \div Factor \in Nat
  <2> HIDE DEF offs
  <2> QED
    BY <1>3, Division, ScaleIsSane
<1> QED
  BY <1>1, <1>4 DEF Target

\* The count of the curve is natural: the window is divided only by a
\* target's distance above it.
LEMMA CubicCountNat ==
  ASSUME NEW c, NEW w, Present(c, w)
  PROVE  CubicCount(c, w) \in Nat
<1>1. Target(c) \in Int /\ w \in Nat
  BY TargetInt, ScaleIsSane DEF Present
<1>2. Target(c) > w => Target(c) - w \in Nat \ {0}
  BY <1>1
<1>3. Target(c) > w => w \div (Target(c) - w) \in Nat
  BY <1>1, <1>2, Division
<1>4. 100 * w \in Nat
  BY <1>1
<1> QED
  BY <1>3, <1>4 DEF CubicCount, Smaller

\* The comparison with plain TCP changes only count, credit and estimate.
LEMMA FriendlyType ==
  ASSUME NEW c, NEW w, Present(c, w)
  PROVE  /\ Friendly(c, w) \in Memories
         /\ Friendly(c, w).epoch = c.epoch
         /\ Friendly(c, w).lastCwnd = c.lastCwnd
         /\ Friendly(c, w).found = c.found
         /\ Friendly(c, w).lastMax = c.lastMax
<1> DEFINE delta == (w * 15) \div 8
           grown == IF c.ackCnt > delta THEN (c.ackCnt - 1) \div delta ELSE 0
           e == c.tcpCwnd + grown
<1>1. c.ackCnt \in Nat /\ c.tcpCwnd \in Nat /\ c.cnt \in Nat /\ w \in Nat
  BY ScaleIsSane DEF Present, Memories
<1>2. delta \in Nat \ {0}
  BY <1>1, ScaleIsSane DEF Present
<1>3. grown \in Nat /\ c.ackCnt - grown * delta \in Nat
  <2> HIDE DEF delta
  <2>1. CASE c.ackCnt > delta
    <3>1. c.ackCnt - 1 \in Nat
      BY <1>1, <1>2, <2>1
    <3>2. (c.ackCnt - 1) \div delta \in Nat
      BY <1>2, <3>1, Division
    <3>3. (c.ackCnt - 1) - ((c.ackCnt - 1) \div delta) * delta \in Nat
      BY <1>2, <3>1, Remainder
    <3>4. ((c.ackCnt - 1) \div delta) * delta \in Nat
      BY <1>2, <3>2, ProductNat
    <3>5. c.ackCnt - ((c.ackCnt - 1) \div delta) * delta \in Nat
      BY <1>1, <3>3, <3>4
    <3> QED
      BY <2>1, <3>2, <3>5
  <2>2. CASE ~(c.ackCnt > delta)
    BY <1>1, <1>2, <2>2
  <2> QED
    BY <2>1, <2>2
<1>4. e \in Nat
  BY <1>1, <1>3
<1>5. (IF e > w THEN Smaller(c.cnt, w \div (e - w)) ELSE c.cnt) \in Nat
  <2> HIDE DEF e
  <2>1. e > w => w \div (e - w) \in Nat
    BY <1>1, <1>4, Division
  <2> QED
    BY <1>1, <2>1 DEF Smaller
<1>6. Friendly(c, w) = [c EXCEPT !.ackCnt = c.ackCnt - grown * delta, !.tcpCwnd = e,
                !.cnt = IF e > w THEN Smaller(c.cnt, w \div (e - w)) ELSE c.cnt]
  BY DEF Friendly, Present, Memories
<1> HIDE DEF e, grown, delta
<1> QED
  BY <1>3, <1>4, <1>5, <1>6 DEF Present, Memories

\* What the operations count on in a memory, and leave in it.
Sound(c) == c \in Memories /\ (c.lastCwnd # 0 => c.cnt >= 2) /\ c.epoch <= now

\* bictcp_update returns with a count of two or more, early or not: an early
\* return is one with the window of the last update, so it was limited then.
LEMMA UpdateSound ==
  ASSUME NEW c, NEW w, NEW n \in Nat, Present(c, w), Sound(c)
  PROVE  /\ Sound(Update(c, w, n)) /\ Update(c, w, n).cnt >= 2
         /\ Update(c, w, n).found = c.found
         /\ Update(c, w, n).lastMax = c.lastMax
<1> DEFINE d == [c EXCEPT !.ackCnt = @ + n]
           stamped == [d EXCEPT !.lastCwnd = w, !.lastTime = now]
           e == StartEpoch(stamped, w, n)
           curve == IF d.epoch # 0 /\ now = d.lastTime
                      THEN d ELSE [e EXCEPT !.cnt = CubicCount(e, w)]
           f == Friendly(curve, w)
           g == [f EXCEPT !.cnt = Larger(@, 2)]
<1>1. w \in Nat /\ w # 0 /\ w \in 0..Clamp /\ now \in 0..MaxTime /\ c \in Memories
  BY ScaleIsSane DEF Present
<1>2. /\ Sound(d) /\ d.lastCwnd = c.lastCwnd /\ d.cnt = c.cnt
      /\ d.found = c.found /\ d.lastMax = c.lastMax
  BY <1>1 DEF Sound, Memories
<1>3. Update(c, w, n) = IF Recent(d, w) THEN d ELSE g
  BY DEF Update
<1>4. CASE Recent(d, w)
  <2>1. d.lastCwnd # 0
    BY <1>1, <1>4 DEF Recent
  <2> QED
    BY <1>2, <1>3, <1>4, <2>1 DEF Sound
<1>5. CASE ~Recent(d, w)
  <2> HIDE DEF d
  <2>1. /\ stamped \in Memories /\ stamped.epoch <= now
        /\ stamped.found = d.found /\ stamped.lastMax = d.lastMax
    BY <1>1, <1>2 DEF Sound, Memories
  <2>2. Present(stamped, w) /\ Present(d, w)
    BY <1>2, <2>1 DEF Present, Sound
  <2> HIDE DEF stamped
  <2>3. /\ e \in Memories /\ e.epoch <= now
        /\ e.found = d.found /\ e.lastMax = d.lastMax
    BY <2>1, <2>2, StartEpochType
  <2> HIDE DEF e
  <2>4. Present(e, w)
    BY <2>2, <2>3 DEF Present
  <2>5. CubicCount(e, w) \in Nat
    BY <2>4, CubicCountNat
  <2>6. /\ curve \in Memories /\ curve.epoch <= now
        /\ curve.found = d.found /\ curve.lastMax = d.lastMax
    <3>1. [e EXCEPT !.cnt = CubicCount(e, w)] \in Memories
      BY <2>3, <2>5 DEF Memories
    <3>2. /\ [e EXCEPT !.cnt = CubicCount(e, w)].epoch = e.epoch
          /\ [e EXCEPT !.cnt = CubicCount(e, w)].found = e.found
          /\ [e EXCEPT !.cnt = CubicCount(e, w)].lastMax = e.lastMax
      BY <2>3 DEF Memories
    <3> QED
      BY <1>2, <2>3, <3>1, <3>2 DEF Sound
  <2> HIDE DEF curve
  <2>7. /\ f \in Memories /\ f.epoch <= now
        /\ f.found = d.found /\ f.lastMax = d.lastMax
    <3>1. Present(curve, w)
      BY <2>2, <2>6 DEF Present
    <3> QED
      BY <2>6, <3>1, FriendlyType
  <2> HIDE DEF f
  <2>8. Larger(f.cnt, 2) \in Nat /\ Larger(f.cnt, 2) >= 2
    BY <2>7 DEF Memories, Larger
  <2>9. /\ g \in Memories /\ g.cnt = Larger(f.cnt, 2) /\ g.epoch = f.epoch
        /\ g.found = f.found /\ g.lastMax = f.lastMax
    BY <2>7, <2>8 DEF Memories
  <2> HIDE DEF g
  <2>10. Sound(g) /\ g.cnt >= 2 /\ g.found = d.found /\ g.lastMax = d.lastMax
    BY <2>7, <2>8, <2>9 DEF Sound
  <2> QED
    BY <1>2, <1>3, <1>5, <2>10
<1> QED
  BY <1>4, <1>5

------------------------------------------------------------------------------
(* tcp_cong_avoid_ai. *)

\* With a count of two or more the window and the credit grow by half the
\* packets acknowledged at most, and both stay what they should be.
LEMMA AvoidGrowth ==
  ASSUME NEW t \in Sockets, NEW w \in Nat, w >= 2, NEW n \in Nat
  PROVE  /\ Avoid(t, w, n) \in Sockets
         /\ Avoid(t, w, n).ssthresh = t.ssthresh
         /\ Avoid(t, w, n).state = t.state
         /\ t.cwnd <= Avoid(t, w, n).cwnd
         /\ 2 * (Avoid(t, w, n).cwnd - t.cwnd) + Avoid(t, w, n).cnt - t.cnt <= n
<1> DEFINE early == t.cnt >= w
           credit == (IF early THEN 0 ELSE t.cnt) + n
           q == credit \div w
           r == credit % w
           grown == t.cwnd + (IF early THEN 1 ELSE 0) + q
           cwnd == Smaller(grown, Clamp)
<1>1. t.cnt \in Nat /\ t.cwnd \in 1..Clamp /\ Clamp \in Nat
  BY ScaleIsSane DEF Sockets
<1>2. credit \in Nat
  BY <1>1
<1>3. q \in Nat /\ r \in Nat /\ credit = w * q + r
  <2> HIDE DEF credit
  <2> QED
    BY <1>2, Division
<1>4. credit >= 2 * q + r
  <2> HIDE DEF credit, q, r
  <2>1. (w - 2) * q \in Nat
    BY <1>3, ProductNat
  <2>2. w * q = 2 * q + (w - 2) * q
    BY <1>3
  <2> QED
    BY <1>2, <1>3, <2>1, <2>2
<1>5. cwnd \in 1..Clamp /\ cwnd <= grown /\ t.cwnd <= cwnd
  <2> HIDE DEF q
  <2> QED
    BY <1>1, <1>3 DEF Smaller
<1>6. 2 * (grown - t.cwnd) + r - t.cnt <= n
  <2> HIDE DEF q, r
  <2>1. CASE early
    BY <1>1, <1>3, <1>4, <2>1
  <2>2. CASE ~early
    BY <1>1, <1>3, <1>4, <2>2
  <2> QED
    BY <2>1, <2>2
<1>7. Avoid(t, w, n) = [t EXCEPT !.cwnd = cwnd, !.cnt = r]
  BY DEF Avoid
<1>8. grown \in Nat
  <2> HIDE DEF q
  <2> QED
    BY <1>1, <1>3
<1> HIDE DEF cwnd, grown, r
<1>9. /\ Avoid(t, w, n) \in Sockets
      /\ Avoid(t, w, n).ssthresh = t.ssthresh
      /\ Avoid(t, w, n).cwnd = cwnd
      /\ Avoid(t, w, n).cnt = r
      /\ Avoid(t, w, n).state = t.state
  BY <1>1, <1>3, <1>5, <1>7 DEF Sockets
<1> QED
  BY <1>1, <1>3, <1>5, <1>6, <1>8, <1>9

------------------------------------------------------------------------------
(* An acknowledgement. *)

\* bictcp_acked keeps a sound memory sound.
LEMMA MeasuredSound ==
  ASSUME NEW c, NEW rtt \in Delays \cup {0}, Sound(c)
  PROVE  /\ Sound(Measured(c, rtt)) /\ Measured(c, rtt).found = c.found
         /\ Measured(c, rtt).lastMax = c.lastMax
<1> DEFINE m == IF c.delayMin = 0 THEN rtt ELSE Smaller(c.delayMin, rtt)
<1>1. c \in Memories /\ c.delayMin \in Delays \cup {0}
  BY DEF Sound, Memories
<1>2. m \in Delays \cup {0}
  BY <1>1 DEF Smaller
<1>3. Measured(c, rtt) = c \/ Measured(c, rtt) = [c EXCEPT !.delayMin = m]
  BY <1>1 DEF Measured, Memories
<1> HIDE DEF m
<1>4. /\ Sound([c EXCEPT !.delayMin = m]) /\ [c EXCEPT !.delayMin = m].found = c.found
      /\ [c EXCEPT !.delayMin = m].lastMax = c.lastMax
  BY <1>1, <1>2 DEF Sound, Memories
<1> QED
  BY <1>3, <1>4

\* bictcp_cong_avoid: window and memory stay sound, and out of slow start the
\* window grows by half of what is acknowledged.
LEMMA CongAvoidSound ==
  ASSUME NEW t \in Sockets, NEW c, NEW n \in Nat, Sound(c),
         now \in 1..MaxTime, handover \in BOOLEAN, CongAvoid(t, c, n)
  PROVE  /\ tp' \in Sockets
         /\ ca' \in Memories /\ ca'.epoch <= now /\ (ca'.lastCwnd # 0 => ca'.cnt >= 2)
         /\ tp'.ssthresh = t.ssthresh /\ tp'.state = t.state
         /\ ca'.found = c.found /\ ca'.lastMax = c.lastMax
         /\ ~SlowStart(t) => t.cwnd <= tp'.cwnd
         /\ ~SlowStart(t) => 2 * (tp'.cwnd - t.cwnd) + tp'.cnt - t.cnt <= n
<1> DEFINE cwnd == IF SlowStart(t) THEN Doubled(t, n) ELSE t.cwnd
           left == n - (cwnd - t.cwnd)
           u == Update(c, cwnd, left)
           s == [t EXCEPT !.cwnd = cwnd]
<1>1. t.cwnd \in 1..Clamp /\ t.ssthresh \in 1..Clamp /\ t.cnt \in Nat /\ Clamp \in Nat
  BY ScaleIsSane DEF Sockets
<1>2. cwnd \in 1..Clamp /\ left \in Nat
  BY <1>1 DEF SlowStart, Doubled, Smaller
<1>3. ~SlowStart(t) => cwnd = t.cwnd /\ left = n
  BY <1>1
<1>4. /\ left = 0 => tp' = s /\ ca' = c
      /\ left # 0 => tp' = Avoid(s, u.cnt, left) /\ ca' = u
  BY DEF CongAvoid
<1> HIDE DEF cwnd, left
<1>5. /\ s \in Sockets /\ s.cwnd = cwnd /\ s.cnt = t.cnt /\ s.ssthresh = t.ssthresh
      /\ s.state = t.state
  BY <1>2 DEF Sockets
<1>6. CASE left = 0
  <2>1. tp' = s /\ ca' = c
    BY <1>4, <1>6
  <2> HIDE DEF s
  <2>2. ~SlowStart(t) => tp'.cwnd - t.cwnd = 0 /\ tp'.cnt - t.cnt = 0 /\ n = 0
    BY <1>1, <1>3, <1>5, <1>6, <2>1
  <2>3. ~SlowStart(t) => 2 * (tp'.cwnd - t.cwnd) + tp'.cnt - t.cnt <= n
    BY <1>1, <1>5, <2>1, <2>2
  <2> QED
    BY <1>1, <1>3, <1>5, <2>1, <2>3 DEF Sound
<1>7. CASE left # 0
  <2>1. Present(c, cwnd)
    BY <1>2 DEF Present, Sound
  <2>2. Sound(u) /\ u.cnt >= 2 /\ u.found = c.found /\ u.lastMax = c.lastMax
    BY <1>2, <2>1, UpdateSound
  <2> HIDE DEF u, s
  <2>3. u.cnt \in Nat
    BY <2>2 DEF Sound, Memories
  <2>4. /\ Avoid(s, u.cnt, left) \in Sockets
        /\ Avoid(s, u.cnt, left).ssthresh = s.ssthresh
        /\ Avoid(s, u.cnt, left).state = s.state
        /\ s.cwnd <= Avoid(s, u.cnt, left).cwnd
        /\ 2 * (Avoid(s, u.cnt, left).cwnd - s.cwnd) + Avoid(s, u.cnt, left).cnt - s.cnt <= left
    BY <1>2, <1>5, <2>2, <2>3, AvoidGrowth
  <2> QED
    BY <1>3, <1>4, <1>5, <1>7, <2>2, <2>4 DEF Sound
<1> QED
  BY <1>6, <1>7

\* What an acknowledgement does, in one place for the invariant and the rate.
LEMMA AcknowledgeSound ==
  ASSUME IInv, Acknowledge
  PROVE  /\ IInv'
         /\ acked' # acked /\ tp.cwnd >= tp'.ssthresh =>
              2 * (tp'.cwnd - tp.cwnd) + tp'.cnt - tp.cnt <= acked' - acked
         /\ tp'.state = tp.state /\ ca'.lastMax = ca.lastMax
         /\ UNCHANGED <<prior, unwatched>>
         /\ \/ tp'.ssthresh = tp.ssthresh /\ ca'.found = ca.found
            \/ tp'.ssthresh = tp.cwnd /\ SlowStart(tp) /\ tp.cwnd >= LowWindow
         /\ tp.state # "Recovery" /\ tp.cwnd >= tp'.ssthresh => tp.cwnd <= tp'.cwnd
         /\ tp.state = "Recovery" => tp'.cwnd <= Larger(tp.cwnd, tp'.ssthresh)
<1>1. PICK n \in Acks, rtt \in Delays \cup {0}, exit \in BOOLEAN, limited \in BOOLEAN :
        LET t == IF exit THEN [tp EXCEPT !.ssthresh = tp.cwnd] ELSE tp
            c == [Measured(ca, rtt) EXCEPT !.found = @ \/ exit]
        IN  /\ acked + n <= MaxAcked
            /\ exit => MayExit(tp, ca, rtt)
            /\ acked' = acked + n
            /\ IF limited /\ tp.state # "Recovery"
                 THEN CongAvoid(t, c, n)
                 ELSE ca' = c /\ \E w \in Reduced(t) : tp' = [t EXCEPT !.cwnd = w]
            /\ UNCHANGED <<now, handover, prior, cuts, unwatched>>
  BY DEF Acknowledge
<1> DEFINE t == IF exit THEN [tp EXCEPT !.ssthresh = tp.cwnd] ELSE tp
           m == Measured(ca, rtt)
           c == [m EXCEPT !.found = @ \/ exit]
<1>2. /\ now \in 1..MaxTime /\ now \in Int /\ handover \in BOOLEAN /\ tp \in Sockets
      /\ acked \in Nat /\ Sound(ca) /\ n \in Nat /\ n >= 1 /\ MaxAcked \in Nat
  BY ScaleIsSane DEF IInv, TypeOK, CountIsUsable, EpochNotInFuture, Sound
<1>3. /\ t \in Sockets /\ t.cwnd = tp.cwnd /\ t.cnt = tp.cnt /\ t.state = tp.state
      /\ t.ssthresh = IF exit THEN tp.cwnd ELSE tp.ssthresh
  BY <1>2 DEF Sockets
<1>4. Sound(m) /\ m.found = ca.found /\ m.lastMax = ca.lastMax
  BY <1>2, MeasuredSound
<1>5. Sound(c) /\ (~exit => c.found = ca.found) /\ c.lastMax = ca.lastMax
  <2> HIDE DEF m
  <2>1. (m.found \/ exit) \in BOOLEAN
    OBVIOUS
  <2>2. c = [m EXCEPT !.found = m.found \/ exit]
    BY <1>4 DEF Sound, Memories
  <2> QED
    BY <1>4, <2>1, <2>2 DEF Sound, Memories
<1>6. /\ acked' = acked + n /\ acked + n <= MaxAcked
      /\ \/ tp.state # "Recovery" /\ CongAvoid(t, c, n)
         \/ ca' = c /\ \E w \in Reduced(t) : tp' = [t EXCEPT !.cwnd = w]
      /\ exit => SlowStart(tp) /\ tp.cwnd >= LowWindow
      /\ UNCHANGED <<now, handover, prior, cuts, unwatched>>
  BY <1>1 DEF MayExit
<1> HIDE DEF t, c
<1>7. /\ tp' \in Sockets
      /\ ca' \in Memories /\ ca'.epoch <= now /\ (ca'.lastCwnd # 0 => ca'.cnt >= 2)
      /\ tp'.ssthresh = t.ssthresh /\ tp'.state = tp.state
      /\ ca'.found = c.found /\ ca'.lastMax = c.lastMax
      /\ tp.state # "Recovery" /\ t.cwnd >= t.ssthresh => t.cwnd <= tp'.cwnd
      /\ tp.state = "Recovery" => tp'.cwnd <= Larger(t.cwnd, t.ssthresh)
      /\ t.cwnd >= t.ssthresh => 2 * (tp'.cwnd - t.cwnd) + tp'.cnt - t.cnt <= n
  <2>1. CASE tp.state # "Recovery" /\ CongAvoid(t, c, n)
    <3>1. t.cwnd >= t.ssthresh => ~SlowStart(t)
      BY <1>3 DEF SlowStart, Sockets
    <3>2. /\ tp' \in Sockets
          /\ ca' \in Memories /\ ca'.epoch <= now /\ (ca'.lastCwnd # 0 => ca'.cnt >= 2)
          /\ tp'.ssthresh = t.ssthresh /\ tp'.state = t.state
          /\ ca'.found = c.found /\ ca'.lastMax = c.lastMax
          /\ ~SlowStart(t) => t.cwnd <= tp'.cwnd
          /\ ~SlowStart(t) => 2 * (tp'.cwnd - t.cwnd) + tp'.cnt - t.cnt <= n
      BY <1>2, <1>3, <1>5, <2>1, CongAvoidSound
    <3> QED
      BY <1>3, <2>1, <3>1, <3>2
  <2>2. CASE ca' = c /\ \E w \in Reduced(t) : tp' = [t EXCEPT !.cwnd = w]
    <3>1. /\ t.cwnd \in 1..Clamp /\ t.ssthresh \in 1..Clamp /\ t.cnt \in Int
          /\ Clamp \in Nat
      BY <1>3, ScaleIsSane DEF Sockets
    <3>2. PICK w \in Reduced(t) : tp' = [t EXCEPT !.cwnd = w]
      BY <2>2
    <3>3. w \in 1..Larger(t.cwnd, t.ssthresh) /\ (tp.state # "Recovery" => w = t.cwnd)
      BY <1>3, <3>1, <3>2 DEF Reduced, Larger
    <3>4. w \in 1..Clamp /\ w <= Larger(t.cwnd, t.ssthresh)
          /\ (t.cwnd >= t.ssthresh => w <= t.cwnd)
      BY <3>1, <3>3 DEF Larger
    <3>5. /\ tp' \in Sockets /\ tp'.cwnd = w /\ tp'.ssthresh = t.ssthresh
          /\ tp'.state = t.state /\ tp'.cnt = t.cnt
      BY <1>3, <3>2, <3>4 DEF Sockets
    <3>6. t.cwnd >= t.ssthresh => 2 * (tp'.cwnd - t.cwnd) + tp'.cnt - t.cnt <= n
      BY <1>2, <3>1, <3>4, <3>5
    <3>7. tp.state # "Recovery" => tp'.cwnd = t.cwnd
      BY <3>3, <3>5
    <3> QED
      BY <1>3, <1>5, <2>2, <3>1, <3>4, <3>5, <3>6, <3>7 DEF Sound
  <2> QED
    BY <1>6, <2>1, <2>2
<1>8. IInv'
  BY <1>2, <1>6, <1>7 DEF IInv, TypeOK, CountIsUsable, EpochNotInFuture
<1>9. acked' - acked = n
  BY <1>2, <1>6
<1>10. \/ tp'.ssthresh = tp.ssthresh /\ ca'.found = ca.found
       \/ tp'.ssthresh = tp.cwnd /\ SlowStart(tp) /\ tp.cwnd >= LowWindow
  BY <1>3, <1>5, <1>6, <1>7
<1> QED
  BY <1>3, <1>5, <1>6, <1>7, <1>8, <1>9, <1>10

------------------------------------------------------------------------------
(* The other operations. *)

LEMMA InitInvariant == Init => IInv
<1> SUFFICES ASSUME Init PROVE IInv
  OBVIOUS
<1>1. now \in 1..MaxTime /\ 0 \in 0..MaxTime /\ 0 \in 0..Clamp /\ Clamp \in 1..Clamp
      /\ 1 \in 1..Clamp /\ 2 \in 1..Clamp
      /\ 0 \in 0..MaxAcked /\ 0 \in 0..MaxCuts
  BY ScaleIsSane DEF Init
<1>2. tp \in Sockets
  BY <1>1, ScaleIsSane DEF Init, Sockets, States
<1>3. prior \in [cwnd : 1..Clamp, ssthresh : 1..Clamp]
  BY <1>1 DEF Init, NothingToUndo
<1>4. ca \in Memories /\ ca.lastCwnd = 0 /\ ca.epoch = 0
  BY <1>1 DEF Init, Fresh, Memories
<1> QED
  BY <1>1, <1>2, <1>3, <1>4 DEF Init, IInv, TypeOK, CountIsUsable, EpochNotInFuture

\* Fast convergence makes the last maximum smaller, never larger than the
\* window, and the count of the last update stays.
LEMMA RememberSound ==
  ASSUME NEW c, NEW w \in 1..Clamp, Sound(c), now \in Nat
  PROVE  Sound(Remember(c, w))
<1> DEFINE m == IF w < c.lastMax THEN (w * (1024 + 717)) \div (2 * 1024) ELSE w
<1>1. c \in Memories /\ c.lastMax \in 0..Clamp /\ Clamp \in Nat /\ w \in Nat
  BY ScaleIsSane DEF Sound, Memories
<1>2. m \in 0..Clamp
  BY <1>1
<1>3. Remember(c, w) = [c EXCEPT !.epoch = 0, !.lastMax = m]
  BY <1>1 DEF Remember, Memories
<1> HIDE DEF m
<1>4. Remember(c, w) \in Memories
  <2> DEFINE ended == [c EXCEPT !.epoch = 0]
  <2>1. ended \in Memories /\ Remember(c, w) = [ended EXCEPT !.lastMax = m]
    BY <1>1, <1>3 DEF Memories
  <2> HIDE DEF ended
  <2> QED
    BY <1>2, <2>1 DEF Memories
<1>5. /\ Remember(c, w).epoch = 0 /\ Remember(c, w).lastCwnd = c.lastCwnd
      /\ Remember(c, w).cnt = c.cnt
  BY <1>1, <1>3 DEF Memories
<1> QED
  BY <1>4, <1>5 DEF Sound

\* The new slow start threshold is a window.
LEMMA ThresholdType ==
  ASSUME NEW w \in 1..Clamp
  PROVE  Threshold(w) \in 1..Clamp
  BY ScaleIsSane DEF Threshold, Larger

\* What the kernel saves for an undo is a window and a threshold.
LEMMA SavedType ==
  ASSUME tp \in Sockets
  PROVE  /\ CurrentSsthresh \in 1..Clamp
         /\ Saved \in [cwnd : 1..Clamp, ssthresh : 1..Clamp]
<1>1. tp.cwnd \in 1..Clamp /\ tp.ssthresh \in 1..Clamp /\ Clamp \in Nat
  BY ScaleIsSane DEF Sockets
<1>2. CurrentSsthresh \in 1..Clamp
  BY <1>1 DEF CurrentSsthresh, Larger
<1> QED
  BY <1>1, <1>2 DEF Saved

\* What IInv says, in the words of the lemmas, and back.
LEMMA IInvParts ==
  ASSUME IInv
  PROVE  /\ now \in 1..MaxTime /\ now \in Nat /\ handover \in BOOLEAN
         /\ tp \in Sockets /\ prior \in [cwnd : 1..Clamp, ssthresh : 1..Clamp]
         /\ Sound(ca)
         /\ acked \in 0..MaxAcked /\ cuts \in 0..MaxCuts
         /\ MaxTime \in Nat /\ Clamp \in Nat /\ MaxCuts \in Nat
  BY ScaleIsSane DEF IInv, TypeOK, CountIsUsable, EpochNotInFuture, Sound

LEMMA EnterRecoveryInvariant == ASSUME IInv, EnterRecovery PROVE IInv'
<1> USE IInvParts
<1>1. tp.cwnd \in 1..Clamp
  BY DEF Sockets
<1>2. Sound(Remember(ca, tp.cwnd))
  BY <1>1, RememberSound
<1>3. Threshold(tp.cwnd) \in 1..Clamp
  BY <1>1, ThresholdType
<1>4. tp' \in Sockets
  BY <1>3 DEF EnterRecovery, Sockets, States
<1>5. prior' \in [cwnd : 1..Clamp, ssthresh : 1..Clamp]
  BY SavedType DEF EnterRecovery
<1>6. ca' = Remember(ca, tp.cwnd) /\ cuts' \in 0..MaxCuts
      /\ UNCHANGED <<now, handover, acked>>
  BY DEF EnterRecovery, Cut
<1> QED
  BY <1>2, <1>4, <1>5, <1>6 DEF IInv, TypeOK, CountIsUsable, EpochNotInFuture, Sound

LEMMA TimeoutInvariant == ASSUME IInv, Timeout PROVE IInv'
<1> USE IInvParts
<1>1. tp.cwnd \in 1..Clamp /\ tp.ssthresh \in 1..Clamp /\ 1 \in 1..Clamp
  BY DEF Sockets
<1>2. Sound(Remember(ca, tp.cwnd)) /\ Threshold(tp.cwnd) \in 1..Clamp
  BY <1>1, RememberSound, ThresholdType
<1>3. 0 \in 0..Clamp /\ 0 \in 0..MaxTime
  OBVIOUS
<1>4. Sound(Fresh)
  BY <1>3 DEF Sound, Fresh, Memories
<1>5. ca' \in {ca, Remember(ca, tp.cwnd), Fresh}
  BY DEF Timeout, BictcpState, Reset
<1>6. tp' \in Sockets
  <2>1. PICK threshold \in {Threshold(tp.cwnd), tp.ssthresh} :
          tp' = [tp EXCEPT !.ssthresh = threshold, !.cwnd = 1, !.cnt = 0, !.state = "Loss"]
    BY DEF Timeout, Sockets
  <2>2. threshold \in 1..Clamp
    BY <1>1, <1>2
  <2> QED
    BY <1>1, <2>1, <2>2 DEF Sockets, States
<1>7. prior' \in [cwnd : 1..Clamp, ssthresh : 1..Clamp]
  BY SavedType DEF Timeout
<1>8. cuts' \in 0..MaxCuts /\ UNCHANGED <<now, handover, acked>>
  BY DEF Timeout, Cut
<1>9. ca' \in Memories /\ ca'.epoch <= now /\ (ca'.lastCwnd # 0 => ca'.cnt >= 2)
  BY <1>2, <1>4, <1>5 DEF Sound
<1> QED
  BY <1>6, <1>7, <1>8, <1>9 DEF IInv, TypeOK, CountIsUsable, EpochNotInFuture

LEMMA RecoverInvariant == ASSUME IInv, Recover PROVE IInv'
<1> USE IInvParts
<1>1. /\ tp.cwnd \in 1..Clamp /\ tp.ssthresh \in 1..Clamp
      /\ prior.cwnd \in 1..Clamp /\ prior.ssthresh \in 1..Clamp
  BY DEF Sockets
<1>2. /\ Larger(tp.cwnd, prior.cwnd) \in 1..Clamp
      /\ Larger(tp.ssthresh, prior.ssthresh) \in 1..Clamp
  BY <1>1 DEF Larger
<1>3. tp' \in Sockets
  BY <1>1, <1>2 DEF Recover, Sockets, States
<1>4. prior' \in [cwnd : 1..Clamp, ssthresh : 1..Clamp]
  BY ScaleIsSane DEF Recover, NothingToUndo
<1>5. UNCHANGED <<now, handover, ca, acked, cuts>>
  BY DEF Recover
<1> QED
  BY <1>3, <1>4, <1>5 DEF IInv, TypeOK, CountIsUsable, EpochNotInFuture, Sound

\* A window that is taken back is no larger, and its threshold is a window.
LEMMA TakeBackType ==
  ASSUME IInv, TakeBack
  PROVE  /\ tp' \in Sockets /\ tp'.cwnd <= tp.cwnd
         /\ tp'.ssthresh = CurrentSsthresh /\ tp'.state = tp.state /\ tp.state = "Open"
         /\ unwatched' = (unwatched \/ tp'.cwnd < tp.cwnd)
         /\ UNCHANGED <<now, handover, prior, ca, acked, cuts>>
<1> USE IInvParts
<1>1. PICK w \in Smaller(InitialWindow, tp.cwnd)..tp.cwnd :
        /\ tp' = [tp EXCEPT !.cwnd = w, !.ssthresh = CurrentSsthresh]
        /\ unwatched' = (unwatched \/ w < tp.cwnd)
  BY DEF TakeBack
<1>2. tp.cwnd \in 1..Clamp /\ InitialWindow \in 1..Clamp
  BY ScaleIsSane DEF Sockets
<1>3. w \in 1..Clamp /\ w <= tp.cwnd
  BY <1>1, <1>2 DEF Smaller
<1>4. CurrentSsthresh \in 1..Clamp
  BY SavedType
<1>5. /\ tp' \in Sockets /\ tp'.cwnd = w /\ tp'.ssthresh = CurrentSsthresh
      /\ tp'.state = tp.state
  BY <1>1, <1>3, <1>4 DEF Sockets
<1> QED
  BY <1>1, <1>3, <1>5 DEF TakeBack

LEMMA TakeBackInvariant == ASSUME IInv, TakeBack PROVE IInv'
  BY TakeBackType DEF IInv, TypeOK, CountIsUsable, EpochNotInFuture

\* Idle time moves an epoch up to the present and no further.
LEMMA TransmitInvariant == ASSUME IInv, Transmit PROVE IInv'
<1> USE IInvParts
<1> DEFINE idle == now - tp.sent
           m == Smaller(ca.epoch + idle, now)
<1>1. tp.sent \in 1..MaxTime /\ ca \in Memories /\ ca.epoch \in Nat
  BY DEF Sound, Sockets, Memories
<1>2. idle > 0 => m \in Nat /\ m <= now
  BY <1>1 DEF Smaller
<1>3. Shift(ca, idle) = ca \/ (idle > 0 /\ Shift(ca, idle) = [ca EXCEPT !.epoch = m])
  BY <1>1 DEF Shift, Memories
<1> HIDE DEF m
<1>4. Sound(Shift(ca, idle))
  BY <1>1, <1>2, <1>3 DEF Sound, Memories
<1>5. ca' = ca \/ ca' = Shift(ca, idle)
  BY DEF Transmit
<1>6. ca' \in Memories /\ ca'.epoch <= now /\ (ca'.lastCwnd # 0 => ca'.cnt >= 2)
  BY <1>4, <1>5 DEF Sound
<1>7. tp' \in Sockets
  BY DEF Transmit, Sockets
<1>8. UNCHANGED <<now, handover, prior, acked, cuts>>
  BY DEF Transmit
<1> QED
  BY <1>6, <1>7, <1>8 DEF IInv, TypeOK, CountIsUsable, EpochNotInFuture

LEMMA StepInvariant == IInv /\ [Next]_vars => IInv'
<1> SUFFICES ASSUME IInv, [Next]_vars PROVE IInv'
  OBVIOUS
<1>1. CASE Acknowledge
  BY <1>1, AcknowledgeSound
<1>2. CASE EnterRecovery
  BY <1>2, EnterRecoveryInvariant
<1>3. CASE Timeout
  BY <1>3, TimeoutInvariant
<1>4. CASE Recover
  BY <1>4, RecoverInvariant
<1>5. CASE Transmit
  BY <1>5, TransmitInvariant
<1>6. CASE Notify
  BY <1>6 DEF Notify, IInv, TypeOK, CountIsUsable, EpochNotInFuture
<1>7. CASE Tick
  <2>1. now' \in 1..MaxTime /\ now <= now' /\ ca.epoch \in Nat
    BY <1>7, IInvParts DEF Tick, Sound, Memories
  <2>2. ca.epoch <= now'
    BY <2>1, IInvParts DEF Sound
  <2> QED
    BY <1>7, <2>1, <2>2 DEF Tick, IInv, TypeOK, CountIsUsable, EpochNotInFuture
<1>8. CASE UNCHANGED vars
  BY <1>8 DEF vars, IInv, TypeOK, CountIsUsable, EpochNotInFuture
<1>9. CASE TakeBack
  BY <1>9, TakeBackInvariant
<1> QED
  BY <1>1, <1>2, <1>3, <1>4, <1>5, <1>6, <1>7, <1>8, <1>9 DEF Next

\* Every reachable state has the inductive invariant.
THEOREM Invariance == Spec => []IInv
  BY InitInvariant, StepInvariant, PTL DEF Spec

------------------------------------------------------------------------------
\* Windows, thresholds, maxima and credits stay in their ranges for every
\* scale, bound and measured round trip.
THEOREM TypeCorrect == Spec => []TypeOK
<1>1. IInv => TypeOK
  BY DEF IInv
<1> QED
  BY <1>1, Invariance, PTL

\* tcp_cong_avoid_ai is never given a count that an update has not limited
\* (bictcp_update's early return, tcp_cubic.c:281).
THEOREM CountUsable == Spec => []CountIsUsable
<1>1. IInv => CountIsUsable
  BY DEF IInv
<1> QED
  BY <1>1, Invariance, PTL

\* bictcp_cwnd_event never moves an epoch into the future.
THEOREM EpochInPast == Spec => []EpochNotInFuture
<1>1. IInv => EpochNotInFuture
  BY DEF IInv
<1> QED
  BY <1>1, Invariance, PTL

\* Out of slow start a window never grows by more than one packet for two
\* acknowledged (tcp_cubic.c:386-388), unspent credit included.
THEOREM RateBounded == Spec => AtMostOnePerTwo
<1> DEFINE Rate == acked' # acked /\ tp.cwnd >= tp'.ssthresh =>
                     2 * (tp'.cwnd - tp.cwnd) + tp'.cnt - tp.cnt <= acked' - acked
<1>1. ASSUME IInv, [Next]_vars PROVE [Rate]_vars
  <2>1. CASE Acknowledge
    BY <1>1, <2>1, AcknowledgeSound
  <2>2. CASE ~Acknowledge
    <3>1. acked' = acked
      BY <1>1, <2>2 DEF Next, vars, EnterRecovery, Timeout, Cut, Recover, TakeBack,
                        Transmit, Notify, Tick
    <3> QED
      BY <3>1
  <2> QED
    BY <2>1, <2>2
<1> QED
  BY <1>1, Invariance, PTL DEF Spec, AtMostOnePerTwo

------------------------------------------------------------------------------
(* HyStart. found stays set until a reset, so a slow start that begins without *)
(* one is not watched. A cut leaves the window at or above the threshold when  *)
(* it is over, and so does its undo if slow start was over before: what is     *)
(* saved is saved together, and no threshold of the meantime is above it.      *)
(* HyStart must not end a slow start in a window below the least threshold,    *)
(* which is two.                                                               *)

WatchInv ==
  /\ unwatched \in BOOLEAN
  /\ tp.ssthresh >= 2 /\ prior.ssthresh >= 2
  /\ tp.state = "Recovery" =>
       tp.cwnd <= Larger(prior.cwnd, 2) /\ tp.ssthresh <= Larger(prior.cwnd, 2)
  /\ ca.found /\ ~unwatched => tp.state = "Recovery" \/ ~SlowStart(tp)

\* The numbers that are compared.
Numeric ==
  /\ tp.cwnd \in Nat /\ tp.cwnd >= 1 /\ tp.ssthresh \in Nat
  /\ prior.cwnd \in Nat /\ prior.cwnd >= 1 /\ prior.ssthresh \in Nat
  /\ ca.lastMax \in Nat
  /\ tp.state \in States /\ ca.found \in BOOLEAN

LEMMA Numbers == IInv => Numeric
<1> SUFFICES ASSUME IInv PROVE Numeric
  OBVIOUS
<1>1. ca.lastMax \in 0..Clamp /\ Clamp \in Nat
  BY IInvParts DEF Sound, Memories
<1> QED
  BY <1>1, IInvParts DEF Numeric, Sound, Sockets, Memories

LEMMA AcknowledgeWatched ==
  ASSUME LowWindow >= 2, IInv, WatchInv, Acknowledge PROVE WatchInv'
<1>1. Numeric /\ Numeric'
  <2>1. IInv'
    BY AcknowledgeSound
  <2>2. Numeric
    BY Numbers
  <2>3. Numeric'
    <3>1. ca'.lastMax \in Nat
      BY <2>2, AcknowledgeSound DEF Numeric
    <3> QED
      BY <2>1, <3>1, ScaleIsSane DEF IInv, TypeOK, Numeric, Sockets, Memories
  <2> QED
    BY <2>2, <2>3
<1>2. LowWindow \in Nat
  BY ScaleIsSane
<1>3. tp'.ssthresh >= 2 /\ prior'.ssthresh >= 2
  BY <1>1, <1>2, AcknowledgeSound DEF Numeric, WatchInv
<1>4. CASE tp.state = "Recovery"
  <2>1. /\ tp'.cwnd <= Larger(tp.cwnd, tp'.ssthresh) /\ tp'.state = "Recovery"
        /\ tp'.ssthresh \in {tp.ssthresh, tp.cwnd}
    BY <1>4, AcknowledgeSound
  <2>2. tp'.cwnd <= Larger(prior.cwnd, 2) /\ tp'.ssthresh <= Larger(prior.cwnd, 2)
    BY <1>1, <1>4, <2>1 DEF Numeric, WatchInv, Larger
  <2> QED
    BY <1>3, <2>1, <2>2, AcknowledgeSound DEF WatchInv
<1>5. CASE tp.state # "Recovery"
  <2>1. ASSUME ca'.found, ~unwatched'
        PROVE  tp'.cwnd >= tp'.ssthresh
    <3>1. ~unwatched
      BY <2>1, AcknowledgeSound
    <3>2. CASE tp'.ssthresh = tp.ssthresh /\ ca'.found = ca.found
      <4>1. ~SlowStart(tp)
        BY <1>5, <2>1, <3>1, <3>2 DEF WatchInv
      <4> QED
        BY <1>1, <1>5, <3>2, <4>1, AcknowledgeSound DEF Numeric, SlowStart
    <3>3. CASE tp'.ssthresh = tp.cwnd
      BY <1>1, <1>5, <3>3, AcknowledgeSound DEF Numeric
    <3> QED
      BY <3>2, <3>3, AcknowledgeSound
  <2> QED
    BY <1>1, <1>3, <1>5, <2>1, AcknowledgeSound DEF Numeric, WatchInv, SlowStart
<1> QED
  BY <1>4, <1>5

LEMMA EnterRecoveryWatched ==
  ASSUME IInv, WatchInv, EnterRecovery PROVE WatchInv'
<1>1. /\ tp'.ssthresh = Threshold(tp.cwnd) /\ tp'.cwnd = tp.cwnd
      /\ tp'.state = "Recovery" /\ UNCHANGED unwatched
      /\ prior'.cwnd = tp.cwnd
      /\ prior'.ssthresh = Larger(tp.ssthresh, tp.cwnd \div 2 + tp.cwnd \div 4)
  BY IInvParts DEF EnterRecovery, Sockets, Saved, CurrentSsthresh
<1>2. /\ Threshold(tp.cwnd) \in Nat /\ Threshold(tp.cwnd) >= 2
      /\ Threshold(tp.cwnd) <= Larger(tp.cwnd, 2)
      /\ tp.cwnd <= Larger(tp.cwnd, 2)
  BY Numbers DEF Numeric, Threshold, Larger
<1>3. Larger(tp.ssthresh, tp.cwnd \div 2 + tp.cwnd \div 4) >= 2
  BY Numbers DEF Numeric, WatchInv, Larger
<1> QED
  BY <1>1, <1>2, <1>3 DEF WatchInv

LEMMA TimeoutWatched ==
  ASSUME IInv, WatchInv, Timeout PROVE WatchInv'
<1>1. /\ tp'.ssthresh \in {Threshold(tp.cwnd), tp.ssthresh}
      /\ prior'.ssthresh \in {CurrentSsthresh, prior.ssthresh}
      /\ tp'.state = "Loss" /\ unwatched' = handover
      /\ ~handover => ca' = Fresh
  BY IInvParts DEF Timeout, BictcpState, Sockets, Reset, Saved
<1>2. Threshold(tp.cwnd) >= 2 /\ CurrentSsthresh >= 2
  BY Numbers DEF Numeric, Threshold, Larger, CurrentSsthresh, WatchInv
<1>3. ca'.found => unwatched'
  BY <1>1, IInvParts DEF Fresh
<1> QED
  BY <1>1, <1>2, <1>3, IInvParts DEF WatchInv

LEMMA RecoverWatched ==
  ASSUME IInv, WatchInv, Recover PROVE WatchInv'
<1>1. /\ tp'.state = "Open" /\ ca' = ca /\ prior' = NothingToUndo
      /\ \/ /\ tp'.ssthresh = tp.ssthresh /\ UNCHANGED unwatched
            /\ tp'.cwnd = IF tp.state = "Recovery" THEN tp.ssthresh ELSE tp.cwnd
         \/ /\ tp'.ssthresh = Larger(tp.ssthresh, prior.ssthresh)
            /\ tp'.cwnd = Larger(tp.cwnd, prior.cwnd)
            /\ unwatched' = (unwatched \/ tp.state = "Loss" \/ SlowStart(prior))
  BY IInvParts DEF Recover, Sockets
<1>2. tp.state \in {"Recovery", "Loss"}
  BY Numbers DEF Numeric, Recover, States
<1>3. tp'.ssthresh >= 2 /\ prior'.ssthresh >= 2
  BY <1>1, Numbers DEF Numeric, WatchInv, Larger, NothingToUndo
<1>4. unwatched' \in BOOLEAN
  BY <1>1 DEF WatchInv
<1>5. ASSUME ca.found, ~unwatched' PROVE ~SlowStart(tp)'
  <2>1. ~unwatched
    BY <1>1, <1>5 DEF WatchInv
  <2>2. CASE tp'.cwnd = tp'.ssthresh
    <3>1. tp'.ssthresh \in Nat
      BY <1>1, Numbers DEF Numeric, Larger
    <3> QED
      BY <2>2, <3>1 DEF SlowStart
  <2>3. CASE tp.state = "Recovery" /\ tp'.cwnd # tp'.ssthresh
    <3>1. /\ tp'.ssthresh = Larger(tp.ssthresh, prior.ssthresh)
          /\ tp'.cwnd = Larger(tp.cwnd, prior.cwnd)
          /\ ~SlowStart(prior)
      BY <1>1, <1>5, <2>3
    <3>2. /\ prior.ssthresh <= prior.cwnd /\ prior.ssthresh >= 2
          /\ tp.ssthresh <= Larger(prior.cwnd, 2)
      BY <2>3, <3>1, Numbers DEF Numeric, WatchInv, SlowStart
    <3> QED
      BY <3>1, <3>2, Numbers DEF Numeric, SlowStart, Larger
  <2>4. CASE tp.state = "Loss"
    BY <1>1, <1>5, <2>1, <2>4, Numbers DEF Numeric, SlowStart, WatchInv
  <2> QED
    BY <1>2, <2>2, <2>3, <2>4
<1> QED
  BY <1>1, <1>3, <1>4, <1>5 DEF WatchInv

LEMMA TakeBackWatched ==
  ASSUME IInv, WatchInv, TakeBack PROVE WatchInv'
<1>1. /\ tp'.cwnd \in Nat /\ tp'.cwnd <= tp.cwnd
      /\ tp'.ssthresh = Larger(tp.ssthresh, tp.cwnd \div 2 + tp.cwnd \div 4)
      /\ tp'.state = "Open" /\ unwatched' = (unwatched \/ tp'.cwnd < tp.cwnd)
      /\ UNCHANGED <<prior, ca>>
  <2>1. tp' \in Sockets
    BY TakeBackType
  <2>2. tp'.cwnd \in Nat
    BY <2>1 DEF Sockets
  <2> QED
    BY <2>2, TakeBackType DEF CurrentSsthresh
<1>2. tp'.ssthresh >= 2 /\ prior'.ssthresh >= 2
  BY <1>1, Numbers DEF Numeric, WatchInv, Larger
<1>3. ASSUME ca.found, ~unwatched' PROVE ~SlowStart(tp)'
  <2>1. ~unwatched /\ ~(tp'.cwnd < tp.cwnd)
    BY <1>1, <1>3 DEF WatchInv
  <2>2. ~SlowStart(tp)
    BY <1>3, <2>1, TakeBackType DEF WatchInv
  <2>3. tp'.cwnd = tp.cwnd
    BY <1>1, <2>1, Numbers DEF Numeric
  <2> QED
    BY <1>1, <2>2, <2>3, Numbers DEF Numeric, SlowStart, Larger
<1> QED
  BY <1>1, <1>2, <1>3 DEF WatchInv

LEMMA StepWatched ==
  ASSUME LowWindow >= 2, IInv, WatchInv, [Next]_vars PROVE WatchInv'
<1>1. CASE Transmit
  <2>1. /\ tp'.cwnd = tp.cwnd /\ tp'.ssthresh = tp.ssthresh /\ tp'.state = tp.state
        /\ ca'.found = ca.found /\ UNCHANGED <<prior, unwatched>>
    BY <1>1, IInvParts DEF Transmit, Shift, Sound, Sockets, Memories
  <2> QED
    BY <2>1 DEF WatchInv, SlowStart
<1>2. CASE Notify \/ Tick \/ UNCHANGED vars
  BY <1>2 DEF Notify, Tick, vars, WatchInv, SlowStart
<1> QED
  BY <1>1, <1>2, AcknowledgeWatched, EnterRecoveryWatched, TimeoutWatched, RecoverWatched,
     TakeBackWatched DEF Next

\* A slow start that HyStart does not watch is one that an ignored timeout, the
\* undo of a timeout, the undo of a recovery from slow start or a window taken
\* back has begun, for every window and every number of losses, if HyStart starts
\* at a window of two or more (hystart_low_window is 16).
THEOREM SlowStartWatched == LowWindow >= 2 => (Spec => []SlowStartIsWatched)
<1> SUFFICES ASSUME LowWindow >= 2 PROVE Spec => []SlowStartIsWatched
  OBVIOUS
<1>1. ASSUME Init PROVE WatchInv
  <2>1. /\ tp.ssthresh = Clamp /\ tp.state = "Open" /\ ca.found = FALSE
        /\ prior.ssthresh = 2 /\ unwatched = FALSE
    BY <1>1 DEF Init, Fresh, NothingToUndo
  <2>2. tp.ssthresh >= 2 /\ prior.ssthresh >= 2
    BY <2>1, ScaleIsSane
  <2> QED
    BY <2>1, <2>2 DEF WatchInv
<1>2. IInv /\ WatchInv /\ [Next]_vars => WatchInv'
  BY StepWatched
<1>3. WatchInv => SlowStartIsWatched
  BY DEF WatchInv, SlowStartIsWatched
<1> QED
  BY <1>1, <1>2, <1>3, Invariance, PTL DEF Spec

------------------------------------------------------------------------------
(* The last maximum and the undo. A cut sets both from one window; a timeout   *)
(* that does not cut changes neither, or resets CUBIC.                         *)

\* What a cut makes of a window that it saves.
LEMMA RememberFits ==
  ASSUME IInv
  PROVE  /\ Remember(ca, tp.cwnd).lastMax <= tp.cwnd
         /\ Remember(ca, tp.cwnd).lastMax >= (tp.cwnd * 1741) \div 2048
<1> DEFINE m == IF tp.cwnd < ca.lastMax THEN (tp.cwnd * (1024 + 717)) \div (2 * 1024)
                ELSE tp.cwnd
<1>1. Remember(ca, tp.cwnd).lastMax = m
  BY IInvParts DEF Remember, Sound, Memories
<1>2. m <= tp.cwnd /\ m >= (tp.cwnd * 1741) \div 2048
  BY Numbers DEF Numeric
<1> QED
  BY <1>1, <1>2

\* While a cut may be undone the last maximum is at most the window that the
\* undo restores, and at least what fast convergence makes of it, unless CUBIC
\* has been reset, for every window and any number of losses and timeouts.
THEOREM MaximumFits == Spec => []MaximumFitsUndo
<1>1. Init => MaximumFitsUndo
  BY DEF Init, MaximumFitsUndo
<1>2. ASSUME IInv, MaximumFitsUndo, [Next]_vars PROVE MaximumFitsUndo'
  <2>1. CASE Acknowledge
    BY <1>2, <2>1, AcknowledgeSound DEF MaximumFitsUndo
  <2>2. CASE EnterRecovery
    <3>1. ca' = Remember(ca, tp.cwnd) /\ prior'.cwnd = tp.cwnd
      BY <2>2 DEF EnterRecovery, Saved
    <3> QED
      BY <1>2, <3>1, RememberFits DEF MaximumFitsUndo
  <2>3. CASE Timeout
    <3>1. \/ ca' = Fresh
          \/ ca' = Remember(ca, tp.cwnd) /\ prior'.cwnd = tp.cwnd
          \/ ca' = ca /\ prior' = prior /\ tp.state # "Open"
      BY <2>3 DEF Timeout, BictcpState, Reset, Saved
    <3>2. Fresh.lastMax = 0
      BY DEF Fresh
    <3> QED
      BY <1>2, <3>1, <3>2, RememberFits DEF MaximumFitsUndo
  <2>4. CASE Recover \/ TakeBack
    <3>1. tp'.state = "Open"
      BY <1>2, <2>4, IInvParts, TakeBackType DEF Recover, Sockets
    <3> QED
      BY <3>1 DEF MaximumFitsUndo
  <2>5. CASE Transmit
    <3>1. tp'.state = tp.state /\ ca'.lastMax = ca.lastMax /\ UNCHANGED prior
      BY <1>2, <2>5, IInvParts DEF Transmit, Shift, Sound, Sockets, Memories
    <3> QED
      BY <1>2, <3>1 DEF MaximumFitsUndo
  <2>6. CASE Notify \/ Tick \/ UNCHANGED vars
    BY <1>2, <2>6 DEF Notify, Tick, vars, MaximumFitsUndo
  <2> QED
    BY <1>2, <2>1, <2>2, <2>3, <2>4, <2>5, <2>6 DEF Next
<1> QED
  BY <1>1, <1>2, Invariance, PTL DEF Spec
==============================================================================
