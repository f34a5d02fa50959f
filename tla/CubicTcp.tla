------------------------------- MODULE CubicTcp -------------------------------
(***************************************************************************)
(* emulation_stage/satcp/tcp_cubic.c: the CUBIC congestion control that    *)
(* SaTCP modifies, for one connection, and the flag that the report relay  *)
(* sets for all connections of the host. While the flag is set a           *)
(* retransmission timeout leaves CUBIC's memory alone, and an epoch that   *)
(* starts then takes a ninth of the time to come back to the last maximum. *)
(*                                                                         *)
(* The kernel calls the operations of cubictcp with the socket locked; how *)
(* it cuts the window, grows it by slow start or by tcp_cong_avoid_ai,     *)
(* undoes a cut and takes back a window that is not used is the kernel's,  *)
(* as far as the operations see it. Time is in ticks: the scaling by HZ,   *)
(* by 2^10 and by the round trip of 100 ms is one constant, Factor, and    *)
(* cubic_root is exact. When HyStart's measurements end slow start is left *)
(* open.                                                                   *)
(***************************************************************************)
EXTENDS Integers, FiniteSets

CONSTANTS
  Factor,       \* cube_factor: a distance of d takes the cube root of Factor * d
  Quiet,        \* HZ / 32
  Hz,           \* HZ
  LowWindow,    \* hystart_low_window
  Delays,       \* round trips that are measured, in ticks
  InitialWindow,
  Clamp,        \* snd_cwnd_clamp, and the slow start threshold that is no limit
  Acks,         \* packets that one acknowledgement may cover
  MaxTime,      \* bound on the clock
  MaxAcked,     \* bound on the packets acknowledged
  MaxCuts       \* bound on the losses

ASSUME ScaleIsSane ==
  /\ Factor \in Nat \ {0} /\ Quiet \in Nat /\ Hz \in Nat /\ LowWindow \in Nat
  /\ Delays \subseteq Nat \ {0} /\ Acks \subseteq Nat \ {0}
  /\ Clamp \in Nat /\ InitialWindow \in 1..Clamp /\ Clamp >= 2
  /\ MaxTime \in Nat \ {0} /\ MaxAcked \in Nat /\ MaxCuts \in Nat

VARIABLES
  now,        \* tcp_jiffies32
  handover,   \* handover_status
  tp,         \* the socket: window, slow start threshold, state, time last sent
  prior,      \* the window and the threshold that the kernel keeps for an undo
  ca,         \* struct bictcp
  acked,      \* packets acknowledged so far
  cuts,       \* losses so far
  unwatched   \* history: see SlowStartIsWatched

vars == <<now, handover, tp, prior, ca, acked, cuts, unwatched>>

Larger(a, b)  == IF a >= b THEN a ELSE b
Smaller(a, b) == IF a <= b THEN a ELSE b

\* bictcp_reset. A field that is 0 is unset.
Fresh ==
  [cnt |-> 0, lastMax |-> 0, lastCwnd |-> 0, lastTime |-> 0, origin |-> 0,
   K |-> 0, delayMin |-> 0, epoch |-> 0, ackCnt |-> 0, tcpCwnd |-> 0,
   found |-> FALSE]

\* Slip: the window of the last update survives the reset.
ResetKeepsWindow(c) == [Fresh EXCEPT !.lastCwnd = c.lastCwnd]

\* Slip: what HyStart has found survives it.
ResetKeepsFound(c) == [Fresh EXCEPT !.found = c.found]

Reset(c) == Fresh

NothingToUndo == [cwnd |-> 1, ssthresh |-> 2]

\* A connection that has been set up.
Init ==
  /\ now = 1 /\ handover \in BOOLEAN
  /\ tp = [cwnd |-> InitialWindow, cnt |-> 0, ssthresh |-> Clamp, state |-> "Open",
           sent |-> now]
  /\ prior = NothingToUndo
  /\ ca = Fresh
  /\ acked = 0 /\ cuts = 0
  /\ unwatched = FALSE

------------------------------------------------------------------------------
(* bictcp_update. *)

\* cubic_root, without its error of some thousandths.
CubicRoot(a) == Cardinality({r \in 1..a : r*r*r <= a})

\* bic_K of an epoch that starts with the window w below the last maximum.
TimeToOrigin(c, w) ==
  LET k == CubicRoot(Factor * (c.lastMax - w))
  IN  IF handover THEN k - (k * 8) \div 9 ELSE k

StartEpoch(c, w, n) ==
  IF c.epoch # 0 THEN c
  ELSE [c EXCEPT !.epoch = now, !.ackCnt = n, !.tcpCwnd = w,
                 !.K = IF c.lastMax <= w THEN 0 ELSE TimeToOrigin(c, w),
                 !.origin = Larger(c.lastMax, w)]

\* bic_target: the cubic curve, flat at the origin point, K ticks from the epoch.
Target(c) ==
  LET t == now - c.epoch + c.delayMin
      offs == IF t < c.K THEN c.K - t ELSE t - c.K
      delta == (offs * offs * offs) \div Factor
  IN  IF t < c.K THEN c.origin - delta ELSE c.origin + delta

CubicCount(c, w) ==
  LET n == IF Target(c) > w THEN w \div (Target(c) - w) ELSE 100 * w
  IN  IF c.lastMax = 0 THEN Smaller(n, 20) ELSE n

\* The window plain TCP would have; CUBIC is not to be slower.
Friendly(c, w) ==
  LET delta == (w * 15) \div 8
      grown == IF c.ackCnt > delta THEN (c.ackCnt - 1) \div delta ELSE 0
      e == c.tcpCwnd + grown
  IN  [c EXCEPT !.ackCnt = @ - grown * delta, !.tcpCwnd = e,
                !.cnt = IF e > w THEN Smaller(@, w \div (e - w)) ELSE @]

Recent(c, w) == c.lastCwnd = w /\ now - c.lastTime <= Quiet

\* Slip: one packet per packet acknowledged is allowed.
UpdateTooFast(c0, w, n) ==
  LET c == [c0 EXCEPT !.ackCnt = @ + n]
      stamped == [c EXCEPT !.lastCwnd = w, !.lastTime = now]
      e == StartEpoch(stamped, w, n)
      curve == IF c.epoch # 0 /\ now = c.lastTime
                 THEN c ELSE [e EXCEPT !.cnt = CubicCount(e, w)]
  IN  IF Recent(c, w) THEN c
      ELSE [Friendly(curve, w) EXCEPT !.cnt = Larger(@, 1)]

Update(c0, w, n) ==
  LET c == [c0 EXCEPT !.ackCnt = @ + n]
      stamped == [c EXCEPT !.lastCwnd = w, !.lastTime = now]
      e == StartEpoch(stamped, w, n)
      curve == IF c.epoch # 0 /\ now = c.lastTime
                 THEN c ELSE [e EXCEPT !.cnt = CubicCount(e, w)]
  IN  IF Recent(c, w) THEN c
      ELSE [Friendly(curve, w) EXCEPT !.cnt = Larger(@, 2)]

------------------------------------------------------------------------------
(* An acknowledgement: bictcp_acked, then bictcp_cong_avoid. *)

SlowStart(t) == t.cwnd < t.ssthresh

\* tcp_slow_start: what it does to the window, and the packets left over.
Doubled(t, n) == Smaller(t.cwnd + n, t.ssthresh)

\* tcp_cong_avoid_ai
Avoid(t, w, n) ==
  LET early == t.cnt >= w
      credit == (IF early THEN 0 ELSE t.cnt) + n
      cwnd == t.cwnd + (IF early THEN 1 ELSE 0) + credit \div w
  IN  [t EXCEPT !.cwnd = Smaller(cwnd, Clamp), !.cnt = credit % w]

\* bictcp_acked looks at a round trip that was measured, in an epoch not too young.
Samples(c, rtt) == rtt # 0 /\ ~(c.epoch # 0 /\ now - c.epoch < Hz)

Measured(c, rtt) ==
  IF ~Samples(c, rtt) THEN c
  ELSE [c EXCEPT !.delayMin = IF @ = 0 THEN rtt ELSE Smaller(@, rtt)]

\* hystart_update may find the end of slow start.
MayExit(t, c, rtt) ==
  /\ Samples(c, rtt)
  /\ SlowStart(t) /\ t.cwnd >= LowWindow /\ ~c.found

\* bictcp_cong_avoid
CongAvoid(t, c, n) ==
  LET cwnd == IF SlowStart(t) THEN Doubled(t, n) ELSE t.cwnd
      left == n - (cwnd - t.cwnd)
      u == Update(c, cwnd, left)
  IN  IF left = 0
        THEN tp' = [t EXCEPT !.cwnd = cwnd] /\ ca' = c
        ELSE tp' = Avoid([t EXCEPT !.cwnd = cwnd], u.cnt, left) /\ ca' = u

\* In Recovery the kernel brings the window to the threshold by itself.
Reduced(t) == IF t.state = "Recovery" THEN 1..Larger(t.cwnd, t.ssthresh) ELSE {t.cwnd}

\* It does not ask for a larger window then, nor for one that is not used up.
Acknowledge ==
  \E n \in Acks, rtt \in Delays \cup {0}, exit \in BOOLEAN, limited \in BOOLEAN :
    LET t == IF exit THEN [tp EXCEPT !.ssthresh = tp.cwnd] ELSE tp
        c == [Measured(ca, rtt) EXCEPT !.found = @ \/ exit]
    IN  /\ acked + n <= MaxAcked
        /\ exit => MayExit(tp, ca, rtt)
        /\ acked' = acked + n
        /\ IF limited /\ tp.state # "Recovery"
             THEN CongAvoid(t, c, n)
             ELSE ca' = c /\ \E w \in Reduced(t) : tp' = [t EXCEPT !.cwnd = w]
        /\ UNCHANGED <<now, handover, prior, cuts, unwatched>>

------------------------------------------------------------------------------
(* Losses: bictcp_recalc_ssthresh and bictcp_state. *)

\* Slip: a larger maximum stays.
RememberLarger(c, w) == [c EXCEPT !.epoch = 0, !.lastMax = Larger(@, w)]

\* The epoch ends, and the window becomes the last maximum.
Remember(c, w) ==
  [c EXCEPT !.epoch = 0,
            !.lastMax = IF w < @ THEN (w * (1024 + 717)) \div (2 * 1024) ELSE w]

Threshold(w) == Larger((w * 717) \div 1024, 2)

Cut ==
  /\ cuts < MaxCuts
  /\ cuts' = cuts + 1
  /\ UNCHANGED <<now, handover, acked>>

\* tcp_current_ssthresh
CurrentSsthresh ==
  IF tp.state = "Recovery" THEN tp.ssthresh
  ELSE Larger(tp.ssthresh, tp.cwnd \div 2 + tp.cwnd \div 4)

Saved == [cwnd |-> tp.cwnd, ssthresh |-> CurrentSsthresh]

EnterRecovery ==
  /\ tp.state = "Open"
  /\ Cut /\ UNCHANGED unwatched
  /\ prior' = Saved
  /\ tp' = [tp EXCEPT !.ssthresh = Threshold(tp.cwnd), !.cnt = 0, !.state = "Recovery"]
  /\ ca' = Remember(ca, tp.cwnd)

\* bictcp_state, which is told of the loss.
BictcpState(c) == IF handover THEN c ELSE Reset(c)

\* tcp_enter_loss. A timeout of what was sent again may cut no further.
Timeout ==
  \E cut \in BOOLEAN :
    LET c == IF cut THEN Remember(ca, tp.cwnd) ELSE ca
    IN  /\ tp.state = "Open" => cut
        /\ Cut
        /\ prior' = IF cut THEN Saved ELSE prior
        /\ tp' = [tp EXCEPT !.ssthresh = IF cut THEN Threshold(tp.cwnd) ELSE @,
                            !.cwnd = 1, !.cnt = 0, !.state = "Loss"]
        /\ ca' = BictcpState(c)
        /\ unwatched' = handover

\* Everything that was out is acknowledged, or the loss turns out to be none.
Recover ==
  /\ tp.state # "Open"
  /\ \/ /\ tp' = [tp EXCEPT !.state = "Open",
                            !.cwnd = IF tp.state = "Recovery" THEN tp.ssthresh ELSE @]
        /\ UNCHANGED unwatched
     \/ /\ tp' = [tp EXCEPT !.state = "Open", !.cwnd = Larger(@, prior.cwnd),
                            !.ssthresh = Larger(@, prior.ssthresh)]
        /\ unwatched' = (unwatched \/ tp.state = "Loss" \/ SlowStart(prior))
  /\ prior' = NothingToUndo
  /\ UNCHANGED <<now, handover, ca, acked, cuts>>

\* tcp_cwnd_restart after idle time, and tcp_cwnd_application_limited: a window
\* that was not used is taken back, and the threshold stays near what it was.
TakeBack ==
  /\ tp.state = "Open"
  /\ \E w \in Smaller(InitialWindow, tp.cwnd)..tp.cwnd :
       /\ tp' = [tp EXCEPT !.cwnd = w, !.ssthresh = CurrentSsthresh]
       /\ unwatched' = (unwatched \/ w < tp.cwnd)
  /\ UNCHANGED <<now, handover, prior, ca, acked, cuts>>

------------------------------------------------------------------------------
\* Slip: the epoch is not held back to the present.
ShiftTooFar(c, idle) == IF c.epoch # 0 /\ idle > 0 THEN [c EXCEPT !.epoch = @ + idle] ELSE c

\* bictcp_cwnd_event: time with nothing to send does not count.
Shift(c, idle) ==
  IF c.epoch # 0 /\ idle > 0
    THEN [c EXCEPT !.epoch = Smaller(@ + idle, now)] ELSE c

\* The event is raised when nothing is on its way.
Transmit ==
  /\ tp' = [tp EXCEPT !.sent = now]
  /\ ca' \in {ca, Shift(ca, now - tp.sent)}
  /\ UNCHANGED <<now, handover, prior, acked, cuts, unwatched>>

\* nl_receive_handover_status
Notify ==
  /\ handover' \in BOOLEAN
  /\ UNCHANGED <<now, tp, prior, ca, acked, cuts, unwatched>>

Tick ==
  /\ now < MaxTime
  /\ now' = now + 1
  /\ UNCHANGED <<handover, tp, prior, ca, acked, cuts, unwatched>>

Next ==
  \/ Acknowledge
  \/ EnterRecovery
  \/ Timeout
  \/ Recover
  \/ TakeBack
  \/ Transmit
  \/ Notify
  \/ Tick

Spec == Init /\ [][Next]_vars

------------------------------------------------------------------------------
States == {"Open", "Recovery", "Loss"}
Sockets == [cwnd : 1..Clamp, cnt : Nat, ssthresh : 1..Clamp, state : States,
            sent : 1..MaxTime]
Memories == [cnt : Nat, lastMax : 0..Clamp, lastCwnd : 0..Clamp,
             lastTime : 0..MaxTime, origin : 0..Clamp, K : Nat,
             delayMin : Delays \cup {0}, epoch : Nat, ackCnt : Nat,
             tcpCwnd : Nat, found : BOOLEAN]

\* The shape of a connection's state.
TypeOK ==
  /\ now \in 1..MaxTime /\ handover \in BOOLEAN
  /\ tp \in Sockets
  /\ prior \in [cwnd : 1..Clamp, ssthresh : 1..Clamp]
  /\ ca \in Memories
  /\ acked \in 0..MaxAcked /\ cuts \in 0..MaxCuts

\* Whenever bictcp_update returns early, the count it leaves to
\* tcp_cong_avoid_ai, which divides by it, is one that an earlier call computed
\* and limited: a reset forgets the last window along with the count.
CountIsUsable == ca.lastCwnd # 0 => ca.cnt >= 2

\* An epoch never starts in the future, however often idle time is added to
\* its start, so that the time since then, which is shifted and divided as an
\* unsigned number, is not negative.
EpochNotInFuture == ca.epoch <= now

\* "The maximum rate of cwnd increase CUBIC allows is 1 packet per 2 packets
\* ACKed": out of slow start, no acknowledgement makes the window and the credit
\* towards its next increase grow by more, whatever the count was when the
\* credit was earned.
AtMostOnePerTwo ==
  [][acked' # acked /\ tp.cwnd >= tp'.ssthresh =>
       2 * (tp'.cwnd - tp.cwnd) + tp'.cnt - tp.cnt <= acked' - acked]_vars

\* A connection in slow start has HyStart watching it, so that it need not
\* overrun the path to find where slow start ends: found is clear. One exception
\* is SaTCP's, a timeout that is ignored because of a handover. The others are
\* CUBIC's: a timeout that is undone, a recovery that began in slow start and is
\* undone after HyStart ended it, and a window that is taken back because it was
\* not used. What they leave lasts until the next timeout that is not ignored
\* (tcp_cubic.c:427-438 against 445).
SlowStartIsWatched ==
  SlowStart(tp) /\ tp.state # "Recovery" /\ ca.found => unwatched

\* The kernel may take every cut back, until it is over, and a timeout may come
\* into one that is under way, with the handover flag set or not. Throughout,
\* either CUBIC has been reset or its last maximum belongs to the window that
\* an undo restores: it is not larger, so that no epoch after the undo begins
\* with a climb back to where the window already is, nor smaller than fast
\* convergence makes of it (tcp_cubic.c:410-438).
MaximumFitsUndo ==
  tp.state # "Open" =>
    \/ ca.lastMax = 0
    \/ ca.lastMax <= prior.cwnd /\ ca.lastMax >= (prior.cwnd * 1741) \div 2048

\* The inductive invariant of CubicTcp_proofs: the division by the count is
\* what ties the shape of the state to CountIsUsable.
IInv == TypeOK /\ CountIsUsable /\ EpochNotInFuture
==============================================================================
