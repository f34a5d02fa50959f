--------------------------- MODULE InhibitionTimer ---------------------------
(***************************************************************************)
(* What the report relay promises the congestion control: a report starts  *)
(* the inhibition or starts its duration anew, and the inhibition ends     *)
(* only when more than the duration has passed since the last report, or   *)
(* when the relay is stopped.                                              *)
(***************************************************************************)
EXTENDS Integers

CONSTANT Duration     \* SATCP_DURATION, in ticks

VARIABLES
  inhibited,    \* the congestion control is told to hold still
  last,         \* time of the last report
  now           \* the clock

vars == <<inhibited, last, now>>

Init == inhibited = FALSE /\ last = now

\* Slip: a report during an inhibition does not start its duration anew.
RenewFirstOnly ==
  inhibited' = TRUE /\ last' = (IF inhibited THEN last ELSE now) /\ UNCHANGED now

Renew == inhibited' = TRUE /\ last' = now /\ UNCHANGED now

Overdue == inhibited /\ last + Duration < now

\* Slip: the end of an inhibition is taken for a report.
ExpireRenews == Overdue /\ last' = now /\ UNCHANGED <<inhibited, now>>

Expire == Overdue /\ inhibited' = FALSE /\ UNCHANGED <<last, now>>

Tick == now' = now + 1 /\ UNCHANGED <<inhibited, last>>

\* The promise is forgotten with the relay that made it.
Forget == inhibited' = FALSE /\ last' = now /\ UNCHANGED now

Next == Renew \/ Expire \/ Tick \/ Forget

Spec == Init /\ [][Next]_vars
==============================================================================
