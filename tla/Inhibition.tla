------------------------------ MODULE Inhibition ------------------------------
(***************************************************************************)
(* SaTCP from end to end: the playback of Emulator on a running clock, its *)
(* reports on the way to the relay, and the relay as InhibitionTimer       *)
(* promises it (ReportRelay implements that). What is asked is whether the *)
(* congestion control is held still while the links of a handover are      *)
(* down, although the reports are early or late and the cycles overrun.    *)
(*                                                                         *)
(* A cycle's work takes the time that its threads take, and what the sleep *)
(* adds is computed from it. A report is sent and taken in the tick in     *)
(* which its thread wakes, and the relay, which spins, is not late by a    *)
(* tick. When the program ends the reports that are still waited for may   *)
(* go with it: their threads are daemons.                                  *)
(***************************************************************************)
EXTENDS Emulator

CONSTANTS
  Duration,     \* SATCP_DURATION, in ticks
  MaxRest       \* bound on the time that is looked at after the end, in ticks

ASSUME DurationIsTime == Duration \in Nat

VARIABLES
  inhibited, last,   \* InhibitionTimer
  now,               \* the clock
  delivered          \* the reports that have been sent

relay == <<inhibited, last, now>>

Relay == INSTANCE InhibitionTimer

InhibitionInit ==
  /\ Init
  /\ now = 0 /\ Relay!Init
  /\ delivered = {}

------------------------------------------------------------------------------
\* The sleep of a cycle lasts until the next one is to begin, which is when a
\* frame has passed, or at once.
Sleep == Reconfigure /\ clock' = clock + Later(Frame, now - clock)

Play ==
  /\ \/ PrepareLine
     \/ EndPrepare
     \/ WrongNumber
     \/ LoseService
     \/ TakeRoute
     \/ Handover
     \/ Sleep
     \/ now = clock /\ Wake
  /\ UNCHANGED <<relay, delivered>>

\* Slip: all reports wait in one thread, and one is sent.
DeliverOne ==
  \E r \in reports \ delivered :
    /\ r.due = now /\ delivered = {}
    /\ delivered' = {r}
    /\ Relay!Renew
    /\ UNCHANGED vars

\* report_handover_status, when the wait of its thread is over.
Deliver ==
  \E r \in reports \ delivered :
    /\ r.due = now
    /\ delivered' = delivered \cup {r}
    /\ Relay!Renew
    /\ UNCHANGED vars

EndInhibition == Relay!Expire /\ UNCHANGED <<vars, delivered>>

Ended == pc \in {"done", "returned", "crashed"}

\* Time passes while a cycle is busy or asleep, and after the end.
Tick ==
  /\ \/ pc = "handover" /\ now < clock + MaxBusy
     \/ pc = "asleep" /\ now < clock
     \/ Ended /\ now < clock + MaxRest
  /\ Ended \/ \A r \in reports \ delivered : r.due # now
  /\ ~Relay!Overdue
  /\ Relay!Tick
  /\ UNCHANGED <<vars, delivered>>

InhibitionNext ==
  \/ Play
  \/ Deliver
  \/ EndInhibition
  \/ Tick

allVars == <<vars, relay, delivered>>

\* The program's threads and the relay run, and time passes. Whether a report is
\* sent after the end is left open.
InhibitionSpec ==
  /\ InhibitionInit /\ [][InhibitionNext]_allVars
  /\ WF_allVars(Play) /\ WF_allVars(~Ended /\ Deliver)
  /\ WF_allVars(EndInhibition) /\ WF_allVars(Tick)

------------------------------------------------------------------------------
\* The time by which the report for cycle k may be earlier than drawn: what the
\* cycles in which it was waited for have taken beyond their frames.
Lost(k) ==
  IF shift[k] >= 0 THEN 0 ELSE MayLose(k - ((-shift[k]) \div Frame + 1), k)

\* Line k of the file has a handover: a route that the line before does not have.
RouteChanges(k) == Valid(k) /\ (k = 0 \/ route[k] # route[k - 1])

\* What SaTCP is for (satcp/README.md: the report is sent earlier by T_earlier,
\* and the inhibition lasts D): while a link of a handover is down, and no more
\* than the duration has passed since its report was planned, the congestion
\* control is held still. This is asked of every handover that has a window for
\* its report, and from the planned time on; cycles that take more than a frame
\* make a report earlier, and the inhibition ends as much earlier.
InhibitionCovers ==
  /\ pc = "handover" /\ Pools!Broken # {} /\ HasWindow(index)
  /\ clock + shift[index] < now /\ now <= clock + shift[index] + Duration - Lost(index)
  => inhibited

\* The congestion control is held still only around a handover of the file, a
\* line whose route is not that of the line before: not longer than the duration,
\* and a tick to notice it, after a report for such a line, which came no later
\* than drawn and no earlier but for the time lost.
InhibitionIsDue ==
  inhibited =>
    \E r \in reports :
      /\ RouteChanges(r.target)
      /\ r.due <= now /\ now <= r.due + Duration + 1
      /\ r.target < Len(began) =>
           LET planned == began[r.target + 1] + shift[r.target]
           IN  r.due <= planned /\ planned - Lost(r.target) <= r.due

\* The congestion control gets its way again for good, however the program
\* ends: the relay outlives it.
InhibitionEnds == <>[]~inhibited

\* Where both users' links end in one switch the two handovers can cut each other
\* short, but not both: a refusal needs somebody who is at work there.
SomeHandoverCompletes == Pools!SomeHandoverCompletes
==============================================================================
