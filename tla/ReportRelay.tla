----------------------------- MODULE ReportRelay -----------------------------
(***************************************************************************)
(* emulation_stage/satcp/report_relay.c: one thread takes the emulator's   *)
(* handover reports from a UDP socket and tells the kernel "1", the other  *)
(* one spins and tells the kernel "0" once SATCP_DURATION has passed since *)
(* the last report. They share a mutex, the status, the timestamp and the  *)
(* netlink message. The kernel's side is nl_receive_handover_status of     *)
(* tcp_cubic.c, which sendmsg calls synchronously.                         *)
(*                                                                         *)
(* The spinning thread compares the expiration with a struct timeval that  *)
(* it fills only after the comparison value has been computed. The struct  *)
(* has one place on the thread's stack, so the value is that of the        *)
(* iteration before, and at first whatever the stack holds.                *)
(***************************************************************************)
EXTENDS Integers

CONSTANTS
  Duration,        \* SATCP_DURATION, in ticks
  StackValues,     \* what the stack may hold as a time before the first sample
  MaxTime,         \* bound on the clock
  MaxReports,      \* bound on the reports the emulator sends
  MaxRestarts      \* bound on the times the relay is stopped and started again

ASSUME ParametersAreNat ==
  /\ Duration \in Nat /\ MaxTime \in Nat /\ MaxReports \in Nat /\ MaxRestarts \in Nat
  /\ StackValues \subseteq Int

VARIABLES
  now,          \* the clock
  sent,         \* reports sent by the emulator so far
  inbox,        \* datagrams in the socket
  restarts,     \* restarts so far
  lock,         \* the mutex: "free", "start" or "over"
  starter,      \* where the thread of the start signal is
  finisher,     \* where the thread of the over signal is
  status,       \* current_handover_status
  tv,           \* most recent handover timestamp
  sample,       \* current_tv, as the stack holds it
  payload,      \* NLMSG_DATA(nlh)
  kernelFlag    \* handover_status of tcp_cubic.c

relayVars == <<lock, starter, finisher, status, tv, sample, payload>>
vars      == <<now, sent, inbox, restarts, relayVars, kernelFlag>>

\* The threads as main creates them.
Init ==
  /\ now = 0 /\ sent = 0 /\ inbox = 0 /\ restarts = 0
  /\ lock = "free"
  /\ starter = "receive" /\ finisher = "lock"
  /\ status = 0
  /\ tv = now
  /\ sample \in StackValues
  /\ payload = "0"
  /\ kernelFlag = FALSE

------------------------------------------------------------------------------
\* report_handover_status of emulator.py.
Report ==
  /\ sent < MaxReports
  /\ sent' = sent + 1 /\ inbox' = inbox + 1
  /\ UNCHANGED <<now, restarts, relayVars, kernelFlag>>

Tick ==
  /\ now < MaxTime
  /\ now' = now + 1
  /\ UNCHANGED <<sent, inbox, restarts, relayVars, kernelFlag>>

\* nl_receive_handover_status looks at the first character.
Deliver == kernelFlag' = (payload = "1")

------------------------------------------------------------------------------
\* wait_and_send_handover_start_signal

Receive ==
  /\ starter = "receive" /\ inbox > 0
  /\ inbox' = inbox - 1
  /\ starter' = "lock"
  /\ UNCHANGED <<now, sent, restarts, lock, finisher, status, tv, sample, payload, kernelFlag>>

StartLock ==
  /\ starter = "lock" /\ lock = "free"
  /\ lock' = "start" /\ starter' = "stamp"
  /\ UNCHANGED <<now, sent, inbox, restarts, finisher, status, tv, sample, payload, kernelFlag>>

\* Slip: the status is not set.
StampOnly ==
  /\ starter = "stamp"
  /\ tv' = now
  /\ starter' = "fill"
  /\ UNCHANGED <<now, sent, inbox, restarts, lock, finisher, status, sample, payload, kernelFlag>>

Stamp ==
  /\ starter = "stamp"
  /\ status' = 1 /\ tv' = now
  /\ starter' = "fill"
  /\ UNCHANGED <<now, sent, inbox, restarts, lock, finisher, sample, payload, kernelFlag>>

\* Slip: the message is sent as the other thread left it.
StartFillNot ==
  /\ starter = "fill"
  /\ starter' = "send"
  /\ UNCHANGED <<now, sent, inbox, restarts, lock, finisher, status, tv, sample, payload, kernelFlag>>

StartFill ==
  /\ starter = "fill"
  /\ payload' = "1"
  /\ starter' = "send"
  /\ UNCHANGED <<now, sent, inbox, restarts, lock, finisher, status, tv, sample, kernelFlag>>

StartSend ==
  /\ starter = "send"
  /\ Deliver
  /\ starter' = "unlock"
  /\ UNCHANGED <<now, sent, inbox, restarts, lock, finisher, status, tv, sample, payload>>

StartUnlock ==
  /\ starter = "unlock"
  /\ lock' = "free" /\ starter' = "receive"
  /\ UNCHANGED <<now, sent, inbox, restarts, finisher, status, tv, sample, payload, kernelFlag>>

StartThread ==
  \/ Receive
  \/ StartLock
  \/ Stamp
  \/ StartFill
  \/ StartSend
  \/ StartUnlock

------------------------------------------------------------------------------
\* wait_and_send_handover_over_signal

OverLock ==
  /\ finisher = "lock" /\ lock = "free"
  /\ lock' = "over" /\ finisher' = "check"
  /\ UNCHANGED <<now, sent, inbox, restarts, starter, status, tv, sample, payload, kernelFlag>>

\* Slip: the comparison is turned round.
CheckReversed ==
  /\ finisher = "check"
  /\ IF status = 1
       THEN /\ sample' = now
            /\ finisher' = IF tv + Duration >= sample THEN "fill" ELSE "unlock"
       ELSE /\ finisher' = "unlock"
            /\ UNCHANGED sample
  /\ UNCHANGED <<now, sent, inbox, restarts, lock, starter, status, tv, payload, kernelFlag>>

\* Slip: the sample is never taken.
CheckNoSample ==
  /\ finisher = "check"
  /\ finisher' = IF status = 1 /\ tv + Duration < sample THEN "fill" ELSE "unlock"
  /\ UNCHANGED <<now, sent, inbox, restarts, lock, starter, status, tv, sample, payload, kernelFlag>>

\* current_time is computed from current_tv and current_tv is filled then.
Check ==
  /\ finisher = "check"
  /\ IF status = 1
       THEN /\ sample' = now
            /\ finisher' = IF tv + Duration < sample THEN "fill" ELSE "unlock"
       ELSE /\ finisher' = "unlock"
            /\ UNCHANGED sample
  /\ UNCHANGED <<now, sent, inbox, restarts, lock, starter, status, tv, payload, kernelFlag>>

OverFill ==
  /\ finisher = "fill"
  /\ payload' = "0"
  /\ finisher' = "send"
  /\ UNCHANGED <<now, sent, inbox, restarts, lock, starter, status, tv, sample, kernelFlag>>

OverSend ==
  /\ finisher = "send"
  /\ Deliver
  /\ finisher' = "clear"
  /\ UNCHANGED <<now, sent, inbox, restarts, lock, starter, status, tv, sample, payload>>

\* Slip: the timestamp is cleared in place of the status.
ClearTimestamp ==
  /\ finisher = "clear"
  /\ tv' = -1
  /\ finisher' = "unlock"
  /\ UNCHANGED <<now, sent, inbox, restarts, lock, starter, status, sample, payload, kernelFlag>>

ClearStatus ==
  /\ finisher = "clear"
  /\ status' = 0
  /\ finisher' = "unlock"
  /\ UNCHANGED <<now, sent, inbox, restarts, lock, starter, tv, sample, payload, kernelFlag>>

OverUnlock ==
  /\ finisher = "unlock"
  /\ lock' = "free" /\ finisher' = "lock"
  /\ UNCHANGED <<now, sent, inbox, restarts, starter, status, tv, sample, payload, kernelFlag>>

OverThread ==
  \/ OverLock
  \/ Check
  \/ OverFill
  \/ OverSend
  \/ ClearStatus
  \/ OverUnlock

------------------------------------------------------------------------------
\* The user stops the relay and starts it again: main begins afresh, the
\* socket and what is in it are gone, the kernel keeps its flag.
Restart ==
  /\ restarts < MaxRestarts
  /\ restarts' = restarts + 1
  /\ inbox' = 0
  /\ lock' = "free"
  /\ starter' = "receive" /\ finisher' = "lock"
  /\ status' = 0
  /\ tv' = now
  /\ sample' \in StackValues
  /\ payload' = "0"
  /\ UNCHANGED <<now, sent, kernelFlag>>

Next ==
  \/ Report
  \/ Tick
  \/ StartThread
  \/ OverThread
  \/ Restart

Spec == Init /\ [][Next]_vars

\* Time passes and both threads are scheduled. Who gets the mutex when both ask
\* for it is left open: a pthread mutex promises no order.
FairSpec ==
  /\ Spec
  /\ WF_vars(Tick)
  /\ WF_vars(StartThread)
  /\ WF_vars(OverThread)
------------------------------------------------------------------------------
TypeOK ==
  /\ now \in 0..MaxTime
  /\ sent \in 0..MaxReports /\ inbox \in 0..MaxReports /\ restarts \in 0..MaxRestarts
  /\ lock \in {"free", "start", "over"}
  /\ starter \in {"receive", "lock", "stamp", "fill", "send", "unlock"}
  /\ finisher \in {"lock", "check", "fill", "send", "clear", "unlock"}
  /\ status \in {0, 1}
  /\ tv \in 0..MaxTime
  /\ sample \in Int
  /\ payload \in {"0", "1"}
  /\ kernelFlag \in BOOLEAN

\* The threads never work on the shared status and message together: each
\* is past its lock exactly while it holds the mutex.
MutualExclusion ==
  /\ starter \in {"stamp", "fill", "send", "unlock"} <=> lock = "start"
  /\ finisher \in {"check", "fill", "send", "clear", "unlock"} <=> lock = "over"

\* The netlink message is shared: what reaches the kernel is what the
\* sending thread has put into it (report_relay.c:56-64 and 89-97).
MessageIntact ==
  /\ starter = "send" => payload = "1"
  /\ finisher = "send" => payload = "0"

\* Whenever nobody holds the mutex, the relay and the kernel agree on
\* whether a handover is going on. A relay that was started again has
\* forgotten a handover, it never imagines one.
FlagMatchesStatus ==
  lock = "free" =>
    /\ status = 1 => kernelFlag
    /\ kernelFlag /\ restarts = 0 => status = 1

\* The inhibition is not ended before its duration has passed since the
\* relay last had a report (SATCP_DURATION, report_relay.c:76-80).
NeverClearedEarly ==
  [][kernelFlag /\ ~kernelFlag' => tv + Duration < now]_vars

\* The relay implements InhibitionTimer.
Abstract == INSTANCE InhibitionTimer WITH inhibited <- (status = 1), last <- tv
ImplementsTimer == Abstract!Spec

\* An inhibition comes to its end: the kernel is told "0", unless a report
\* came so late that the clock of the model stops before its duration is
\* over, or the relay that owes the "0" is stopped.
FlagIsCleared ==
  \A r \in 0..MaxRestarts :
    (kernelFlag /\ status = 1 /\ restarts = r /\ tv + Duration < MaxTime) ~>
      (~kernelFlag \/ restarts > r \/ tv + Duration >= MaxTime)

\* A report that reached the socket reaches the congestion control, if the relay
\* is not stopped, or else its thread waits for the mutex for ever: the mutex is
\* free again and again, also after a report, a "0" or a restart in the middle of
\* either, and starvation by the spinning thread is all that can keep it back.
RelayedUnlessStarved ==
  /\ []<>(lock = "free")
  /\ \/ <>[](starter = "lock")
     \/ \A r \in 0..MaxRestarts :
          (inbox > 0 /\ ~kernelFlag /\ restarts = r) ~> (kernelFlag \/ restarts > r)

------------------------------------------------------------------------------
\* The inductive invariant of ReportRelay_proofs: besides the above, a
\* thread on its way to the "0" has seen the duration pass, and the stack
\* holds no time to come.
Deciding ==
  finisher \in {"fill", "send", "clear"} => status = 1 /\ tv + Duration < now

FlagInProgress ==
  /\ status = 1 /\ starter \notin {"fill", "send"} /\ finisher # "clear" => kernelFlag
  /\ finisher = "clear" => ~kernelFlag
  /\ starter \in {"fill", "send", "unlock"} => status = 1
  /\ starter = "unlock" => kernelFlag
  /\ kernelFlag /\ restarts = 0 => status = 1

IInv ==
  /\ TypeOK
  /\ MutualExclusion
  /\ MessageIntact
  /\ inbox <= sent
  /\ sample <= now
  /\ Deciding
  /\ FlagInProgress
==============================================================================
