-------------------------- MODULE ReportRelay_proofs --------------------------
(***************************************************************************)
(* Proofs about the report relay for every duration, clock bound and       *)
(* number of reports and restarts: if the stack of the spinning thread     *)
(* holds no time to come, no inhibition is ended early, and a relay that   *)
(* is not restarted implements InhibitionTimer.                            *)
(*                                                                         *)
(* NeverClearedEarly is a property of the step in which "0" is sent, two   *)
(* steps after the comparison: the invariant Deciding carries the          *)
(* comparison over to it, and it can because the other thread cannot move  *)
(* tv while the mutex is held (MutualExclusion) and because the stale      *)
(* sample is never ahead of the clock.                                     *)
(***************************************************************************)
EXTENDS ReportRelay, TLAPS

\* The clock starts at zero; whatever is on the stack is no later time.
StackIsPast == \A v \in StackValues : v <= 0

LEMMA InitInvariant == StackIsPast /\ Init => IInv
<1> SUFFICES ASSUME StackIsPast, Init PROVE IInv
  OBVIOUS
<1>1. sample \in Int /\ sample <= now
  BY ParametersAreNat DEF Init, StackIsPast
<1>2. TypeOK
  <2>1. 0 \in 0..MaxTime /\ 0 \in 0..MaxReports /\ 0 \in 0..MaxRestarts
    BY ParametersAreNat
  <2> QED
    BY <1>1, <2>1 DEF Init, TypeOK
<1>3. MutualExclusion /\ MessageIntact /\ Deciding /\ FlagInProgress
  BY DEF Init, MutualExclusion, MessageIntact, Deciding, FlagInProgress
<1> QED
  BY <1>1, <1>2, <1>3 DEF Init, IInv

\* A step of the start thread.
LEMMA StartInvariant == IInv /\ StartThread => IInv'
<1> SUFFICES ASSUME IInv, StartThread PROVE IInv'
  OBVIOUS
<1> USE ParametersAreNat
    DEF IInv, TypeOK, MutualExclusion, MessageIntact, Deciding, FlagInProgress
<1>1. CASE Receive
  BY <1>1 DEF Receive
<1>2. CASE StartLock
  BY <1>2 DEF StartLock
<1>3. CASE Stamp
  BY <1>3 DEF Stamp
<1>4. CASE StartFill
  BY <1>4 DEF StartFill
<1>5. CASE StartSend
  BY <1>5 DEF StartSend, Deliver
<1>6. CASE StartUnlock
  BY <1>6 DEF StartUnlock
<1> QED
  BY <1>1, <1>2, <1>3, <1>4, <1>5, <1>6 DEF StartThread

\* A step of the over thread.
LEMMA OverInvariant == IInv /\ OverThread => IInv'
<1> SUFFICES ASSUME IInv, OverThread PROVE IInv'
  OBVIOUS
<1> USE ParametersAreNat
    DEF IInv, TypeOK, MutualExclusion, MessageIntact, Deciding, FlagInProgress
<1>1. CASE OverLock
  BY <1>1 DEF OverLock
<1>2. CASE Check
  BY <1>2 DEF Check
<1>3. CASE OverFill
  BY <1>3 DEF OverFill
<1>4. CASE OverSend
  BY <1>4 DEF OverSend, Deliver
<1>5. CASE ClearStatus
  BY <1>5 DEF ClearStatus
<1>6. CASE OverUnlock
  BY <1>6 DEF OverUnlock
<1> QED
  BY <1>1, <1>2, <1>3, <1>4, <1>5, <1>6 DEF OverThread

LEMMA NextInvariant == StackIsPast /\ IInv /\ [Next]_vars => IInv'
<1> SUFFICES ASSUME StackIsPast, IInv, [Next]_vars PROVE IInv'
  OBVIOUS
<1>1. CASE Report
  BY <1>1, ParametersAreNat
  DEF Report, relayVars, IInv, TypeOK, MutualExclusion, MessageIntact, Deciding, FlagInProgress
<1>2. CASE Tick
  BY <1>2, ParametersAreNat
  DEF Tick, relayVars, IInv, TypeOK, MutualExclusion, MessageIntact, Deciding, FlagInProgress
<1>3. CASE StartThread
  BY <1>3, StartInvariant
<1>4. CASE OverThread
  BY <1>4, OverInvariant
<1>5. CASE Restart
  BY <1>5, ParametersAreNat
  DEF Restart, StackIsPast, IInv, TypeOK, MutualExclusion, MessageIntact, Deciding, FlagInProgress
<1>6. CASE UNCHANGED vars
  BY <1>6
  DEF vars, relayVars, IInv, TypeOK, MutualExclusion, MessageIntact, Deciding, FlagInProgress
<1> QED
  BY <1>1, <1>2, <1>3, <1>4, <1>5, <1>6 DEF Next

THEOREM Invariance == ASSUME StackIsPast PROVE Spec => []IInv
<1>1. Init => IInv
  BY InitInvariant
<1>2. IInv /\ [Next]_vars => IInv'
  BY NextInvariant
<1> QED
  BY <1>1, <1>2, PTL DEF Spec

\* The variables of both threads keep their types.
THEOREM TypeCorrect == ASSUME StackIsPast PROVE Spec => []TypeOK
<1>1. IInv => TypeOK
  BY DEF IInv
<1> QED
  BY <1>1, Invariance, PTL

\* The threads exclude each other from the status and the message.
THEOREM ThreadsExclude == ASSUME StackIsPast PROVE Spec => []MutualExclusion
<1>1. IInv => MutualExclusion
  BY DEF IInv
<1> QED
  BY <1>1, Invariance, PTL

\* The kernel and the relay agree whenever the mutex is free.
THEOREM KernelAgrees == ASSUME StackIsPast PROVE Spec => []FlagMatchesStatus
<1>1. IInv => FlagMatchesStatus
  BY DEF IInv, MutualExclusion, FlagInProgress, FlagMatchesStatus
<1> QED
  BY <1>1, Invariance, PTL

\* The congestion control is not released before the duration has passed.
THEOREM NotEarly == ASSUME StackIsPast PROVE Spec => NeverClearedEarly
<1>1. IInv /\ [Next]_vars => [kernelFlag /\ ~kernelFlag' => tv + Duration < now]_vars
  <2> SUFFICES ASSUME IInv, Next, kernelFlag, ~kernelFlag'
               PROVE  tv + Duration < now
    BY DEF vars
  <2>1. CASE StartThread
    BY <2>1 DEF StartThread, Receive, StartLock, Stamp, StartFill, StartSend, StartUnlock,
      Deliver, IInv, MessageIntact
  <2>2. CASE OverThread
    BY <2>2 DEF OverThread, OverLock, Check, OverFill, OverSend, ClearStatus, OverUnlock,
      IInv, Deciding
  <2>3. CASE Report \/ Tick \/ Restart
    BY <2>3 DEF Report, Tick, Restart
  <2> QED
    BY <2>1, <2>2, <2>3 DEF Next
<1> QED
  BY <1>1, Invariance, PTL DEF Spec, NeverClearedEarly

\* The relay implements InhibitionTimer: a step of it is Renew, Expire, Tick
\* or, when it is restarted, Forget, or leaves the timer alone.
THEOREM Implements == ASSUME StackIsPast PROVE Spec => ImplementsTimer
<1>1. Init => Abstract!Init
  BY DEF Init, Abstract!Init
<1>2. IInv /\ [Next]_vars => [Abstract!Next]_(Abstract!vars)
  <2> SUFFICES ASSUME IInv, [Next]_vars PROVE [Abstract!Next]_(Abstract!vars)
    OBVIOUS
  <2>1. CASE StartThread
    <3>1. CASE Stamp
      <4>1. (status' = 1) = TRUE /\ tv' = now /\ now' = now
        BY <3>1 DEF Stamp
      <4> QED
        BY <4>1 DEF Abstract!Next, Abstract!Renew
    <3>2. CASE ~Stamp
      <4>1. status' = status /\ tv' = tv /\ now' = now
        BY <2>1, <3>2 DEF StartThread, Receive, StartLock, StartFill, StartSend, StartUnlock
      <4> QED
        BY <4>1 DEF Abstract!vars
    <3> QED
      BY <3>1, <3>2
  <2>2. CASE OverThread
    <3>1. CASE ClearStatus
      <4>1. (status = 1) /\ tv + Duration < now /\ (status' = 1) = FALSE
            /\ tv' = tv /\ now' = now
        BY <3>1 DEF ClearStatus, IInv, Deciding
      <4> QED
        BY <4>1 DEF Abstract!Next, Abstract!Expire, Abstract!Overdue
    <3>2. CASE ~ClearStatus
      <4>1. status' = status /\ tv' = tv /\ now' = now
        BY <2>2, <3>2 DEF OverThread, OverLock, Check, OverFill, OverSend, OverUnlock
      <4> QED
        BY <4>1 DEF Abstract!vars
    <3> QED
      BY <3>1, <3>2
  <2>3. CASE Report
    BY <2>3 DEF Report, relayVars, Abstract!vars
  <2>4. CASE Tick
    BY <2>4 DEF Tick, relayVars, Abstract!Next, Abstract!Tick
  <2>5. CASE Restart
    <3>1. (status' = 1) = FALSE /\ tv' = now /\ now' = now
      BY <2>5 DEF Restart
    <3> QED
      BY <3>1 DEF Abstract!Next, Abstract!Forget
  <2>6. CASE UNCHANGED vars
    BY <2>6 DEF vars, relayVars, Abstract!vars
  <2> QED
    BY <2>1, <2>2, <2>3, <2>4, <2>5, <2>6 DEF Next
<1> QED
  BY <1>1, <1>2, Invariance, PTL DEF Spec, ImplementsTimer, Abstract!Spec
==============================================================================
