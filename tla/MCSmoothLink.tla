----------------------------- MODULE MCSmoothLink -----------------------------
(* Arguments of config for TLC. *)
EXTENDS SmoothLink

CONSTANTS d1, d2, j1, j9, l1, l9, q1      \* 9: refused

\* Each argument given, changed, taken back, 0 and refused, alone and together.
NetemChoices ==
  { [delay |-> None, jitter |-> None, loss |-> None, queue |-> None],
    [delay |-> d1,   jitter |-> None, loss |-> None, queue |-> None],
    [delay |-> d2,   jitter |-> j1,   loss |-> None, queue |-> q1],
    [delay |-> d1,   jitter |-> Zero, loss |-> l1,   queue |-> None],
    [delay |-> d1,   jitter |-> j9,   loss |-> None, queue |-> q1],
    [delay |-> d1,   jitter |-> None, loss |-> l9,   queue |-> None],
    [delay |-> None, jitter |-> j9,   loss |-> l9,   queue |-> None],
    [delay |-> None, jitter |-> j1,   loss |-> None, queue |-> None],
    [delay |-> Zero, jitter |-> None, loss |-> None, queue |-> None],
    [delay |-> None, jitter |-> None, loss |-> Zero, queue |-> None],
    [delay |-> None, jitter |-> None, loss |-> None, queue |-> q1] }

SomeCalls ==
  { [bw |-> b, delay |-> n.delay, jitter |-> n.jitter, loss |-> n.loss,
     queue |-> n.queue, kind |-> k, smooth |-> s] :
      b \in InRange \cup OutOfRange \cup {None}, n \in NetemChoices,
      k \in Kinds, s \in BOOLEAN }
==============================================================================
