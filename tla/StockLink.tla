------------------------------ MODULE StockLink ------------------------------
(***************************************************************************)
(* TCIntf of emulation_stage/Mininet_config/link_old.py: the commands with *)
(* which Mininet's own config sets bandwidth, delay, jitter, loss and      *)
(* queue. Every call that sets something tears the disciplines down and    *)
(* builds them again. SmoothLink is the version that LeoEM installs in its *)
(* place; the definitions here are those of link_old.py throughout.        *)
(***************************************************************************)
EXTENDS TrafficControl, Sequences

Shaped(call) == call.bw \in InRange
Parent(call) == IF Shaped(call) THEN "class" ELSE "root"

\* What netem is told: only a loss above 0, and nothing if the loss is refused.
NetemArgs(call) ==
  IF call.loss \in BadLosses THEN NoNetem
  ELSE [delay |-> call.delay, jitter |-> call.jitter,
        loss |-> IF call.loss = Zero THEN None ELSE call.loss, queue |-> call.queue]

\* "not delay and not loss": a 0 counts as nothing, and so does any jitter.
NothingToSet(call) ==
  /\ call.bw = None /\ call.queue = None
  /\ call.delay \in {None, Zero} /\ call.loss \in {None, Zero}

\* The default disciplines are recognised by what tc prints of them.
Clear(tree) == IF tree.root # "none" THEN <<DelRoot>> ELSE << >>

BwCmds(call) ==
  IF ~Shaped(call) THEN << >>
  ELSE IF call.kind = "tbf" THEN <<AddRoot("tbf", call.bw)>>
  ELSE <<AddRoot(call.kind, call.bw), Class("add", call.kind, call.bw)>>

DelayCmds(call) ==
  IF NetemArgs(call) = NoNetem THEN << >>
  ELSE <<Netem("add", Parent(call), NetemArgs(call))>>

\* The commands of one call of config.
Commands(tree, call) ==
  IF NothingToSet(call) THEN << >>
  ELSE Clear(tree) \o BwCmds(call) \o DelayCmds(call)
==============================================================================
