---------------------------- MODULE TrafficControl ----------------------------
(***************************************************************************)
(* The arguments of TCIntf.config (emulation_stage/Mininet_config), the tc *)
(* commands that it issues, and what they do to the queueing disciplines   *)
(* of an interface, which is the kernel's. StockLink (link_old.py) and     *)
(* SmoothLink (link_smooth.py) say which commands a call issues. RED and   *)
(* ECN, which nothing in the repository switches on, are left out.         *)
(***************************************************************************)
CONSTANTS
  None,             \* Python's None
  Zero,             \* 0, which Python takes for false as well
  InRange,          \* bandwidths that tc is given
  OutOfRange,       \* bandwidths that bwCmds refuses
  Delays,
  Jitters,
  NegativeJitters,
  Losses,           \* percentages above 0, up to 100
  BadLosses,        \* percentages outside 0..100
  Queues            \* values of max_queue_size

Kinds == {"htb", "hfsc", "tbf"}     \* neither use_hfsc nor use_tbf, or one

Settings == [bw : InRange \cup OutOfRange \cup {None},
             delay : Delays \cup {Zero, None},
             jitter : Jitters \cup NegativeJitters \cup {Zero, None},
             loss : Losses \cup BadLosses \cup {Zero, None},
             queue : Queues \cup {None}, kind : Kinds]

ASSUME NoneIsNoValue ==
  /\ None \notin InRange \cup OutOfRange \cup Delays \cup Queues \cup {Zero}
  /\ None \notin Jitters \cup NegativeJitters \cup Losses \cup BadLosses
  /\ Zero \notin Delays \cup Jitters \cup NegativeJitters \cup Losses \cup BadLosses
  /\ InRange \cap OutOfRange = {}
  /\ Jitters \cap NegativeJitters = {} /\ Losses \cap BadLosses = {}

------------------------------------------------------------------------------
(* The disciplines: a root of some kind with handle 5:, its class 5:1 with *)
(* a bandwidth, and a netem below the class, or as the root.               *)

NoNetem == [delay |-> None, jitter |-> None, loss |-> None, queue |-> None]
Default == [root |-> "none", class |-> None, netem |-> NoNetem]

DelRoot              == [op |-> "del root"]
AddRoot(kind, bw)    == [op |-> "add root", kind |-> kind, bw |-> bw]
Class(verb, kind, bw) == [op |-> "class", verb |-> verb, kind |-> kind, bw |-> bw]
Netem(verb, parent, args) ==
  [op |-> "netem", verb |-> verb, parent |-> parent, args |-> args]

\* A jitter is read as the second number after "delay".
Readable(args) == args.jitter # None => args.delay # None

\* Whether the kernel carries the command out; else it changes nothing.
Accepts(t, c) ==
  CASE c.op = "del root" -> t.root # "none"
    [] c.op = "add root" -> t.root = "none"
    [] c.op = "class" ->
         t.root = c.kind /\ (c.verb = "add" <=> t.class = None)
    [] c.op = "netem" /\ c.parent = "root" ->
         Readable(c.args) /\ (c.verb = "replace" \/ t.root = "none")
    [] c.op = "netem" /\ c.parent = "class" ->
         /\ Readable(c.args)
         /\ t.class # None /\ (c.verb = "replace" \/ t.netem = NoNetem)

Effect(t, c) ==
  CASE c.op = "del root" -> Default
    [] c.op = "add root" -> [Default EXCEPT !.root = c.kind,
                               !.class = IF c.kind = "tbf" THEN c.bw ELSE None]
    [] c.op = "class" -> [t EXCEPT !.class = c.bw]
    [] c.op = "netem" /\ c.parent = "root" ->
         \* a netem that exists further down is moved up as it is
         [Default EXCEPT !.root = "netem",
            !.netem = IF t.root \in Kinds /\ t.netem # NoNetem
                        THEN t.netem ELSE c.args]
    [] c.op = "netem" /\ c.parent = "class" -> [t EXCEPT !.netem = c.args]
==============================================================================
