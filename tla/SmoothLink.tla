------------------------------ MODULE SmoothLink ------------------------------
(***************************************************************************)
(* TCIntf of emulation_stage/Mininet_config/link_smooth.py: one interface, *)
(* whose bandwidth, delay, jitter, loss and queue are set by tc commands.  *)
(* A call of config either clears the queueing disciplines and builds them *)
(* again, as Mininet does, or (smooth_change) alters the ones that are     *)
(* there. The commands of a call run one after the other, and packets pass *)
(* between any two of them. Stock is the file that this one replaces.      *)
(***************************************************************************)
EXTENDS TrafficControl, Sequences, Integers

CONSTANT Calls        \* the arguments config is called with

ASSUME CallsAreArguments ==
  \A c \in Calls : /\ [bw |-> c.bw, delay |-> c.delay, jitter |-> c.jitter,
                       loss |-> c.loss, queue |-> c.queue, kind |-> c.kind] \in Settings
                   /\ c.smooth \in BOOLEAN

VARIABLES
  stored,     \* self.bw, self.delay, ..., or NotStored
  smooth,     \* smooth_change of the call that runs, as config decided it
  todo,       \* the tc commands of that call that have not run yet
  failed,     \* one of them has printed an error
  tree,       \* the queueing disciplines of the interface
  sound       \* history: see Alike

vars == <<stored, smooth, todo, failed, tree, sound>>

Stock == INSTANCE StockLink

------------------------------------------------------------------------------
NotStored == [kind |-> "unset"]

FirstTimeConfig == stored = NotStored

\* Slip: a change of the kind of discipline is not seen.
RequiresHardResetKind(call) ==
  \/ call.bw = None /\ stored.bw # None
  \/ call.delay = None /\ stored.delay # None
  \/ call.jitter = None /\ stored.jitter # None
  \/ call.loss = None /\ stored.loss # None
  \/ call.queue = None /\ stored.queue # None

RequiresHardReset(call) ==
  \/ call.bw = None /\ stored.bw # None
  \/ call.delay = None /\ stored.delay # None
  \/ call.jitter = None /\ stored.jitter # None
  \/ call.loss = None /\ stored.loss # None
  \/ call.queue = None /\ stored.queue # None
  \/ call.kind # stored.kind

\* Nothing for the test at 362, which looks at no jitter.
NothingToSet(call) ==
  call.bw = None /\ call.delay = None /\ call.loss = None /\ call.queue = None

\* Slip: what is there is cleared for every call.
ClearCmdsAlways(isSmooth) == IF tree.root # "none" THEN <<DelRoot>> ELSE << >>

\* Slip: nothing is ever cleared.
ClearCmdsNever(isSmooth) == << >>

\* The default disciplines are recognised by what tc prints of them.
ClearCmds(isSmooth) ==
  IF tree.root # "none" /\ ~isSmooth THEN <<DelRoot>> ELSE << >>

Shaped(call) == call.bw \in InRange
Parent(call) == IF Shaped(call) THEN "class" ELSE "root"

\* Slip: a class that is new is changed as well.
BwCmdsChange(call, isSmooth) ==
  IF ~Shaped(call) THEN << >>
  ELSE IF call.kind = "tbf" THEN <<AddRoot("tbf", call.bw)>>
  ELSE IF isSmooth THEN <<Class("change", call.kind, call.bw)>>
  ELSE <<AddRoot(call.kind, call.bw), Class("change", call.kind, call.bw)>>

\* A token bucket is added, smooth or not.
BwCmds(call, isSmooth) ==
  IF ~Shaped(call) THEN << >>
  ELSE IF call.kind = "tbf" THEN <<AddRoot("tbf", call.bw)>>
  ELSE IF isSmooth THEN <<Class("change", call.kind, call.bw)>>
  ELSE <<AddRoot(call.kind, call.bw), Class("add", call.kind, call.bw)>>

\* What netem is told: any loss, and nothing if jitter or loss is refused.
NetemArgs(call) ==
  IF call.jitter \in NegativeJitters \/ call.loss \in BadLosses THEN NoNetem
  ELSE [delay |-> call.delay, jitter |-> call.jitter, loss |-> call.loss,
        queue |-> call.queue]

\* Slip: "change", which tc does not have for a netem still to be made.
DelayCmdsChange(call, isSmooth) ==
  IF NetemArgs(call) = NoNetem THEN << >>
  ELSE <<Netem(IF isSmooth THEN "change" ELSE "add", Parent(call), NetemArgs(call))>>

DelayCmds(call, isSmooth) ==
  IF NetemArgs(call) = NoNetem THEN << >>
  ELSE <<Netem(IF isSmooth THEN "replace" ELSE "add", Parent(call), NetemArgs(call))>>

------------------------------------------------------------------------------
\* A smooth change has something of its kind to change if the interface was
\* shaped before and is to be shaped, by something that has a class to change, or
\* neither, and if it does not leave a netem behind. config does not look:
\* RequiresHardReset sees a bandwidth that is taken away, not one that is new,
\* nor a bandwidth, jitter or loss that is going to be refused.
Alike(call) ==
  /\ Shaped(call) <=> Shaped(stored)
  /\ Shaped(call) => call.kind # "tbf"
  /\ NetemArgs(call) = NoNetem => NetemArgs(stored) = NoNetem

\* The interface is made, not configured yet.
Init ==
  /\ stored = NotStored
  /\ smooth = FALSE
  /\ todo = << >>
  /\ failed = FALSE
  /\ tree = Default
  /\ sound = TRUE

\* config, up to the commands.
Config(call) ==
  /\ todo = << >>
  /\ ~(NothingToSet(call) /\ FirstTimeConfig)
  /\ smooth' = (call.smooth /\ ~FirstTimeConfig /\ ~RequiresHardReset(call))
  /\ stored' = [bw |-> call.bw, delay |-> call.delay, jitter |-> call.jitter,
                loss |-> call.loss, queue |-> call.queue, kind |-> call.kind]
  /\ todo' = ClearCmds(smooth') \o BwCmds(call, smooth') \o DelayCmds(call, smooth')
  /\ failed' = FALSE
  /\ sound' = (Readable(NetemArgs(call)) /\ (smooth' => sound /\ Alike(call)))
  /\ UNCHANGED tree

\* The next command; an error is printed and the rest goes on.
Tc ==
  /\ todo # << >>
  /\ todo' = Tail(todo)
  /\ IF Accepts(tree, Head(todo))
       THEN tree' = Effect(tree, Head(todo)) /\ UNCHANGED failed
       ELSE failed' = TRUE /\ UNCHANGED tree
  /\ UNCHANGED <<stored, smooth, sound>>

Next == Tc \/ \E call \in Calls : Config(call)

Spec == Init /\ [][Next]_vars

------------------------------------------------------------------------------
\* No refused value reaches netem.
Args == [delay : Delays \cup {Zero, None}, jitter : Jitters \cup {Zero, None},
         loss : Losses \cup {Zero, None}, queue : Queues \cup {None}]

Commands ==
  {DelRoot} \cup {AddRoot(k, b) : k \in Kinds, b \in InRange}
    \cup {Class(v, k, b) : v \in {"add", "change"}, k \in Kinds, b \in InRange}
    \cup {Netem(v, p, a) : v \in {"add", "replace"}, p \in {"root", "class"},
                           a \in Args}

TypeOK ==
  /\ stored \in Settings \cup {NotStored}
  /\ smooth \in BOOLEAN
  /\ todo \in Seq(Commands) /\ Len(todo) <= 4
  /\ failed \in BOOLEAN
  /\ tree \in [root : Kinds \cup {"none", "netem"}, class : InRange \cup {None},
               netem : Args]
  /\ sound \in BOOLEAN

\* What the arguments ask for.
Asked(call) ==
  IF Shaped(call)
    THEN [root |-> call.kind, class |-> call.bw, netem |-> NetemArgs(call)]
  ELSE IF NetemArgs(call) = NoNetem THEN Default
  ELSE [Default EXCEPT !.root = "netem", !.netem = NetemArgs(call)]

\* emulation_stage/README.md: "The link should not be temporarily
\* unavailable". Through the commands of a smooth change the interface keeps
\* its discipline and a bandwidth at every moment, so that no queued packet
\* is lost (link_smooth.py:370-400).
SmoothKeepsShaping ==
  [][smooth /\ sound /\ todo # << >> /\ tree.root \in Kinds =>
       /\ tree'.root = tree.root
       /\ tree.class # None => tree'.class # None
       /\ tree.netem # NoNetem => tree'.netem # NoNetem]_vars

\* After the last command of a call the disciplines are the ones asked for,
\* by whatever sequence of smooth and hard calls the interface got there, as
\* long as smooth calls do not begin or give up shaping or netem and no jitter
\* comes without a delay. What one that does leaves behind, the next hard call
\* repairs (link_smooth.py:353-400).
ConfiguredAsAsked ==
  todo = << >> /\ stored # NotStored /\ sound => tree = Asked(stored)

\* Under the same condition no command of a call is refused: smooth changes
\* are tried only where there is something of the kind to change
\* (link_smooth.py:366-373).
NoCommandFails == sound => ~failed

\* The calls for which link_smooth.py, even when it clears and builds again,
\* does something else than link_old.py: it goes on where that returns, tells
\* netem of a loss of 0, and refuses a negative jitter.
Departs(call) ==
  \/ Stock!NothingToSet(call)
  \/ call.loss = Zero
  \/ call.jitter \in NegativeJitters /\ call.loss \notin BadLosses

\* A call that is not carried out smoothly issues, command by command, what
\* link_old.py issues, whatever smooth calls came before, for all arguments but
\* those, and for none of those: link_smooth.py takes link_old.py's place in an
\* installation whose other users know nothing of smooth changes
\* (link_smooth.py:291-315 and 359-400, link_old.py:292-311 and 356-382).
HardCallsAreStock ==
  [][todo = << >> /\ todo' # << >> /\ ~smooth' =>
       (todo' = Stock!Commands(tree, stored') <=> ~Departs(stored'))]_vars
==============================================================================
