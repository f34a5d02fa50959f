# LeoEM in TLA+

LeoEM plays a satellite network back on a Linux machine. A *route stage*
(Python) turns satellite positions into one line per second, the route between
two users; an *emulation stage* (Python, Mininet) plays the lines back on a
chain of software switches, and tells a modified TCP (SaTCP: C, a user-space
relay and a kernel module) about handovers that are coming. This directory
holds the state machines of those parts, the model checking runs and the
machine-checked proofs about them. Source paths below are relative to `src/`.

## Inventory

| Component | State it keeps | Operations | Interacts with |
|---|---|---|---|
| Gateway selection (`route_stage/precompute_path_15s_isl.py`, `_bp.py`, `utility.py`) | the two users' gateways with their latencies, two interval counters | one cycle: read the sky, decide (scheduled, forced, fallback), write a line | writes the file the emulator reads |
| Link delta (`emulator.py:118-145`) | the cursor into the old route, `handover_arr` | `compute_link_delta` | called by both loops of the playback |
| Handover phase (`emulator.py:68-94, 334-361`) | two groups of links, pool threads, interface states, the shells of the switches | group, three pools with joins, one thread per link: down, down, up, up | one phase per cycle of the playback |
| Playback (`emulator.py:215-388`) | routes read, globals `current_`/`last_routing_path` and delays, prepared `handovers`, link delays, the clock | prepare, play a cycle with or without a route, report, hand over, reconfigure, sleep | sends reports by UDP, configures interfaces |
| Report relay (`satcp/report_relay.c`) | status, timestamp, a netlink message, a mutex, the socket | two threads: start signal, over signal; started and stopped by the user | receives reports, sets the kernel's flag by netlink |
| SaTCP's CUBIC (`satcp/tcp_cubic.c`) | `struct bictcp` per connection, `handover_status` for the host | the hooks of `tcp_congestion_ops`, the netlink receiver | the kernel's TCP calls it |
| Interface configuration (`Mininet_config/link_smooth.py`, and `link_old.py`, which it replaces) | what was last asked for, the queueing disciplines | `config` with `smooth_change` or a hard reset, then its `tc` commands | `set_link_properties` of the playback |
| Learning switch (`Mininet_config/learning_switch.py`) | a table per switch, flows in the switches | packet-in, connection up | the chain the playback breaks and mends |

Not modelled: the MATLAB scripts (`StarPerf_MATLAB_stage`,
`satcp/report_timing_error`: numerics around an orbit simulator, no protocol),
`satcp/satcp.patch` (a diff against a file that is not in the repository), the
precomputed data and the printing scripts under `__tests__`. Of
`Mininet_config/link_old.py`, Mininet's original that LeoEM's `link_smooth.py`
takes the place of, the commands of `TCIntf.config` are modelled; the rest of
both files makes, renames and deletes interfaces when Mininet starts and stops,
is Mininet's own, and nothing of LeoEM depends on its order. RED and ECN, which
nothing in the repository switches on, are left out of `config`.

What is hard here: threads that share switches (playback) or a message and a
mutex (relay); a clock compared before it is read; reports drawn early or late,
played against cycles that overrun; state that outlives its reason (globals of
the preparation loop, gateways and latencies of former cycles, flows without
timeout, credit of a former count); decisions made twice in two pieces of code;
commands whose success depends on the history of an interface.
`PROJECT.json` lists each hazard at its line with the properties that cover it.

What makes each part correct: a route is found when there is one, handoffs are
neither needless nor too frequent; a mark is a new link, no mark is no change;
each planned break is carried out, never two at one switch; the network is what
the file says and reports are true, single and on time; the inhibition lasts
its duration and ends; the window grows no faster than promised with a usable
count; a smooth change does what was asked without dropping the shaping;
learned ports lead home and no packet is doubled or forgotten. Of all parts
together: the congestion control is held still while a handover takes its links
down, and only then.

## Modules

| Module | Stands for | Remarks |
|---|---|---|
| `LinkDelta` | `compute_link_delta` as an operator | `handover_arr` is the set of its ones; index -1 and the empty list are Python's |
| `LinkDeltaScan` | the same loop, one iteration per step | extends `LinkDelta`; the form that is proved about |
| `LinkBreaks` | abstract: planned links are broken and restored once, never two that share a switch | implemented by `HandoverPools` |
| `HandoverPools` | grouping loop, pools, threads, `ifconfig` commands | Mininet refuses a command while the shell of the node is busy |
| `Emulator` | both loops of `update_precomputed_link` | composes `HandoverPools` (INSTANCE, its phase runs inside a cycle) and `LinkDelta` |
| `InhibitionTimer` | abstract: a report starts or renews the inhibition, it ends only after the duration or with its relay | implemented by `ReportRelay` |
| `ReportRelay` | both threads at the grain of lock, write, send; the emulator's datagrams; the kernel's flag; restarts | `sample` is the variable that is compared before it is filled |
| `Inhibition` | the playback, its report threads and the relay on one running clock | composes `Emulator` (EXTENDS) with `InhibitionTimer` (INSTANCE), which `ReportRelay` implements |
| `GatewayHandoff` | a cycle of the route scripts | the graph is reduced to which satellites are connected; a step reads the sky, a step decides and writes |
| `TrafficControl` | the arguments of `config`, the `tc` commands and what they do | extended by the next two; what the kernel does with a command is external |
| `StockLink` | the commands of Mininet's own `TCIntf.config` | operators, all from `link_old.py` |
| `SmoothLink` | `TCIntf.config` and each `tc` command | all from `link_smooth.py`, nothing shared with `StockLink`, which it instantiates as `Stock` to be compared with; `Alike` says which smooth calls have something to change, `Departs` where the two files differ |
| `CubicTcp` | all hooks of the congestion control and the flag | the root is exact, the scale is one factor; the kernel's share (loss states, undo, `tcp_current_ssthresh`, the windows it takes back after idle or when they are not used) is external |
| `LearningSwitch` | packet-in, learning, connection up over the chain of `MyTopo` | tables of switches, wires and POX's clearing of flows are external |

`MC*` modules hold the instances. In every module the variables keep the names
of the program's, and an action is the whole handler. Definitions commented
"Slip" are plausible programming errors, one for each property; they are used
by no specification and serve to see that the property would notice.

How state and code correspond, where it is not by name: in `HandoverPools`
`thread[l]` and `count[l]` are the worker of link `l` and how many of its four
commands are through, `up[<<l, side>>]` the interface on that side; in
`Emulator` a delay `<<k, h>>` is `node_delay[h]` of line `k`, `pc` the place in
`update_precomputed_link`, and time is counted in ticks, `Frame` to a cycle; in
`ReportRelay` `starter` and `finisher` are the places of the two threads; in
`GatewayHandoff` `FirstPick` and `FinalPicks` are the two halves of the
decision; in `SmoothLink` `todo` is the list of commands `config` has built; in
`Inhibition` `now` runs where `Emulator` only computes `clock`, the time at which
a cycle begins. The variables that no program has (`age1`, `age2`, `missed1`,
`missed2`, `unwatched`, `sound`) are histories: no guard looks at them.

## Runs

Nine runs pass; three show a disagreement. Distinct states in parentheses.

| Run | Instance | What it shows |
|---|---|---|
| `link_delta_scan` | all pairs of loop-free routes over 4 nodes (16 900) | marks are new links; no mark between the same gateways means the same route; no exception for those calls |
| `handover_pools` | 8 switches, every set of marks and end handovers (24 193) | no two live threads at one switch, nothing cut short or left down, implements `LinkBreaks`, the phase ends |
| `emulator` | files of 4 lines, 4 routes or none, 5 switches, right and wrong line numbers, two lists of predictions, overruns, cycles without a route that last longer (449 144) | see below |
| `inhibition` | files of 4 lines over 2 satellites, 3 switches, right and wrong line numbers, two lists of predictions, overruns, duration of two and a half frames (992 846) | see below |
| `report_relay` | duration 2, clock to 8, 3 reports, 1 restart (28 161) | flag and status agree, never cleared early, implements `InhibitionTimer`, cleared in the end, every report relayed unless its thread starves |
| `gateway_handoff` | 3 satellites at 3 offsets from each user, every split of the network, interval 2 (612 104) | no route missed, no needless handoff, what a line says of a user's link is no older than the interval |
| `smooth_link` | 2 bandwidths in range, one out of range or none; 11 choices of delay, jitter, loss and queue, with zeros and refused values; 3 kinds, smooth or not (8 805) | disciplines are those asked for, no command is refused, smooth changes keep the shaping, hard calls are Mininet's but where `Departs` says |
| `cubic_tcp` | window to 8, 5 packets acknowledged, 2 losses, clock to 5 (3 500 420) | counts are usable, epochs are not in the future, growth is at most one per two, slow start is watched but for the named exceptions, the last maximum fits the window an undo restores |
| `learning_switch` | 2 switches, 4 packets, 1 break, 2 connections (70 093) | learned ports lead home, one copy of each packet, which arrives or is dropped |
| `report_relay_stack` | as `report_relay`, with a stack that holds a large value | the first inhibition is ended at once |
| `emulator_crash` | files of 2 lines | an IndexError ends the playback |
| `gateway_not_closest` | a satellite beside and one above the user | the one further away is taken |

`emulator`: while a cycle sleeps the interfaces and delays are those of its
line (`NetworkFollowsFile`); the list prepared beforehand is what happens, but
for the first line (`PredictionsMatch`); a report is single and true
(`ReportsAreTrue`); it is never later than drawn, and earlier at most by what the
cycles that it was waited for may take beyond their frames (`ReportsOnTime`);
it is sent for exactly the handovers that have a window
(`HandoversAreReported`); and the playback ends. A cycle with a route takes more
than a frame when its work does; one without a route always does, as
`emulator.py:293` sleeps the whole frame after the work, which lines 384-388
deduct elsewhere. `MaxBusy` and `MaxCut` bound the two kinds of work, `Excess`
and `MayLose` count both.

`inhibition`: while a link of a handover is down the flag is set, from the time
its report was planned for until the duration has passed (`InhibitionCovers`);
the flag is set only after the report of a line whose route is not the one before
it, only for the duration, and that report came no later than drawn and no
earlier but for `Lost` (`InhibitionIsDue`); it is cleared for good in the end,
also when the program ends with reports still waiting (`InhibitionEnds`). A
report that was drawn before cycles that take longer than a frame comes early by
what was lost, and `Lost` bounds it. The chain is the shortest, where both users' links end
in one switch: one end handover can be refused there, never both
(`SomeHandoverCompletes`).

### Bounds, and why they are enough

* Routes: four nodes give every order of kept, dropped, inserted and swapped
  nodes around a cursor; the proofs lift the bound.
* Chain: eight switches have five links between satellites, so groups with three
  members and runs of adjacent links of every length up to five occur. The
  phase does not otherwise depend on the length, and the proof lifts the bound.
* Files: the code looks at a line, its predecessor and the last valid line; four
  lines have a lost and regained route with a line before and after. The third
  reporting window needs a report three lines ahead: the fourth line has one.
  In frames of four ticks the predictions 2, -2, -6 and -9 are late and fall into
  each of the three early windows, and -4 is the edge between two of them; they
  come in two orders, as a window needs as many lines before it. The work of a
  cycle is up to five ticks, one more than the frame; that of a cycle without a
  route, whose whole length is in excess, up to one (`MaxCut`).
* Inhibition: the earliest prediction is two and a half frames, so a report
  waits through cycles that may each overrun, while another is sent; the
  duration is longer than two cycles and shorter than the file, so inhibitions
  renew, run out in between, and outlive the program.
* Relay: three reports renew a running inhibition, arrive while one ends, and
  follow one that has ended. The clock outlasts each of these.
* Gateways: one satellite for each user and one to change to; interval 2 has a
  counter below, at and after its end for both users out of step. Ages are
  counted to two beyond the interval, which is where a missed turn is seen.
* Interfaces: two bandwidths and delays tell a change from what was there; a
  queue without a delay makes a netem of its own. Delay, jitter and loss are
  given, changed, taken back, zero and refused, alone and together; a jitter
  without a delay is one that `tc` cannot read.
* CUBIC: two losses have a maximum below the last one (fast convergence), five
  packets go from slow start through an epoch. `Factor`, `Clamp` and the times
  are small because the cubic term must fit TLC's integers.
* Switch: two switches make learning at one depend on the broadcast by the
  other; a packet each way has both directions' tables, a fourth cannot be parsed.

Deadlock is checked where the program goes on for ever (relay, pools, CUBIC,
interfaces, gateways); it is switched off where the program ends or the packets
run out (link delta, playback, inhibition, learning switch). The gateway runs treat the
satellites as interchangeable, which they are: no definition tells them apart.

### Fairness

* `HandoverPools`: weak fairness of `Step`, the main thread and the pool's
  threads taken together: the interpreter always runs something that can run.
* `Emulator`: weak fairness of `Next`: it is one process whose sleeps and joins
  return.
* `Inhibition`: weak fairness of the playback, of the report threads while the
  program runs (they are daemons, afterwards a report may be sent or not), of the
  relay's end of an inhibition and of the clock. Time does not pass over a report
  that is due or an inhibition that is over: the relay spins and a report's thread
  wakes at its time, both within a tick, and a cycle's work takes up to `MaxBusy`.
* `ReportRelay`: weak fairness of the clock and of each thread, and nothing of
  the mutex: `pthread` does not promise that a thread which waits for it gets it.
  The over thread unlocks and locks in a loop, so the mutex is free again and
  again but not for good, and a report may wait for ever. `RelayedUnlessStarved`
  says that this is all that can keep it back. It is also why strong fairness of
  `StartLock` would be enough, and weak fairness is not.
* `LearningSwitch`: weak fairness of each wire, switch connection and host; the
  emulator's breaks and reconnections happen or not.

## Proofs

Eight modules of proofs, checked with TLAPS for all values of the constants.
Every invariant and every action property of the passing runs is a theorem there.

`LinkDeltaScan_proofs` (any nodes, any simple routes). The inductive invariant
is `IInv`. `CursorFollows` says that after a common node the cursor is one past
it; from it follows that a mark set because the index differs is a new link
(`MarksAreNew`). `UnmarkedIsCommonPrefix` says that the routes agree while
nothing is marked; at the end, with the same egress, they are equal
(`NoMarkMeansSame`) - the egress node ends both, and nodes do not repeat.
`NeverRaises` uses both: with one node in the new route and the ingress kept the
only iteration marks nothing. Assumption: `PathsAreSimple`. `LoopIsFunction` joins
the loop to the function `ComputeLinkDelta` that the playback's model calls: what
the loop leaves is what the function returns. An induction over the length is in
it, and in `FindsChanges` (the function marks something between two routes with
the same gateways if and only if they differ); as the provers cannot take an
operator for an argument, it is an argument about the least length that fails
(`Least`, `AllOf`), and that the recursive function exists is shown by giving the
list of its values (`ScanExists`).

`HandoverPools_proofs` (any chain of three or more switches). The properties are
not inductive: that no two live threads are neighbours needs what the groups
contain (`Grouping`: members of group 1 are never neighbours, a member of group 2
follows one of group 1) and who may live in which phase (`Staging`); that an ended
thread has done all its work needs that it was never refused, which is the first
again (`Progress`). `NodesNotShared`, `NothingLost` and `Implements` are for a
`LongChain` of four or more switches. `ImplementsLinkBreaks` is shown step by step:
a thread's first command is `Break`, its last `Restore`, the rest stutters. On
three switches these three are false, as both ends meet in one switch. What is left
of them there is `SomeComplete`: where a handover was cut short, the one of the
other end is still running or has been carried out (`Company`).
`SplitIsComplete` is the grouping loop's own promise.

`Emulator_proofs` (any file, routes, predictions, overruns, chain and duration).
`EInv` is what the main thread knows at each place of the loop: which line it is
at (`Position`), what `current_` and `last_routing_path` and the delays hold, lines
without a route skipped (`PathKept`), that the list of handovers made so far is the
one the file plans (`ListMade`), how long a cycle lasts (`ClockKept`), and in
which window each report was started (`ReportsKept`, `AllReported`). The handover
phase is taken over from `HandoverPools_proofs` with its invariant (`PhaseKept`), so
nothing of the threads is proved twice. `NetworkIsFile` needs all but the reports:
a cycle breaks what has changed since the last line that was valid, and the
interfaces that the joined phase leaves up, with the delays set since, are the
line's. `PredictionsHold` compares two loops that decide the same thing from
different variables. `ReportsTrue` follows from which window a report was drawn in:
the three early windows and the late one are disjoint. `ReportsPunctual` adds the
times of the cycles up (`ClockKept`).
A cycle's length and so the earliness of a report is added up in `CycleLasts`, for
cycles with a route and without.
`HandoversCovered` and `InhibitionsDue` are about `Inhibition`, playback and relay
together. To the playback's invariant `RelayInv` adds that no report is left
waiting when its time has passed (`Punctual`), that one is
sent only when it is due (`Sending`), and that the flag holds as long as the
last report says (`Holding`). That the line of a report has a new route
(`RouteChanges`) is again what the list of handovers says (`PlannedIsChange`). `Lost` counts whole cycles, so the proof needs that a
report is started at most as many cycles early as its shift reaches into. Assumptions:
`ParametersAreSane`, `DurationIsTime`, and of shortest paths that a route visits
no satellite twice (`RoutesAreSimple`). Of the last it follows that
the list has a handover for exactly the lines whose route has changed
(`HandoverIsRouteChange`), and that the IndexError of the run `emulator_crash` can
come at one place only: in the second loop, where a gateway changes and the new
route is one satellite (`CrashesAreOneSatellite`). For the function of the links both
use the lemmas of `LinkDeltaScan_proofs`.

`ReportRelay_proofs` (any duration, any bounds, restarts included). The
invariant adds to mutual exclusion and the message's integrity that a thread on
its way to "0" has seen the duration pass (`Deciding`) and how the flag lags the
status in between (`FlagInProgress`). Assumption `StackIsPast`: what the stack
holds before the first sample is no time to come. It is needed: the run
`report_relay_stack` drops it.

`CubicTcp_proofs` (any window, scale, round trips and number of losses). The
invariant is that shape, count and epoch are right together: `tcp_cong_avoid_ai`
divides by the count, so the window stays one only if the count is at least two,
and the count was at least two because an early return needs the window of a
former update (`UpdateSound`). `Remember`, `Shift` and `Reset` keep it. With that
`AvoidGrowth` bounds the growth of window and credit, which gives `RateBounded`.
That a slow start which HyStart does not watch has one of the named causes
(`SlowStartWatched`, for a low window of two or more, as the program's is) needs
where the window stands to the threshold in each loss state (`WatchInv`), also
after the windows that the kernel takes back without asking CUBIC. `MaximumFits`
needs no more than the types: a cut remembers a maximum between what fast
convergence makes of the window that is saved and that window (`RememberFits`), and until
the kernel is back in its open state a further cut replaces both or neither.
Assumption: `ScaleIsSane`. The cube root is defined as a number of elements, which needs no induction to reason about.

`GatewayHandoff_proofs` (any constellation, offsets, reach and interval). The
invariant ties each counter to what it counts (`Counted`): a gateway is as old as
its counter says, older only if a turn was missed. So an age beyond the interval
means a missed turn, which gives `LatencyRecent`, and a full counter means that
the interval was served, which with `PickSides` (when a user is given a new
gateway at all) gives `HandoffNeeded`. `RouteFound` needs the types only: the
fallback looks at every pair in view.

`SmoothLink_proofs` (any bandwidths, delays, queues and calls). That a command is
accepted depends on what the commands before it did, so the invariant looks
ahead: `Left` says that the commands of the call that have not run will all be
accepted, one after the other, and leave what was asked for. `Built` shows it of
a call on a cleared interface; the change of one that is shaped alike needs that
the disciplines are those of the call before, which is `Left` with nothing left. At the last command it gives `AskedIsConfigured`, at each
command `CommandsSucceed`. `SmoothIsGentle` is of the single steps: the commands of
a smooth call that are left (`Handled`) change the class or replace the netem
below it, and none deletes. `HardIsStock` compares the two files, which share no
definition but the commands: the netem arguments agree for exactly the calls
outside `Departs` (`NetemEqual`), and lists of commands that begin alike are equal
only if the rest is (`Cancel`, `Joined`), so that a difference is not made up for
elsewhere (`HardCommands`). Assumptions: `NoneIsNoValue`, `CallsAreArguments`.

`LearningSwitch_proofs` (any chain, packets, breaks and reconnections). A learned
port points home only if no packet ever turns round, so the invariant says where
every packet is going: away from its sender on each wire (`OnTheWay`), asked about
at the port towards its sender (`Asked`), ordered out of the other
(`Ordered`). A broadcast keeps that because a switch of the chain has two ports,
a flow because it was learned from the other host's packets. `OneCopyOfEach` needs
more than the sum in `OneCopy`: `Counted` says that every packet that was sent is
once in one of the places (wires, packet-ins, orders, hosts, the lost) and in no
other, so that of a step only what it does to the one or two queues it touches is
left to prove. Assumption:
`PacketsAreSane` (nobody sends to itself or from the broadcast address).

Only model-checked: liveness (`PhaseEnds`, `PlaybackEnds`, `InhibitionEnds`,
`FlagIsCleared`, `RelayedUnlessStarved`, `EndsSomewhere`), which is beyond the
prover, and the three disagreements below, which are shown by a counterexample.

## Disagreements between the code and what is said of it

Shown by a run:

1. `report_relay.c:77` computes `current_time` from `current_tv` before line 78
   fills it. The first comparison reads the stack, later ones the iteration
   before. (`report_relay_stack`)
2. `emulator.py:137` writes `handover_arr[-1]` of an empty list when the first line's
   route is over one satellite that stands later in the path which the
   preparation loop left behind. (`emulator_crash`)
3. `utility.py:51` adds the y difference twice and never z. (`gateway_not_closest`)

Noticed while modelling, and in the models as the code has it:

* `emulator.py:137` with `i = 0` on a longer list marks the last link, which both
  routes may have, against the comment at 125 (hence `StartsClean` in
  `MarksAreNewLinks`). The comment's example at 120-123 has two marks, the code sets three.
* `emulator.py:361`: with one satellite both end handovers alter interfaces of
  the same switch, against the comment at 340.
* `emulator.py:269-284`: the windows are open intervals: predictions early by
  exactly one, two or three frames, by more than three, or by more frames than
  cycles have passed, are not reported. `HasWindow` says which are.
* `emulator.py:293`: a cycle without a route sleeps a whole frame on top of its work,
  so each makes the playback late by that work, and the reports that are waited
  for across it as much too early.
* `emulator.py:232`: the first line's handover is prepared as none, and both
  users are handed over in the first cycle that has a route.
* `emulator.py:245`: the playback starts from the paths the preparation leaves,
  and its first cycle breaks links against them.
* `report_relay.c:112`: a relay that is started again does not clear a flag its
  predecessor left set; it stays until the next inhibition ends.
* `precompute_path_15s_isl.py:125`: a gateway that has left its user's view is
  kept while the satellites are connected with each other.
* `precompute_path_15s_isl.py:187`: a user's link carries the latency of the
  cycle that chose the gateway. `LatencyIsRecent` says how old it can be.
* `precompute_path_15s_isl.py:173`: the counter is compared before it is
  advanced: an undisturbed gateway serves sixteen cycles, where the comment at
  118-124 has 15 second intervals. At 134, a forced handoff of one user in the
  cycle in which the other's counter is full starts the other's interval again
  without a selection: `missed1` and `missed2` stand for it.
* `link_smooth.py:326`: a smooth change that adds the first bandwidth changes a
  class that is not there. At 237, one whose bandwidth is out of range puts the
  netem in place of the shaping. A smooth token bucket, which the file says is
  not supported, is added to one that is there. `Alike` names these calls; the
  interface is as asked for again after the next hard call.
* `link_smooth.py` and `link_old.py` differ in more than the smooth change
  (`Departs`): a later call that sets nothing clears what is there (361-363), where
  the other returns (358, which takes a 0 for nothing too); a loss of 0 is given to
  netem (306), there only one above 0 (303); a negative jitter is refused (297),
  there it is not looked at.
* `link_smooth.py:297`: a refused jitter or loss leaves no netem command, so a smooth
  call leaves the netem of the call before. At 305, a jitter without a delay makes a
  command that `tc` cannot read, in both files.
* `tcp_cubic.c:410` against the comment at 429: during a handover a timeout still
  replaces the last maximum and cuts the slow start threshold, only the reset is
  left out. In a window of 8 a last maximum of 100 becomes 6: what is not forgotten
  is at most the window before the timeout (`MaximumFitsUndo`). At 281 the early
  return does not look at `epoch_start`, against the comment at 286-287: a cut that
  leaves the window as it was at the last update keeps the old count for `HZ/32`.

## Plan

Order of the modules, most important behaviour first: link delta, handover
phase, playback, relay, gateways, interfaces, CUBIC, switch, and the playback
with the relay. All are there. Next:

1. `ReportRelay` in the place of `InhibitionTimer` in `Inhibition`: the timer's
   properties proved from the two threads.
2. HyStart's rounds (`tcp_cubic.c:440-488`), which `CubicTcp` reduces to the
   moment they end slow start.
3. An abstract network ("the line in force") that `Emulator` implements, and an
   abstract switch ("one copy on its way home") for `LearningSwitch`.
