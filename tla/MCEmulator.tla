----------------------------- MODULE MCEmulator -----------------------------
(***************************************************************************)
(* Files of a few lines over a few routes: routes that share one gateway,  *)
(* both, or none, detours in the middle, and a route that is a suffix of   *)
(* another one.                                                            *)
(***************************************************************************)
EXTENDS Emulator

\* The file's own numbers, and a file that lost its second line.
MCNumberings == {[k \in Lines |-> k + 1],
                 [k \in Lines |-> IF k = 0 THEN 1 ELSE k + 2]}
InOrder == {[k \in Lines |-> k + 1]}

RoutesOfThree == {<<1, 2, 3>>, <<1, 4, 3>>, <<1, 3>>, <<3>>}

\* In quarters of a frame: half a frame late, a half, one and a half and two
\* and a quarter frames early, and exactly one frame, in two orders over the
\* lines.
AsMeasured == {[k \in Lines |-> <<2, -2, -6, -9>>[1 + (k % 4)]],
               [k \in Lines |-> <<-2, -6, 2, -4>>[1 + (k % 4)]]}

\* Every report half a frame of four early.
HalfFrameEarly == {[k \in Lines |-> -2]}
==============================================================================
