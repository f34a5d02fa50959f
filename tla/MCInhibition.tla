---------------------------- MODULE MCInhibition ----------------------------
(***************************************************************************)
(* Files over two satellites, each of which serves both users, so that a   *)
(* handover takes both users' links down, on one switch.                   *)
(***************************************************************************)
EXTENDS Inhibition

TwoSatellites == {<<1>>, <<2>>}

\* The file's own numbers, and a file that lost its third line: reports for a
\* cycle that is not played.
NumbersInOrder == {[k \in Lines |-> k + 1],
                   [k \in Lines |-> IF k < 2 THEN k + 1 ELSE k + 2]}

\* In halves of a frame: half a frame late, or half, one and a half and two and
\* a half frames early.
EarlyAndLate == {[k \in Lines |-> <<1, -1, -3, -5>>[1 + (k % 4)]],
                 [k \in Lines |-> <<-1, -1, 1, -3>>[1 + (k % 4)]]}
=============================================================================
