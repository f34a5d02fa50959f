---------------------------- MODULE MCReportRelay ----------------------------
(***************************************************************************)
(* What the stack of the spinning thread may hold before its first sample. *)
(***************************************************************************)
EXTENDS ReportRelay

\* A page that was never written to.
FreshStack == {0}

\* Bytes that read as a time in the future.
UsedStack == {0, MaxTime + Duration + 1}
==============================================================================
