--------------------------- MODULE RetryTimersMC ---------------------------
(* Small instances of RetryTimers for TLC.                                 *)
EXTENDS RetryTimers

CONSTANTS e1, e2
=============================================================================
