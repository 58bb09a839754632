--------------------------- MODULE StreamChannelMC ---------------------------
(* Small instances of StreamChannel for TLC.                                 *)
EXTENDS StreamChannel, TLC

CONSTANTS w1, w2, r1, r2

\* Threads of one kind are alike; used by the runs without liveness only.
ThreadSymmetry == Permutations(Writer) \cup Permutations(Reader)
=============================================================================
