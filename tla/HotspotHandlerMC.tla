--------------------------- MODULE HotspotHandlerMC ---------------------------
(* Small instances of HotspotHandler for TLC.                                 *)
EXTENDS HotspotHandler

CONSTANTS e1, e2, s1, s2
=============================================================================
