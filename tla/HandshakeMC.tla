----------------------------- MODULE HandshakeMC -----------------------------
(* The instance of Handshake that TLC checks; its bounds are in the          *)
(* configuration.                                                            *)
EXTENDS Handshake
=============================================================================
