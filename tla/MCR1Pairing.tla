---------------------------- MODULE MCR1Pairing -----------------------------
(* Two devices, so that one can come too late.                              *)
EXTENDS R1Pairing

CONSTANTS r1, spare
=============================================================================
