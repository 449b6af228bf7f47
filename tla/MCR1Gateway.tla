---------------------------- MODULE MCR1Gateway -----------------------------
(* Values for the constants of R1Gateway that a .cfg cannot write.          *)
EXTENDS R1Gateway

CONSTANTS c1, c2

\* Two chats with a request that is answered at once between them, and, when
\* there are four frames, one that is ignored.
MCMixed == [f \in Frames |-> CASE f = 2 -> "quick" [] f = 3 -> "other" [] OTHER -> "chat"]
=============================================================================
