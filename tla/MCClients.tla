------------------------------ MODULE MCClients -----------------------------
(* Values for the constants of Clients that a .cfg cannot write.            *)
EXTENDS Clients

CONSTANTS r1, r2

\* Two chunks each, one with three.
MCPartCount == [r \in Requests |-> IF r = r1 THEN 3 ELSE 2]
=============================================================================
