---------------------------- MODULE MCDispatcher ----------------------------
(* Values for the constants of Dispatcher that a .cfg cannot write.         *)
EXTENDS Dispatcher

CONSTANTS t1, t2, t3, t4, serve, cli

\* One server handles every turn.
MCAllServe == [t \in Turns |-> serve]
\* t1 is a `dispatch` command, the others come to the server.
MCOneCli == [t \in Turns |-> IF t = t1 THEN cli ELSE serve]

\* Two small turns, a larger one and, with four turns, one that no budget fits.
MCSize == [t \in Turns |-> CASE t = t1 -> 1 [] t = t2 -> 1 [] t = t3 -> 2 [] OTHER -> 9]
=============================================================================
