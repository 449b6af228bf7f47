----------------------------- MODULE HistoryLog -----------------------------
(***************************************************************************)
(* What the dispatcher promises its clients about the shared conversation  *)
(* history, with no file, no semaphore and no process in it: a turn that   *)
(* the model answers is appended to one log in a single step, the log is   *)
(* pruned to the token budget in that same step, and nothing else touches  *)
(* it.  Once something has gone wrong the log can also be forgotten as a   *)
(* whole, or a turn be missing from it; it is never altered otherwise.     *)
(* Turns that worked on the history at the same time void what is said of  *)
(* the log, and only that: the outcome of a turn is still decided once.    *)
(***************************************************************************)
EXTENDS Sequences

CONSTANTS Turns,      \* the turns that clients submit
          Prune(_)    \* what is kept of a log that has just grown

VARIABLES log,        \* the turns that the next turn is answered with
          outcome,    \* per turn: "pending", "recorded" or "closed"
          faulty,     \* has a crash or a failing file access happened?
          shared      \* have two turns worked on the history at a time?

vars == <<log, outcome, faulty, shared>>

Init == /\ log = <<>>
        /\ outcome = [t \in Turns |-> "pending"]
        /\ faulty = FALSE /\ shared = FALSE

\* The model answered turn t: its pair joins the log at once.
Record(t) ==
  /\ outcome[t] = "pending"
  /\ outcome' = [outcome EXCEPT ![t] = "recorded"]
  /\ \/ log' = Prune(Append(log, t))
     \/ faulty' /\ log' \in {log, <<>>}
     \/ shared'

\* The turns of D are refused, cancelled, answered with an error, or die with
\* their process.
Close(D) ==
  /\ \A t \in D : outcome[t] = "pending"
  /\ outcome' = [t \in Turns |-> IF t \in D THEN "closed" ELSE outcome[t]]
  /\ \/ log' = log
     \/ faulty' /\ log' = <<>>
     \/ shared'

\* Something can go wrong in any step, or in one that changes nothing else.
Next == /\ \/ \E t \in Turns : Record(t)
           \/ \E D \in SUBSET Turns : Close(D)
        /\ faulty' \in {faulty, TRUE}
        /\ shared' \in {shared, TRUE}

Spec == Init /\ [][Next]_vars

=============================================================================
