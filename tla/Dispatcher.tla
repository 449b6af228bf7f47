----------------------------- MODULE Dispatcher -----------------------------
(***************************************************************************)
(* internal/core/dispatcher.go and history.go: the life of a turn, from    *)
(* the access check to the reply, and the history file that all turns      *)
(* share.  A turn runs in a goroutine of its process: the server (`serve`, *)
(* whose clients all share one Dispatcher) or a one-shot `dispatch`        *)
(* command, which builds a Dispatcher of its own over the same file.       *)
(*                                                                         *)
(* A step of a turn ends where another goroutine, another process or a     *)
(* crash can come between: at the semaphore, at each system call on the    *)
(* history file, and at the call of the model.  History.Save is two steps, *)
(* because os.WriteFile first truncates the file and then writes it.       *)
(* A user message and its answer always travel together, so a stored       *)
(* history is a sequence of turns.                                         *)
(***************************************************************************)
EXTENDS Integers, Sequences, FiniteSets, Functions

CONSTANTS
  Turns,        \* every turn that some client will submit
  Procs,        \* operating-system processes sharing one state directory
  ProcOf,       \* [Turns -> Procs]: the process that serves a turn
  Admitted,     \* the turns that Access.Allowed lets in
  Concurrency,  \* config.Concurrency, validated by config.Load
  TokenBudget,  \* config.TokenBudget; config.Load accepts a negative one
  Size,         \* [Turns -> Nat]: estimated tokens of a turn's two messages
  MaxFaults     \* bound on crashes and failing accesses of the history file

ASSUME ConstantsAssumption ==
  /\ ProcOf \in [Turns -> Procs]
  /\ Admitted \subseteq Turns
  /\ Concurrency \in Nat \ {0}
  /\ TokenBudget \in Int
  /\ Size \in [Turns -> Nat]
  /\ MaxFaults \in Nat

VARIABLES
  pc,      \* per turn: where it is in Dispatch
  view,    \* per turn: its local `history`, as History.Load returned it
  reply,   \* per turn: what Dispatch returns, decided before the slot is given back
  sem,     \* per process: slots taken in the semaphore channel
  file,    \* the history file
  up,      \* per process: is it running?
  faults,  \* crashes and failing file accesses so far
  overlapped  \* history: has a turn loaded the history while another worked on it?

vars == <<pc, view, reply, sem, file, up, faults, overlapped>>
-----------------------------------------------------------------------------
(* The history file and the operations of History.                         *)

\* "torn": just truncated, no bytes.  "mixed": bytes that are no JSON array,
\* left by a failed write or by two writes on top of each other.
Absent == [kind |-> "absent", msgs |-> <<>>]
Torn == [kind |-> "torn", msgs |-> <<>>]
Mixed == [kind |-> "mixed", msgs |-> <<>>]
Whole(h) == [kind |-> "whole", msgs |-> h]

FileStates == [kind : {"absent", "torn", "mixed", "whole"}, msgs : Seq(Turns)]

\* What History.Load makes of the file: a missing file and one that does not
\* parse are both "starting fresh".
Parsed == file.msgs

Weight(h) == FoldFunction(+, 0, [i \in DOMAIN h |-> Size[h[i]]])

\* History.Prune: drop the oldest pairs until the rest fits; nothing fits a
\* negative budget.
Fits(h) == {k \in 0 .. Len(h) : Weight(SubSeq(h, k + 1, Len(h))) <= TokenBudget}
Prune(h) ==
  IF Fits(h) = {} THEN <<>>
  ELSE LET k == CHOOSE k \in Fits(h) : \A j \in Fits(h) : k <= j
       IN  SubSeq(h, k + 1, Len(h))

\* Slip: prunes the loaded history and then appends.
PruneThenAppend(t) == Append(Prune(view[t]), t)

\* Slip: appends to the file as it is now, and not to what the model was given.
AppendToFile(t) == Prune(Append(Parsed, t))

\* What turn t saves: its own pair after the history it loaded.
Updated(t) == Prune(Append(view[t], t))

\* Writing h from offset 0.  Over a file that another Save filled since this
\* one truncated it, a tail of the longer content may stay behind; which one
\* is longer in bytes is left open.
Overwrite(h) ==
  IF file \in {Torn, Whole(h)} THEN {Whole(h)} ELSE {Whole(h), Mixed}
-----------------------------------------------------------------------------
Places == {"idle", "wait", "admitted", "calling", "saving", "writing",
           "leaving", "done", "killed"}
Holding == {"admitted", "calling", "saving", "writing", "leaving"}
\* Between its load of the history and the end of its save.
Working == {"calling", "saving", "writing"}
Replies == {"none", "denied", "cancelled", "error", "ok"}

Holders(p) == {t \in Turns : ProcOf[t] = p /\ pc[t] \in Holding}

Init ==
  /\ pc = [t \in Turns |-> "idle"]
  /\ view = [t \in Turns |-> <<>>]
  /\ reply = [t \in Turns |-> "none"]
  /\ sem = [p \in Procs |-> 0]
  /\ file = Absent
  /\ up = [p \in Procs |-> TRUE]
  /\ faults = 0 /\ overlapped = FALSE

At(t, place) == up[ProcOf[t]] /\ pc[t] = place
Goto(t, place) == pc' = [pc EXCEPT ![t] = place]
Answer(t, r) == reply' = [reply EXCEPT ![t] = r]

\* A fault of the environment, within the bound.
Fault == faults < MaxFaults /\ faults' = faults + 1
-----------------------------------------------------------------------------
(* Dispatch, step by step.                                                 *)

\* Access check.
Arrive(t) ==
  /\ At(t, "idle")
  /\ IF t \in Admitted
     THEN Goto(t, "wait") /\ UNCHANGED reply
     ELSE Goto(t, "done") /\ Answer(t, "denied")
  /\ UNCHANGED <<view, sem, file, up, faults, overlapped>>

\* Slip: lets one turn too many in.
AcquireOneTooMany(t) ==
  /\ At(t, "wait")
  /\ sem[ProcOf[t]] <= Concurrency
  /\ sem' = [sem EXCEPT ![ProcOf[t]] = @ + 1]
  /\ Goto(t, "admitted")
  /\ UNCHANGED <<view, reply, file, up, faults, overlapped>>

\* The select: a slot of the semaphore ...
Acquire(t) ==
  /\ At(t, "wait")
  /\ sem[ProcOf[t]] < Concurrency
  /\ sem' = [sem EXCEPT ![ProcOf[t]] = @ + 1]
  /\ Goto(t, "admitted")
  /\ UNCHANGED <<view, reply, file, up, faults, overlapped>>

\* ... or the end of the caller's context, which may come at any time.
Cancel(t) ==
  /\ At(t, "wait")
  /\ Goto(t, "done")
  /\ Answer(t, "cancelled")
  /\ UNCHANGED <<view, sem, file, up, faults, overlapped>>

\* Memory and system prompt (no state of ours), then History.Load, which
\* returns an empty history when reading the file fails.
LoadHistory(t) ==
  /\ At(t, "admitted")
  /\ Goto(t, "calling")
  /\ \/ view' = [view EXCEPT ![t] = Parsed] /\ UNCHANGED faults
     \/ view' = [view EXCEPT ![t] = <<>>] /\ file # Absent /\ Fault
  /\ overlapped' = (overlapped \/ \E u \in Turns : pc[u] \in Working)
  /\ UNCHANGED <<reply, sem, file, up>>

\* FallbackRunner.Run answered; Append and Prune work on the local slice.
ModelAnswers(t) ==
  /\ At(t, "calling")
  /\ Goto(t, "saving")
  /\ UNCHANGED <<view, reply, sem, file, up, faults, overlapped>>

\* Slip: the early return of an error keeps the slot.
FailKeepingSlot(t) ==
  /\ At(t, "calling")
  /\ Goto(t, "done")
  /\ Answer(t, "error")
  /\ UNCHANGED <<view, sem, file, up, faults, overlapped>>

\* Slip: "Error: ..." is remembered like an answer.
FailRemembered(t) ==
  /\ At(t, "calling")
  /\ Goto(t, "leaving")
  /\ Answer(t, "error")
  /\ file' = Whole(Updated(t))
  /\ UNCHANGED <<view, sem, up, faults, overlapped>>

\* Every tier failed, or the context ended: a reply "Error: ...", and the
\* history is not updated.
ModelFails(t) ==
  /\ At(t, "calling")
  /\ Goto(t, "leaving")
  /\ Answer(t, "error")
  /\ UNCHANGED <<view, sem, file, up, faults, overlapped>>

\* Slip: opens the file without truncating it.
OpenOnly(t) ==
  /\ At(t, "saving")
  /\ \/ Goto(t, "writing") /\ file' = [file EXCEPT !.kind = "torn"] /\ UNCHANGED <<reply, faults>>
     \/ Goto(t, "leaving") /\ Answer(t, "ok") /\ UNCHANGED file /\ Fault
  /\ UNCHANGED <<view, sem, up, overlapped>>

\* History.Save, first half: open with O_TRUNC.  An error is only logged.
OpenTruncate(t) ==
  /\ At(t, "saving")
  /\ \/ Goto(t, "writing") /\ file' = Torn /\ UNCHANGED <<reply, faults>>
     \/ Goto(t, "leaving") /\ Answer(t, "ok") /\ UNCHANGED file /\ Fault
  /\ UNCHANGED <<view, sem, up, overlapped>>

\* History.Save, second half: write.  An error is only logged.
WriteFile(t) ==
  /\ At(t, "writing")
  /\ Goto(t, "leaving")
  /\ Answer(t, "ok")
  /\ \/ file' \in Overwrite(Updated(t)) /\ UNCHANGED faults
     \/ file' \in {file, Mixed} /\ Fault
  /\ UNCHANGED <<view, sem, up, overlapped>>

\* Return, with the deferred receive from the semaphore channel.
Return(t) ==
  /\ At(t, "leaving")
  /\ Goto(t, "done")
  /\ sem' = [sem EXCEPT ![ProcOf[t]] = @ - 1]
  /\ UNCHANGED <<view, reply, file, up, faults, overlapped>>

\* The process dies: its goroutines and its semaphore go, the file stays.
Crash(p) ==
  /\ up[p]
  /\ Fault
  /\ up' = [up EXCEPT ![p] = FALSE]
  /\ sem' = [sem EXCEPT ![p] = 0]
  /\ LET InFlight == {t \in Turns : ProcOf[t] = p /\ pc[t] \notin {"idle", "done"}}
     IN  pc' = [t \in Turns |-> IF t \in InFlight THEN "killed" ELSE pc[t]]
  /\ UNCHANGED <<view, reply, file, overlapped>>

\* systemd may restart the service; nothing is replayed.
Restart(p) ==
  /\ ~up[p]
  /\ up' = [up EXCEPT ![p] = TRUE]
  /\ UNCHANGED <<pc, view, reply, sem, file, faults, overlapped>>

Step(t) ==
  \/ Arrive(t) \/ Acquire(t) \/ LoadHistory(t) \/ ModelAnswers(t)
  \/ ModelFails(t) \/ OpenTruncate(t) \/ WriteFile(t) \/ Return(t)

\* All turns are over: the server waits for the next message.
Idle == (\A t \in Turns : pc[t] \in {"done", "killed"}) /\ UNCHANGED vars

Next == \/ \E t \in Turns : Step(t) \/ Cancel(t)
        \/ \E p \in Procs : Crash(p) \/ Restart(p)
        \/ Idle

Spec == Init /\ [][Next]_vars

\* A runnable goroutine is scheduled, and the call of the model returns (its
\* client has a timeout).  Nobody has to cancel, no fault has to happen, and
\* nobody has to restart a process.
Fairness == \A t \in Turns : WF_vars(Step(t))

FairSpec == Spec /\ Fairness
-----------------------------------------------------------------------------
(* Properties.                                                             *)

\* Every variable has its type.
TypeOK ==
  /\ pc \in [Turns -> Places]
  /\ view \in [Turns -> Seq(Turns)]
  /\ reply \in [Turns -> Replies]
  /\ sem \in [Procs -> Int]
  /\ file \in FileStates
  /\ file.kind # "whole" => file.msgs = <<>>
  /\ up \in [Procs -> BOOLEAN]
  /\ faults \in 0 .. MaxFaults
  /\ overlapped \in BOOLEAN

\* A process's semaphore counts exactly its turns between acquisition and
\* return, and never more than Concurrency: no path out of Dispatch keeps a
\* slot or gives one back twice.
SemaphoreExact ==
  \A p \in Procs : sem[p] = Cardinality(Holders(p)) /\ sem[p] <= Concurrency

\* The stored history is a conversation that took place: the model was given,
\* for each stored turn, a history that ends with exactly the turns stored
\* before it.  This holds however dispatches interleave and fail, since Save
\* only ever writes what one turn loaded, followed by that turn.
EndsWith(h, e) ==
  Len(e) <= Len(h) /\ \A j \in 1 .. Len(e) : e[j] = h[Len(h) - Len(e) + j]
IsConversation(h) ==
  \A i \in 1 .. Len(h) : EndsWith(view[h[i]], SubSeq(h, 1, i - 1))
StoredIsConversation == IsConversation(file.msgs)

\* A turn is remembered, in the file or in what a later turn is answered with,
\* only once the model has answered it: not one that was denied, cancelled or
\* answered "Error: ...", nor one that was killed before it had written.  One
\* that is killed after that, before its answer is out, stays remembered.
OnlyAnsweredIsRemembered ==
  \A t \in Turns, u \in Turns :
    t \in Range(file.msgs) \cup Range(view[u]) => reply[t] = "ok"

\* What is stored fits the token budget; with a budget that nothing fits, or a
\* turn larger than the budget, nothing is stored.
StoredFitsBudget == file.msgs # <<>> => Weight(file.msgs) <= TokenBudget

\* No answered turn is lost: while all answered turns fit the budget together
\* and none is between load and return, the file holds them all.
AnsweredTurns == {t \in Turns : reply[t] = "ok"}
NoLostTurn ==
  (\A t \in Turns : pc[t] \notin Holding) =>
    \/ FoldFunctionOnSet(+, 0, Size, AnsweredTurns) > TokenBudget
    \/ AnsweredTurns = Range(file.msgs)

\* The log of HistoryLog, of which the file is the implementation.  While a
\* turn rewrites the file, the log is still the history that turn loaded.
Writers == {t \in Turns : pc[t] = "writing"}
Log == IF Writers = {} THEN Parsed ELSE view[CHOOSE t \in Writers : TRUE]
Outcome ==
  [t \in Turns |->
     IF reply[t] = "ok" THEN "recorded"
     ELSE IF reply[t] # "none" \/ pc[t] = "killed" THEN "closed" ELSE "pending"]

Abstract == INSTANCE HistoryLog WITH
  log <- Log, outcome <- Outcome, faulty <- faults > 0, shared <- overlapped

\* Dispatch implements the abstract log, with any number of slots and processes:
\* as long as no two turns work on the history at the same time, every answered
\* turn joins it in one step, and before the first fault nothing is lost.
ImplementsLog == Abstract!Spec

\* The semaphore of one process with one slot is all it takes: no two turns
\* ever work on the history at the same time, through errors, cancellations,
\* crashes and restarts.
Serialized == Concurrency = 1 /\ (\A p, q \in Procs : p = q) => ~overlapped

\* Every turn that reaches the semaphore leaves Dispatch, or dies with its
\* process: no slot is held for ever and nobody starves.
EveryTurnEnds == \A t \in Turns : pc[t] = "wait" ~> pc[t] \in {"done", "killed"}

=============================================================================
