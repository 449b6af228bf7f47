--------------------------- MODULE FallbackRunner ---------------------------
(***************************************************************************)
(* internal/core/api.go and fallback.go: one call of FallbackRunner.Run.   *)
(* Tier 0 is the primary client, tiers 1 .. Fallbacks the fallback chain;  *)
(* APIClient.Send of each tier posts to the Messages API, executes the     *)
(* tools the model asks for, posts their results, and so on.               *)
(*                                                                         *)
(* The Messages API and the tools are the environment: any answer, any     *)
(* result and any duration may come.  Time is counted in units from the    *)
(* start of Run, up to the deadline of the dispatch context; a model       *)
(* instance chooses the unit.                                              *)
(***************************************************************************)
EXTENDS Integers, Sequences

CONSTANTS
  Fallbacks,          \* number of fallback tiers that have a usable key
  MaxToolIterations,  \* maxToolIterations, 10 in the code
  MaxUses,            \* bound on the tool_use blocks of one response
  Override,           \* model asked for with "/opus ", or NoModel
  NoModel,
  TierModel,          \* [0 .. Fallbacks -> models]: APIClient.model
  Deadline,           \* of the context, in units
  PostLimit,          \* apiHTTPTimeout, in units
  ToolLimit           \* longest execution of a tool, in units

Tiers == 0 .. Fallbacks

ASSUME ConstantsAssumption ==
  /\ Fallbacks \in Nat
  /\ MaxToolIterations \in Nat \ {0}
  /\ MaxUses \in Nat
  /\ Deadline \in Nat \ {0}
  /\ PostLimit \in Nat
  /\ ToolLimit \in Nat

VARIABLES
  phase,      \* "post", "tools", "failed" (the tier) or "done"
  tier,       \* the tier whose Send is running
  iteration,  \* the loop variable of Send
  messages,   \* of Send, after the messages it was called with
  todo,       \* tool_use blocks of this response not executed yet
  results,    \* toolResults
  elapsed,    \* time since Run was called
  sent,       \* the last request that was posted
  performed,  \* the tool calls executed so far, in order
  failures,   \* the tiers that failed so far, with the reason
  outcome     \* what Run returns

vars == <<phase, tier, iteration, messages, todo, results, elapsed, sent,
          performed, failures, outcome>>

Phases == {"post", "tools", "failed", "done"}
Reasons == {"request", "no text", "no executor", "iterations"}
NoOutcome == [ok |-> FALSE, tier |-> -1]

\* Slip: the registry is wired into every client.
EveryTierActs(t) == t \in Tiers

\* main.go wires the tool registry into the primary client only.  When
\* no tool is configured not even that; there is nothing to execute then, and
\* the case is left out.
HasExecutor(t) == t = 0

\* Send's choice of the model; Run passes the override to the primary only.
ModelOf(t) == IF t = 0 /\ Override # NoModel THEN Override ELSE TierModel[t]

Request == [tier |-> tier, model |-> ModelOf(tier), messages |-> messages]

\* Tool calls are numbered in the order the model asks for them.
Asked == Len(performed) + Len(todo)
-----------------------------------------------------------------------------
Init ==
  /\ phase = "post" /\ tier = 0 /\ iteration = 0
  /\ messages = <<>> /\ todo = <<>> /\ results = <<>>
  /\ elapsed = 0 /\ sent = <<>>
  /\ performed = <<>> /\ failures = <<>> /\ outcome = NoOutcome

\* d units pass.  Time is not counted beyond the deadline; a request that has
\* not ended by then fails, a tool may still run.
Passes(d) == elapsed' = IF elapsed + d < Deadline THEN elapsed + d ELSE Deadline
InTime(d) == elapsed + d < Deadline

TierFails(reason) ==
  /\ phase' = "failed"
  /\ failures' = Append(failures, [tier |-> tier, reason |-> reason])

\* Slip: no limit on the rounds.
PostingForEver == phase = "post" /\ sent' = Request

\* A round of the loop of Send: the request goes out.
Posting == /\ phase = "post" /\ iteration < MaxToolIterations
           /\ sent' = Request

\* Transport error, time limit, end of the context, status or body not usable.
RequestFails(d) ==
  /\ Posting
  /\ Passes(d)
  /\ TierFails("request")
  /\ UNCHANGED <<tier, iteration, messages, todo, results, performed, outcome>>

\* The model stops without asking for tools: the first text block, if any.
AnswerArrives(d, hasText) ==
  /\ Posting
  /\ InTime(d) /\ Passes(d)
  /\ IF hasText
     THEN /\ phase' = "done"
          /\ outcome' = [ok |-> TRUE, tier |-> tier]
          /\ UNCHANGED failures
     ELSE TierFails("no text") /\ UNCHANGED outcome
  /\ UNCHANGED <<tier, iteration, messages, todo, results, performed>>

\* The model asks for n tools: its turn joins the messages.  A client without
\* an executor gives up at the first tool_use block.
ToolUseArrives(d, n) ==
  /\ Posting
  /\ InTime(d) /\ Passes(d)
  /\ LET uses == [i \in 1 .. n |-> Asked + i]
     IN  /\ messages' = Append(messages, [role |-> "assistant", ids |-> uses])
         /\ IF n > 0 /\ ~HasExecutor(tier)
            THEN TierFails("no executor") /\ UNCHANGED <<todo, results>>
            ELSE /\ phase' = "tools" /\ todo' = uses /\ results' = <<>>
                 /\ UNCHANGED failures
  /\ UNCHANGED <<tier, iteration, performed, outcome>>

\* Slip: a tool that fails is tried again.
ExecuteUntilOk(d, ok) ==
  /\ phase = "tools" /\ todo # <<>>
  /\ Passes(d)
  /\ performed' = Append(performed, [id |-> Head(todo), ok |-> ok])
  /\ results' = Append(results, [id |-> Head(todo), ok |-> ok])
  /\ todo' = IF ok THEN Tail(todo) ELSE todo
  /\ UNCHANGED <<phase, tier, iteration, messages, sent, failures, outcome>>

\* Slip: the result does not say that the tool failed.
ExecuteHidingError(d, ok) ==
  /\ phase = "tools" /\ todo # <<>>
  /\ Passes(d)
  /\ performed' = Append(performed, [id |-> Head(todo), ok |-> ok])
  /\ results' = Append(results, [id |-> Head(todo), ok |-> TRUE])
  /\ todo' = Tail(todo)
  /\ UNCHANGED <<phase, tier, iteration, messages, sent, failures, outcome>>

\* One call of the tool executor; its error becomes the text of its result.
ExecuteTool(d, ok) ==
  /\ phase = "tools" /\ todo # <<>>
  /\ Passes(d)
  /\ performed' = Append(performed, [id |-> Head(todo), ok |-> ok])
  /\ results' = Append(results, [id |-> Head(todo), ok |-> ok])
  /\ todo' = Tail(todo)
  /\ UNCHANGED <<phase, tier, iteration, messages, sent, failures, outcome>>

\* Slip: a tool that failed gets no result block.
FinishWithoutErrors ==
  /\ phase = "tools" /\ todo = <<>>
  /\ messages' = Append(messages,
       [role |-> "user", ids |-> SelectSeq(results, LAMBDA r : r.ok)])
  /\ iteration' = iteration + 1
  /\ phase' = "post"
  /\ UNCHANGED <<tier, todo, results, elapsed, sent, performed, failures, outcome>>

\* The results join the messages, and the loop goes round.
FinishIteration ==
  /\ phase = "tools" /\ todo = <<>>
  /\ messages' = Append(messages, [role |-> "user", ids |-> results])
  /\ iteration' = iteration + 1
  /\ phase' = "post"
  /\ UNCHANGED <<tier, todo, results, elapsed, sent, performed, failures, outcome>>

\* Slip: off by one, so that nothing ends the loop after its last round.
ExhaustedLate ==
  /\ phase = "post" /\ iteration > MaxToolIterations
  /\ TierFails("iterations")
  /\ UNCHANGED <<tier, iteration, messages, todo, results, elapsed, sent,
                 performed, outcome>>

\* The loop of Send ends without an answer.
Exhausted ==
  /\ phase = "post" /\ iteration = MaxToolIterations
  /\ TierFails("iterations")
  /\ UNCHANGED <<tier, iteration, messages, todo, results, elapsed, sent,
                 performed, outcome>>

\* Slip: the next tier goes on with the messages of the one that failed.
NextTierGoesOn ==
  /\ phase = "failed"
  /\ IF tier < Fallbacks
     THEN /\ phase' = "post" /\ tier' = tier + 1 /\ iteration' = 0
          /\ UNCHANGED <<messages, outcome>>
     ELSE /\ phase' = "done"
          /\ outcome' = [ok |-> FALSE, tier |-> tier]
          /\ UNCHANGED <<tier, iteration, messages>>
  /\ UNCHANGED <<todo, results, elapsed, sent, performed, failures>>

\* Slip: the error that is returned is the primary's.
NextTierFirstError ==
  /\ phase = "failed"
  /\ IF tier < Fallbacks
     THEN /\ phase' = "post" /\ tier' = tier + 1 /\ iteration' = 0
          /\ messages' = <<>>
          /\ UNCHANGED outcome
     ELSE /\ phase' = "done"
          /\ outcome' = [ok |-> FALSE, tier |-> 0]
          /\ UNCHANGED <<tier, iteration, messages>>
  /\ UNCHANGED <<todo, results, elapsed, sent, performed, failures>>

\* Run goes on to the next tier with the messages it was called with, or
\* returns the last error.
NextTier ==
  /\ phase = "failed"
  /\ IF tier < Fallbacks
     THEN /\ phase' = "post" /\ tier' = tier + 1 /\ iteration' = 0
          /\ messages' = <<>>
          /\ UNCHANGED outcome
     ELSE /\ phase' = "done"
          /\ outcome' = [ok |-> FALSE, tier |-> tier]
          /\ UNCHANGED <<tier, iteration, messages>>
  /\ UNCHANGED <<todo, results, elapsed, sent, performed, failures>>

Step == \/ \E d \in 0 .. PostLimit : RequestFails(d)
        \/ \E d \in 0 .. PostLimit, hasText \in BOOLEAN : AnswerArrives(d, hasText)
        \/ \E d \in 0 .. PostLimit, n \in 0 .. MaxUses : ToolUseArrives(d, n)
        \/ \E d \in 0 .. ToolLimit, ok \in BOOLEAN : ExecuteTool(d, ok)
        \/ FinishIteration \/ Exhausted \/ NextTier

\* Run has returned.
Returned == phase = "done" /\ UNCHANGED vars

Next == Step \/ Returned

\* A request and a tool end, because their clients have a time limit.
Spec == Init /\ [][Next]_vars
FairSpec == Spec /\ WF_vars(Step)
-----------------------------------------------------------------------------
(* Properties.                                                             *)

Uses == Seq(Nat)
Results == Seq([id : Nat, ok : BOOLEAN])

\* Every variable has its type.
TypeOK ==
  /\ phase \in Phases
  /\ tier \in Tiers
  /\ iteration \in 0 .. MaxToolIterations
  /\ messages \in Seq([role : {"assistant"}, ids : Uses] \cup [role : {"user"}, ids : Results])
  /\ todo \in Uses /\ results \in Results
  /\ elapsed \in 0 .. Deadline
  /\ performed \in Results
  /\ failures \in Seq([tier : Tiers, reason : Reasons])
  /\ outcome \in [ok : BOOLEAN, tier : Tiers] \cup {NoOutcome}

\* What a request says about tools is well formed, as the Messages API wants
\* it: each turn of the model is followed by one user message with a result
\* for each tool it asked for, in that order, and nothing else.  And a fallback
\* tier is asked what the primary was asked at first: nothing that the primary's
\* tool loop added leaks into it, and the model is its own, even under an
\* override.
Rounds(ms, n) ==
  \A i \in 1 .. n :
    LET asks == ms[2 * i - 1]
        answers == ms[2 * i]
    IN  /\ asks.role = "assistant" /\ answers.role = "user"
        /\ asks.ids = [j \in DOMAIN answers.ids |-> answers.ids[j].id]
WellFormed(ms) == \E n \in 0 .. Len(ms) : Len(ms) = 2 * n /\ Rounds(ms, n)
RequestsWellFormed ==
  sent # <<>> =>
    /\ WellFormed(sent.messages)
    /\ sent.tier > 0 => /\ sent.model = TierModel[sent.tier]
                        /\ \A i \in DOMAIN sent.messages : sent.messages[i].ids = <<>>

\* The results a list of messages reports.
Reported(ms) ==
  UNION {{ms[i].ids[j] : j \in DOMAIN ms[i].ids} : i \in {k \in DOMAIN ms : ms[k].role = "user"}}

\* An answer of the primary is given in knowledge of every tool call that was
\* executed, with its true outcome: none is dropped, repeated or made up.
PrimaryKnowsItsEffects ==
  outcome.ok /\ outcome.tier = 0 =>
    Reported(sent.messages) = {performed[i] : i \in DOMAIN performed}

\* A tool call is executed once: no tool_use block is run twice, even though
\* the whole conversation is posted again after each round and to each tier.
ToolsRunOnce ==
  \A i, j \in DOMAIN performed : performed[i].id = performed[j].id => i = j

\* Run answers with the first tier that answers, and fails only after each
\* tier failed once, in order; the error it returns is the last tier's.
TiersTriedInOrder ==
  /\ \A i \in DOMAIN failures : failures[i].tier = i - 1
  /\ phase = "done" => IF outcome.ok THEN outcome.tier = Len(failures)
                       ELSE Len(failures) = Fallbacks + 1 /\ outcome.tier = Fallbacks

\* Once the primary has been given up, no tool is executed any more.
OnlyPrimaryActs == [][tier > 0 => performed' = performed]_vars

\* Run returns: neither a model that asks for tools for ever nor a stuck
\* request keeps a dispatch, and its slot of the semaphore, for ever.
RunReturns == <>(phase = "done")

\* api.go says of the limit on one request that "the fallback chain still needs
\* room to retry the next tier within the dispatch deadline": no tier would be
\* started when the deadline has passed.
FallbackHasRoom == tier > 0 /\ iteration = 0 /\ phase = "post" => elapsed < Deadline

=============================================================================
