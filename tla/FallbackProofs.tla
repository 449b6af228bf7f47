--------------------------- MODULE FallbackProofs ---------------------------
(***************************************************************************)
(* Theorems about FallbackRunner, for any number of tiers, rounds and tool *)
(* calls, and any durations.                                               *)
(***************************************************************************)
EXTENDS FallbackRunner, TLAPS

\* A fallback tier has no tool call waiting: its Send gives up at the first
\* tool_use block, and a tier is left with none to execute.
ActsInv ==
  /\ tier \in Tiers
  /\ phase # "tools" => todo = <<>>
  /\ tier > 0 => todo = <<>>

\* The failures are those of the tiers that came before, in order.
TierInv ==
  /\ tier \in Tiers
  /\ failures \in Seq([tier : Tiers, reason : Reasons])
  /\ \A i \in DOMAIN failures : failures[i].tier = i - 1
  /\ phase \in {"post", "tools"} => Len(failures) = tier
  /\ phase = "failed" => Len(failures) = tier + 1
  /\ phase = "done" => IF outcome.ok THEN outcome.tier = Len(failures)
                       ELSE Len(failures) = Fallbacks + 1 /\ outcome.tier = Fallbacks

(* A call of Run starts with the primary, which has asked for nothing. *)
LEMMA ActsInit == Init => ActsInv
BY ConstantsAssumption DEF Init, ActsInv, Tiers

(* No step lets a tool call wait at a fallback tier. *)
LEMMA ActsStep == ActsInv /\ [Next]_vars => ActsInv'
<1>. SUFFICES ASSUME ActsInv, [Next]_vars PROVE ActsInv'
  OBVIOUS
<1>. USE ConstantsAssumption DEF ActsInv, Tiers
<1>1. ASSUME NEW d \in 0 .. PostLimit, RequestFails(d) PROVE ActsInv'
  BY <1>1 DEF RequestFails, Posting, TierFails
<1>2. ASSUME NEW d \in 0 .. PostLimit, NEW hasText \in BOOLEAN, AnswerArrives(d, hasText)
      PROVE  ActsInv'
  BY <1>2 DEF AnswerArrives, Posting, TierFails
<1>3. ASSUME NEW d \in 0 .. PostLimit, NEW n \in 0 .. MaxUses, ToolUseArrives(d, n)
      PROVE  ActsInv'
  <2>1. CASE n > 0 /\ ~HasExecutor(tier)
    BY <1>3, <2>1 DEF ToolUseArrives, Posting, TierFails
  <2>2. CASE n > 0 /\ HasExecutor(tier)
    BY <1>3, <2>2 DEF ToolUseArrives, Posting, HasExecutor
  <2>3. CASE n = 0
    <3>1. [i \in 1 .. n |-> Asked + i] = <<>>
      BY <2>3
    <3>. QED  BY <1>3, <2>3, <3>1 DEF ToolUseArrives, Posting
  <2>. QED  BY <2>1, <2>2, <2>3
<1>4. ASSUME NEW d \in 0 .. ToolLimit, NEW ok \in BOOLEAN, ExecuteTool(d, ok)
      PROVE  ActsInv'
  BY <1>4 DEF ExecuteTool
<1>5. CASE FinishIteration
  BY <1>5 DEF FinishIteration
<1>6. CASE Exhausted
  BY <1>6 DEF Exhausted, TierFails
<1>7. CASE NextTier
  BY <1>7 DEF NextTier
<1>8. CASE UNCHANGED vars
  BY <1>8 DEF vars
<1>. QED  BY <1>1, <1>2, <1>3, <1>4, <1>5, <1>6, <1>7, <1>8 DEF Next, Step, Returned

(* A step that executes a tool finds one waiting, which no fallback tier has. *)
LEMMA ActsOnlyAsPrimary ==
  ActsInv /\ [Next]_vars => [tier > 0 => performed' = performed]_vars
<1>. SUFFICES ASSUME ActsInv, Next, tier > 0 PROVE performed' = performed
  OBVIOUS
<1>1. \A d \in 0 .. ToolLimit, ok \in BOOLEAN : ~ExecuteTool(d, ok)
  BY DEF ActsInv, ExecuteTool
<1>2. CASE Returned
  BY <1>2 DEF Returned, vars
<1>3. CASE Step
  BY <1>1, <1>3 DEF Step, RequestFails, AnswerArrives, ToolUseArrives, FinishIteration,
                    Exhausted, NextTier
<1>. QED  BY <1>2, <1>3 DEF Next

(* Only the primary executes tools: in a fallback tier no step of Run adds    *)
(* to the tool calls performed.                                              *)
THEOREM OnlyPrimaryExecutes == Spec => OnlyPrimaryActs
BY ActsInit, ActsStep, ActsOnlyAsPrimary, PTL DEF Spec, OnlyPrimaryActs
-----------------------------------------------------------------------------
(* A failure of the running tier is the next of the list. *)
LEMMA FailureIsNext ==
  ASSUME TierInv, phase \in {"post", "tools"}, NEW reason \in Reasons,
         TierFails(reason), UNCHANGED <<tier, outcome>>
  PROVE  TierInv'
<1>1. /\ failures' = Append(failures, [tier |-> tier, reason |-> reason])
      /\ phase' = "failed" /\ tier' = tier
  BY DEF TierFails
<1>2. [tier |-> tier, reason |-> reason] \in [tier : Tiers, reason : Reasons]
  BY DEF TierInv
<1>3. /\ failures' \in Seq([tier : Tiers, reason : Reasons])
      /\ Len(failures') = tier + 1
  BY <1>1, <1>2 DEF TierInv
<1>4. ASSUME NEW i \in DOMAIN failures' PROVE failures'[i].tier = i - 1
  <2>1. i \in 1 .. Len(failures) + 1 /\ tier = Len(failures)
    BY <1>1, <1>2, <1>4 DEF TierInv
  <2>2. CASE i = Len(failures) + 1
    BY <1>1, <2>1, <2>2 DEF TierInv, Tiers
  <2>3. CASE i \in 1 .. Len(failures)
    <3>1. failures'[i] = failures[i]
      BY <1>1, <1>2, <2>3 DEF TierInv
    <3>. QED  BY <2>3, <3>1 DEF TierInv
  <2>. QED  BY <2>1, <2>2, <2>3 DEF TierInv
<1>. QED  BY <1>1, <1>3, <1>4 DEF TierInv

(* At first no tier has failed. *)
LEMMA TierInit == Init => TierInv
BY ConstantsAssumption DEF Init, TierInv, Tiers

(* Each step keeps the list of failures that of the tiers before. *)
LEMMA TierStep == TierInv /\ [Next]_vars => TierInv'
<1>. SUFFICES ASSUME TierInv, [Next]_vars PROVE TierInv'
  OBVIOUS
<1>1. ASSUME NEW d \in 0 .. PostLimit, RequestFails(d) PROVE TierInv'
  BY <1>1, FailureIsNext DEF RequestFails, Posting, Reasons
<1>2. ASSUME NEW d \in 0 .. PostLimit, NEW hasText \in BOOLEAN, AnswerArrives(d, hasText)
      PROVE  TierInv'
  <2>1. CASE hasText
    <3>1. phase = "post" /\ phase' = "done" /\ outcome' = [ok |-> TRUE, tier |-> tier]
          /\ UNCHANGED <<tier, failures>>
      BY <1>2, <2>1 DEF AnswerArrives, Posting
    <3>. QED  BY <3>1 DEF TierInv
  <2>2. CASE ~hasText
    BY <1>2, <2>2, FailureIsNext DEF AnswerArrives, Posting, Reasons
  <2>. QED  BY <2>1, <2>2
<1>3. ASSUME NEW d \in 0 .. PostLimit, NEW n \in 0 .. MaxUses, ToolUseArrives(d, n)
      PROVE  TierInv'
  <2>1. CASE n > 0 /\ ~HasExecutor(tier)
    BY <1>3, <2>1, FailureIsNext DEF ToolUseArrives, Posting, Reasons
  <2>2. CASE ~(n > 0 /\ ~HasExecutor(tier))
    <3>1. phase = "post" /\ phase' = "tools" /\ UNCHANGED <<tier, failures, outcome>>
      BY <1>3, <2>2 DEF ToolUseArrives, Posting
    <3>. QED  BY <3>1 DEF TierInv
  <2>. QED  BY <2>1, <2>2
<1>4. ASSUME NEW d \in 0 .. ToolLimit, NEW ok \in BOOLEAN, ExecuteTool(d, ok)
      PROVE  TierInv'
  BY <1>4 DEF ExecuteTool, TierInv
<1>5. CASE FinishIteration
  BY <1>5 DEF FinishIteration, TierInv
<1>6. CASE Exhausted
  BY <1>6, FailureIsNext DEF Exhausted, Reasons
<1>7. CASE NextTier
  <2>1. CASE tier < Fallbacks
    BY <1>7, <2>1, ConstantsAssumption DEF NextTier, TierInv, Tiers
  <2>2. CASE ~(tier < Fallbacks)
    <3>1. tier = Fallbacks
      BY <2>2, ConstantsAssumption DEF TierInv, Tiers
    <3>2. phase = "failed" /\ phase' = "done" /\ outcome' = [ok |-> FALSE, tier |-> tier]
          /\ UNCHANGED <<tier, failures>>
      BY <1>7, <2>2 DEF NextTier
    <3>. QED  BY <3>1, <3>2 DEF TierInv
  <2>. QED  BY <2>1, <2>2
<1>8. CASE UNCHANGED vars
  BY <1>8 DEF vars, TierInv
<1>. QED  BY <1>1, <1>2, <1>3, <1>4, <1>5, <1>6, <1>7, <1>8 DEF Next, Step, Returned

(* Run tries the tiers in order, each once, answers with the first that       *)
(* answers and fails with the error of the last only when all have failed.   *)
THEOREM RunTriesTiersInOrder == Spec => []TiersTriedInOrder
<1>1. TierInv => TiersTriedInOrder
  BY DEF TierInv, TiersTriedInOrder
<1>. QED  BY <1>1, TierInit, TierStep, PTL DEF Spec

-----------------------------------------------------------------------------
(* What Run keeps in its variables. *)

Asks == [role : {"assistant"}, ids : Uses]
Answers == [role : {"user"}, ids : Results]
Typed == TypeOK /\ (phase = "tools" => iteration < MaxToolIterations)

(* Time is not counted beyond the deadline. *)
LEMMA TimeType ==
  ASSUME elapsed \in 0 .. Deadline, NEW d \in Nat, Passes(d)
  PROVE  elapsed' \in 0 .. Deadline
<1>1. Deadline \in Nat
  BY ConstantsAssumption
<1>. QED  BY <1>1 DEF Passes

(* A tier that fails is added to the list. *)
LEMMA FailsType ==
  ASSUME TypeOK, NEW reason \in Reasons, TierFails(reason)
  PROVE  phase' \in Phases /\ failures' \in Seq([tier : Tiers, reason : Reasons])
<1>1. [tier |-> tier, reason |-> reason] \in [tier : Tiers, reason : Reasons]
  BY DEF TypeOK
<1>. QED  BY <1>1 DEF TierFails, TypeOK, Phases

(* The tools that a response asks for are numbered on. *)
LEMMA UsesType ==
  ASSUME TypeOK, NEW n \in Nat
  PROVE  [i \in 1 .. n |-> Asked + i] \in Uses
<1>1. Asked \in Nat
  BY DEF TypeOK, Asked, Uses, Results
<1>2. \A i \in 1 .. n : Asked + i \in Nat
  BY <1>1
<1>. QED  BY <1>2 DEF Uses

(* At first Run has asked nothing and knows nothing. *)
LEMMA TypedInit == Init => Typed
<1>. SUFFICES ASSUME Init PROVE Typed
  OBVIOUS
<1>1. tier \in Tiers /\ iteration \in 0 .. MaxToolIterations /\ elapsed \in 0 .. Deadline
  BY ConstantsAssumption DEF Init, Tiers
<1>. QED  BY <1>1 DEF Init, Typed, TypeOK, Phases, Uses, Results, NoOutcome

(* No step leaves the types. *)
LEMMA TypedStep == Typed /\ [Next]_vars => Typed'
<1>. SUFFICES ASSUME Typed, [Next]_vars PROVE Typed'
  OBVIOUS
<1>. USE DEF Typed
<1>1. ASSUME NEW d \in 0 .. PostLimit, RequestFails(d) PROVE Typed'
  <2>1. d \in Nat
    BY ConstantsAssumption
  <2>2. elapsed' \in 0 .. Deadline
    BY <1>1, <2>1, TimeType DEF RequestFails, TypeOK
  <2>3. phase' \in Phases /\ failures' \in Seq([tier : Tiers, reason : Reasons])
    BY <1>1, FailsType DEF RequestFails, Reasons
  <2>. QED  BY <1>1, <2>2, <2>3 DEF RequestFails, Posting, TierFails, TypeOK
<1>2. ASSUME NEW d \in 0 .. PostLimit, NEW hasText \in BOOLEAN, AnswerArrives(d, hasText)
      PROVE  Typed'
  <2>1. d \in Nat
    BY ConstantsAssumption
  <2>2. elapsed' \in 0 .. Deadline
    BY <1>2, <2>1, TimeType DEF AnswerArrives, TypeOK
  <2>3. CASE hasText
    <3>1. phase' = "done" /\ outcome' = [ok |-> TRUE, tier |-> tier]
          /\ UNCHANGED <<tier, iteration, messages, todo, results, performed, failures>>
      BY <1>2, <2>3 DEF AnswerArrives
    <3>2. outcome' \in [ok : BOOLEAN, tier : Tiers]
      BY <3>1 DEF TypeOK
    <3>. QED  BY <2>2, <3>1, <3>2 DEF TypeOK, Phases
  <2>4. CASE ~hasText
    <3>1. phase' \in Phases /\ failures' \in Seq([tier : Tiers, reason : Reasons])
      BY <1>2, <2>4, FailsType DEF AnswerArrives, Reasons
    <3>. QED  BY <1>2, <2>2, <2>4, <3>1 DEF AnswerArrives, Posting, TierFails, TypeOK
  <2>. QED  BY <2>3, <2>4
<1>3. ASSUME NEW d \in 0 .. PostLimit, NEW n \in 0 .. MaxUses, ToolUseArrives(d, n)
      PROVE  Typed'
  <2>. DEFINE uses == [i \in 1 .. n |-> Asked + i]
  <2>1. d \in Nat /\ n \in Nat
    BY ConstantsAssumption
  <2>2. elapsed' \in 0 .. Deadline
    BY <1>3, <2>1, TimeType DEF ToolUseArrives, TypeOK
  <2>3. uses \in Uses
    BY <2>1, UsesType
  <2>4. [role |-> "assistant", ids |-> uses] \in Asks \cup Answers
    BY <2>3 DEF Asks
  <2>5. messages' \in Seq(Asks \cup Answers)
    <3>1. messages \in Seq(Asks \cup Answers)
      BY DEF TypeOK, Asks, Answers
    <3>2. messages' = Append(messages, [role |-> "assistant", ids |-> uses])
      BY <1>3 DEF ToolUseArrives
    <3>. QED  BY <2>4, <3>1, <3>2
  <2>6. iteration < MaxToolIterations /\ UNCHANGED <<tier, iteration, performed, outcome>>
    BY <1>3 DEF ToolUseArrives, Posting
  <2>7. CASE n > 0 /\ ~HasExecutor(tier)
    <3>1. phase' \in Phases /\ failures' \in Seq([tier : Tiers, reason : Reasons])
      BY <1>3, <2>7, FailsType DEF ToolUseArrives, Reasons
    <3>2. UNCHANGED <<todo, results>>
      BY <1>3, <2>7 DEF ToolUseArrives
    <3>. QED  BY <2>2, <2>5, <2>6, <3>1, <3>2 DEF TypeOK, Asks, Answers
  <2>8. CASE ~(n > 0 /\ ~HasExecutor(tier))
    <3>1. phase' = "tools" /\ todo' = uses /\ results' = <<>> /\ UNCHANGED failures
      BY <1>3, <2>8 DEF ToolUseArrives
    <3>2. results' \in Results
      BY <3>1 DEF Results
    <3>. QED  BY <2>2, <2>3, <2>5, <2>6, <3>1, <3>2 DEF TypeOK, Asks, Answers, Phases
  <2>. QED  BY <2>7, <2>8
<1>4. ASSUME NEW d \in 0 .. ToolLimit, NEW ok \in BOOLEAN, ExecuteTool(d, ok)
      PROVE  Typed'
  <2>1. d \in Nat
    BY ConstantsAssumption
  <2>2. elapsed' \in 0 .. Deadline
    BY <1>4, <2>1, TimeType DEF ExecuteTool, TypeOK
  <2>3. Head(todo) \in Nat /\ Tail(todo) \in Uses
    BY <1>4 DEF ExecuteTool, TypeOK, Uses
  <2>4. [id |-> Head(todo), ok |-> ok] \in [id : Nat, ok : BOOLEAN]
    BY <2>3
  <2>5. performed' \in Results /\ results' \in Results
    BY <1>4, <2>4 DEF ExecuteTool, TypeOK, Results
  <2>. QED  BY <1>4, <2>2, <2>3, <2>5 DEF ExecuteTool, TypeOK
<1>5. CASE FinishIteration
  <2>1. [role |-> "user", ids |-> results] \in Asks \cup Answers
    BY DEF TypeOK, Answers
  <2>2. messages' \in Seq(Asks \cup Answers)
    BY <1>5, <2>1 DEF FinishIteration, TypeOK, Asks, Answers
  <2>3. iteration' \in 0 .. MaxToolIterations
    BY <1>5, ConstantsAssumption DEF FinishIteration, TypeOK
  <2>. QED  BY <1>5, <2>2, <2>3 DEF FinishIteration, TypeOK, Phases, Asks, Answers
<1>6. CASE Exhausted
  <2>1. phase' \in Phases /\ failures' \in Seq([tier : Tiers, reason : Reasons])
    BY <1>6, FailsType DEF Exhausted, Reasons
  <2>. QED  BY <1>6, <2>1 DEF Exhausted, TierFails, TypeOK
<1>7. CASE NextTier
  <2>1. CASE tier < Fallbacks
    <3>1. tier' \in Tiers /\ iteration' \in 0 .. MaxToolIterations
      BY <1>7, <2>1, ConstantsAssumption DEF NextTier, TypeOK, Tiers
    <3>. QED  BY <1>7, <2>1, <3>1 DEF NextTier, TypeOK, Phases
  <2>2. CASE ~(tier < Fallbacks)
    <3>1. phase' = "done" /\ outcome' = [ok |-> FALSE, tier |-> tier]
          /\ UNCHANGED <<tier, iteration, messages, todo, results, elapsed, performed, failures>>
      BY <1>7, <2>2 DEF NextTier
    <3>2. outcome' \in [ok : BOOLEAN, tier : Tiers]
      BY <3>1 DEF TypeOK
    <3>. QED  BY <3>1, <3>2 DEF TypeOK, Phases
  <2>. QED  BY <2>1, <2>2
<1>8. CASE UNCHANGED vars
  BY <1>8 DEF vars, TypeOK
<1>. QED  BY <1>1, <1>2, <1>3, <1>4, <1>5, <1>6, <1>7, <1>8 DEF Next, Step, Returned

(* The types hold: in particular a tier is posted to at most                  *)
(* MaxToolIterations times, and time does not run past the deadline.          *)
THEOREM RunTyped == Spec => []TypeOK
<1>1. Typed => TypeOK
  BY DEF Typed
<1>. QED  BY <1>1, TypedInit, TypedStep, PTL DEF Spec

-----------------------------------------------------------------------------
\* Tool calls are numbered in the order in which they are asked for, and
\* executed in that order.
IdsInv ==
  /\ \A i \in DOMAIN performed : performed[i].id = i
  /\ \A i \in DOMAIN todo : todo[i] = Len(performed) + i

(* At first nothing is asked for. *)
LEMMA IdsInit == Init => IdsInv
BY DEF Init, IdsInv

(* A step that asks for tools has none waiting; one that executes takes the   *)
(* next.                                                                      *)
LEMMA IdsStep == Typed /\ ActsInv /\ IdsInv /\ [Next]_vars => IdsInv'
<1>. SUFFICES ASSUME Typed, ActsInv, IdsInv, [Next]_vars PROVE IdsInv'
  OBVIOUS
<1>0. ASSUME UNCHANGED <<performed, todo>> PROVE IdsInv'
  BY <1>0 DEF IdsInv
<1>1. ASSUME NEW d \in 0 .. PostLimit, NEW n \in 0 .. MaxUses, ToolUseArrives(d, n)
      PROVE  IdsInv'
  <2>. DEFINE uses == [i \in 1 .. n |-> Asked + i]
  <2>1. performed' = performed /\ todo' \in {todo, uses}
    BY <1>1 DEF ToolUseArrives
  <2>2. Asked = Len(performed)
    <3>1. todo = <<>>
      BY <1>1 DEF ToolUseArrives, Posting, ActsInv
    <3>2. Len(performed) \in Nat
      BY DEF Typed, TypeOK, Results
    <3>. QED  BY <3>1, <3>2 DEF Asked
  <2>3. \A i \in DOMAIN uses : uses[i] = Len(performed) + i
    BY <2>2
  <2>. QED  BY <2>1, <2>3 DEF IdsInv
<1>2. ASSUME NEW d \in 0 .. ToolLimit, NEW ok \in BOOLEAN, ExecuteTool(d, ok)
      PROVE  IdsInv'
  <2>. DEFINE r == [id |-> Head(todo), ok |-> ok]
  <2>1. /\ performed' = Append(performed, r) /\ todo' = Tail(todo) /\ todo # <<>>
        /\ performed \in Seq([id : Nat, ok : BOOLEAN]) /\ todo \in Seq(Nat)
    BY <1>2 DEF ExecuteTool, Typed, TypeOK, Results, Uses
  <2>2. r.id = Len(performed) + 1
    BY <2>1 DEF IdsInv
  <2>3. r \in [id : Nat, ok : BOOLEAN]
    BY <2>1
  <2>. HIDE DEF r
  <2>4. Len(performed') = Len(performed) + 1
    BY <2>1, <2>3
  <2>5. \A i \in DOMAIN performed' : performed'[i].id = i
    BY <2>1, <2>2, <2>3 DEF IdsInv
  <2>6. \A i \in DOMAIN todo' : todo'[i] = Len(performed') + i
    BY <2>1, <2>4 DEF IdsInv
  <2>. QED  BY <2>5, <2>6 DEF IdsInv
<1>. QED  BY <1>0, <1>1, <1>2
          DEF Next, Step, Returned, RequestFails, AnswerArrives, FinishIteration, Exhausted,
              NextTier, vars

(* No tool call is executed twice, however often the conversation is posted.  *)
THEOREM ToolsAreRunOnce == Spec => []ToolsRunOnce
<1>1. IdsInv => ToolsRunOnce
  BY DEF IdsInv, ToolsRunOnce
<1>. QED  BY <1>1, IdsInit, IdsStep, ActsInit, ActsStep, TypedInit, TypedStep, PTL DEF Spec
-----------------------------------------------------------------------------
\* The ids that a round asked for are those of the results so far and of the
\* uses that wait.
Underway(ids, rs, us) ==
  /\ Len(ids) = Len(rs) + Len(us)
  /\ \A j \in 1 .. Len(rs) : ids[j] = rs[j].id
  /\ \A j \in 1 .. Len(us) : ids[Len(rs) + j] = us[j]

\* Before a request the messages are whole rounds; while tools are executed the
\* last round lacks its results.  A fallback tier has only empty rounds.
RoundsInv ==
  /\ phase = "post" => WellFormed(messages)
  /\ phase = "tools" =>
       \E n \in Nat : /\ Len(messages) = 2 * n + 1 /\ Rounds(messages, n)
                      /\ messages[2 * n + 1].role = "assistant"
                      /\ Underway(messages[2 * n + 1].ids, results, todo)
  /\ tier > 0 /\ phase \in {"post", "tools"} =>
       \A i \in DOMAIN messages : messages[i].ids = <<>>
  /\ tier > 0 /\ phase = "tools" => results = <<>>
  /\ RequestsWellFormed

(* At first the messages have no round. *)
LEMMA RoundsInit == Init => RoundsInv
<1>. SUFFICES ASSUME Init PROVE RoundsInv
  OBVIOUS
<1>1. WellFormed(<<>>)
  BY DEF WellFormed, Rounds
<1>. QED  BY <1>1 DEF Init, RoundsInv, RequestsWellFormed

(* What is posted is what the messages are, and these are whole rounds. *)
LEMMA PostedIsWellFormed ==
  ASSUME Typed, RoundsInv, Posting
  PROVE  RequestsWellFormed'
<1>1. sent' = [tier |-> tier, model |-> ModelOf(tier), messages |-> messages]
  BY DEF Posting, Request
<1>2. WellFormed(messages)
  BY DEF Posting, RoundsInv
<1>3. tier > 0 => ModelOf(tier) = TierModel[tier]
  BY DEF ModelOf, Typed, TypeOK, Tiers
<1>4. tier > 0 => \A i \in DOMAIN messages : messages[i].ids = <<>>
  BY DEF Posting, RoundsInv
<1>5. sent'.tier = tier /\ sent'.model = ModelOf(tier) /\ sent'.messages = messages
  BY <1>1
<1>. QED  BY <1>2, <1>3, <1>4, <1>5 DEF RequestsWellFormed

(* What Append does, once. *)
LEMMA AppendIs ==
  ASSUME NEW S, NEW ms \in Seq(S), NEW m \in S
  PROVE  /\ Len(Append(ms, m)) = Len(ms) + 1
         /\ Append(ms, m)[Len(ms) + 1] = m
         /\ \A i \in 1 .. Len(ms) : Append(ms, m)[i] = ms[i]
OBVIOUS

(* The rounds that are there stay when a message joins. *)
LEMMA RoundsStay ==
  ASSUME NEW S, NEW ms \in Seq(S), NEW m \in S, NEW n \in Nat,
         2 * n <= Len(ms), Rounds(ms, n)
  PROVE  Rounds(Append(ms, m), n)
<1>1. ASSUME NEW i \in 1 .. n
      PROVE  Append(ms, m)[2 * i - 1] = ms[2 * i - 1] /\ Append(ms, m)[2 * i] = ms[2 * i]
  <2>1. 2 * i - 1 \in 1 .. Len(ms) /\ 2 * i \in 1 .. Len(ms)
    OBVIOUS
  <2>. QED  BY <2>1
<1>. QED  BY <1>1 DEF Rounds

(* Asking opens a round, executing goes on with it, and posting waits for its *)
(* end.                                                                       *)
LEMMA RoundsStep == Typed /\ ActsInv /\ RoundsInv /\ [Next]_vars => RoundsInv'
<1>. SUFFICES ASSUME Typed, ActsInv, RoundsInv, [Next]_vars PROVE RoundsInv'
  OBVIOUS
<1>. DEFINE M == Asks \cup Answers
<1>0. messages \in Seq(M) /\ todo \in Seq(Nat) /\ results \in Seq([id : Nat, ok : BOOLEAN])
      /\ tier \in Nat
  BY ConstantsAssumption DEF Typed, TypeOK, Asks, Answers, Uses, Results, Tiers
<1>. HIDE DEF M
<1>1. ASSUME Posting, phase' \in {"failed", "done"} PROVE RoundsInv'
  BY <1>1, PostedIsWellFormed DEF RoundsInv
<1>2. ASSUME phase' \in {"failed", "done"}, sent' = sent PROVE RoundsInv'
  BY <1>2 DEF RoundsInv, RequestsWellFormed
<1>3. ASSUME NEW d \in 0 .. PostLimit, NEW n \in 0 .. MaxUses, ToolUseArrives(d, n),
             phase' = "tools"
      PROVE  RoundsInv'
  <2>. DEFINE uses == [i \in 1 .. n |-> Asked + i]
              m == [role |-> "assistant", ids |-> uses]
  <2>1. /\ messages' = Append(messages, m) /\ todo' = uses /\ results' = <<>>
        /\ tier' = tier /\ Posting /\ (n > 0 => tier = 0)
    BY <1>3 DEF ToolUseArrives, TierFails, HasExecutor
  <2>2. n \in Nat /\ uses \in Uses
    BY ConstantsAssumption, UsesType DEF Typed
  <2>3. m \in M
    BY <2>2 DEF Asks, M
  <2>. HIDE DEF m
  <2>4. RequestsWellFormed'
    BY <2>1, PostedIsWellFormed
  <2>5. PICK k \in 0 .. Len(messages) : Len(messages) = 2 * k /\ Rounds(messages, k)
    BY <2>1 DEF Posting, RoundsInv, WellFormed
  <2>6. k \in Nat
    BY <2>5, <1>0
  <2>7. Rounds(messages', k)
    BY <2>1, <2>3, <2>5, <2>6, <1>0, RoundsStay
  <2>8. Len(messages') = 2 * k + 1 /\ messages'[2 * k + 1] = m
    <3>1. Len(messages') = Len(messages) + 1 /\ messages'[Len(messages) + 1] = m
      BY <2>1, <2>3, <1>0, AppendIs
    <3>. QED  BY <2>5, <3>1
  <2>9. Underway(m.ids, results', todo')
    <3>1. m.ids = uses /\ uses \in Seq(Nat)
      BY <2>2 DEF m, Uses
    <3>2. Len(uses) = Len(<<>>) + Len(uses)
      BY <3>1
    <3>. HIDE DEF uses
    <3>. QED  BY <2>1, <3>1, <3>2 DEF Underway
  <2>10. tier > 0 => \A i \in DOMAIN messages' : messages'[i].ids = <<>>
    <3>. SUFFICES ASSUME tier > 0, NEW i \in DOMAIN messages' PROVE messages'[i].ids = <<>>
      OBVIOUS
    <3>1. n = 0
      BY <2>1, <2>2
    <3>2. m.ids = <<>>
      BY <3>1 DEF m
    <3>3. i \in DOMAIN messages => messages'[i] = messages[i] /\ messages[i].ids = <<>>
      BY <2>1, <2>3, <1>0 DEF Posting, RoundsInv
    <3>4. i \in DOMAIN messages \/ i = 2 * k + 1
      BY <2>8, <2>5, <2>1, <2>3, <1>0, AppendIs
    <3>. QED  BY <3>2, <3>3, <3>4, <2>8
  <2>. HIDE DEF uses
  <2>11. m.role = "assistant"
    BY DEF m
  <2>. QED  BY <1>3, <2>1, <2>4, <2>6, <2>7, <2>8, <2>9, <2>10, <2>11 DEF RoundsInv
<1>4. ASSUME NEW d \in 0 .. ToolLimit, NEW ok \in BOOLEAN, ExecuteTool(d, ok)
      PROVE  RoundsInv'
  <2>. DEFINE r == [id |-> Head(todo), ok |-> ok]
  <2>1. /\ results' = Append(results, r) /\ todo' = Tail(todo) /\ todo # <<>>
        /\ phase = "tools" /\ UNCHANGED <<phase, tier, messages, sent>>
    BY <1>4 DEF ExecuteTool
  <2>2. r \in [id : Nat, ok : BOOLEAN] /\ r.id = todo[1]
    BY <2>1, <1>0
  <2>3. ~(tier > 0)
    BY <2>1 DEF ActsInv
  <2>4. ASSUME NEW ids, Underway(ids, results, todo) PROVE Underway(ids, results', todo')
    <3>. HIDE DEF r
    <3>1. /\ Len(results') = Len(results) + 1 /\ Len(todo') = Len(todo) - 1
          /\ Len(results) \in Nat /\ Len(todo) \in Nat \ {0}
      BY <2>1, <2>2, <1>0
    <3>2. \A j \in 1 .. Len(results') : ids[j] = results'[j].id
      <4>1. ids[Len(results) + 1] = todo[1]
        BY <2>4, <3>1 DEF Underway
      <4>. QED  BY <2>1, <2>2, <2>4, <3>1, <4>1, <1>0 DEF Underway
    <3>3. ASSUME NEW j \in 1 .. Len(todo') PROVE ids[Len(results') + j] = todo'[j]
      <4>1. todo'[j] = todo[j + 1] /\ j + 1 \in 1 .. Len(todo)
        BY <2>1, <3>1, <1>0
      <4>2. Len(results') + j = Len(results) + (j + 1)
        BY <3>1
      <4>. QED  BY <2>4, <4>1, <4>2 DEF Underway
    <3>4. Len(ids) = Len(results') + Len(todo')
      BY <2>4, <3>1 DEF Underway
    <3>. QED  BY <3>2, <3>3, <3>4 DEF Underway
  <2>5. PICK k \in Nat : /\ Len(messages) = 2 * k + 1 /\ Rounds(messages, k)
                         /\ messages[2 * k + 1].role = "assistant"
                         /\ Underway(messages[2 * k + 1].ids, results, todo)
    BY <2>1 DEF RoundsInv
  <2>6. Underway(messages[2 * k + 1].ids, results', todo')
    BY <2>1, <2>4, <2>5
  <2>7. RequestsWellFormed'
    BY <2>1 DEF RoundsInv, RequestsWellFormed
  <2>. QED  BY <2>1, <2>3, <2>5, <2>6, <2>7 DEF RoundsInv
<1>5. CASE FinishIteration
  <2>. DEFINE m == [role |-> "user", ids |-> results]
  <2>1. /\ messages' = Append(messages, m) /\ phase = "tools" /\ phase' = "post"
        /\ todo = <<>> /\ UNCHANGED <<tier, results, sent>>
    BY <1>5 DEF FinishIteration
  <2>2. m \in M
    BY <1>0 DEF Answers, Results, M
  <2>. HIDE DEF m
  <2>3. PICK k \in Nat : /\ Len(messages) = 2 * k + 1 /\ Rounds(messages, k)
                         /\ messages[2 * k + 1].role = "assistant"
                         /\ Underway(messages[2 * k + 1].ids, results, todo)
    BY <2>1 DEF RoundsInv
  <2>4. Rounds(messages', k)
    BY <2>1, <2>2, <2>3, <1>0, RoundsStay
  <2>5. /\ Len(messages') = 2 * (k + 1) /\ messages'[2 * k + 2] = m
        /\ messages'[2 * k + 1] = messages[2 * k + 1]
    <3>1. Len(messages') = Len(messages) + 1 /\ messages'[Len(messages) + 1] = m
      BY <2>1, <2>2, <1>0, AppendIs
    <3>2. messages'[Len(messages)] = messages[Len(messages)]
      BY <2>1, <2>2, <2>3, <1>0, AppendIs
    <3>. QED  BY <2>3, <3>1, <3>2
  <2>6. messages[2 * k + 1].ids = [j \in DOMAIN results |-> results[j].id]
    <3>1. messages[2 * k + 1] \in M
      BY <2>3, <1>0
    <3>2. messages[2 * k + 1].ids \in Seq(Nat)
      BY <2>3, <3>1 DEF M, Asks, Answers, Uses
    <3>3. DOMAIN messages[2 * k + 1].ids = DOMAIN results
      BY <2>1, <2>3, <3>2, <1>0 DEF Underway
    <3>4. \A j \in DOMAIN results : messages[2 * k + 1].ids[j] = results[j].id
      <4>1. DOMAIN results = 1 .. Len(results)
        BY <1>0
      <4>. QED  BY <2>3, <4>1 DEF Underway
    <3>. QED  BY <3>2, <3>3, <3>4
  <2>7. Rounds(messages', k + 1)
    <3>. SUFFICES ASSUME NEW i \in 1 .. k + 1
                  PROVE  /\ messages'[2 * i - 1].role = "assistant"
                         /\ messages'[2 * i].role = "user"
                         /\ messages'[2 * i - 1].ids
                              = [j \in DOMAIN messages'[2 * i].ids |-> messages'[2 * i].ids[j].id]
      BY DEF Rounds
    <3>1. CASE i \in 1 .. k
      BY <2>4, <3>1 DEF Rounds
    <3>2. CASE i = k + 1
      <4>1. messages'[2 * i] = m /\ messages'[2 * i - 1] = messages[2 * k + 1]
        BY <2>5, <3>2
      <4>2. m.role = "user" /\ m.ids = results
        BY DEF m
      <4>. QED  BY <2>3, <2>6, <4>1, <4>2
    <3>. QED  BY <3>1, <3>2
  <2>8. WellFormed(messages')
    BY <2>5, <2>7 DEF WellFormed
  <2>9. tier > 0 => \A i \in DOMAIN messages' : messages'[i].ids = <<>>
    <3>. SUFFICES ASSUME tier > 0, NEW i \in DOMAIN messages' PROVE messages'[i].ids = <<>>
      OBVIOUS
    <3>1. m.ids = <<>>
      BY <2>1 DEF m, RoundsInv
    <3>2. i \in DOMAIN messages \/ i = Len(messages) + 1
      BY <2>1, <2>2, <1>0, AppendIs
    <3>. QED  BY <2>1, <2>2, <3>1, <3>2, <1>0, AppendIs DEF RoundsInv
  <2>10. RequestsWellFormed'
    BY <2>1 DEF RoundsInv, RequestsWellFormed
  <2>. QED  BY <2>1, <2>8, <2>9, <2>10 DEF RoundsInv
<1>6. CASE NextTier
  <2>1. CASE tier < Fallbacks
    <3>1. WellFormed(<<>>)
      BY DEF WellFormed, Rounds
    <3>2. phase' = "post" /\ messages' = <<>> /\ sent' = sent
      BY <1>6, <2>1 DEF NextTier
    <3>. QED  BY <3>1, <3>2 DEF RoundsInv, RequestsWellFormed
  <2>2. CASE ~(tier < Fallbacks)
    BY <1>2, <1>6, <2>2 DEF NextTier
  <2>. QED  BY <2>1, <2>2
<1>7. ASSUME NEW d \in 0 .. PostLimit, NEW n \in 0 .. MaxUses, ToolUseArrives(d, n)
      PROVE  RoundsInv'
  <2>1. Posting /\ phase' \in {"failed", "tools"}
    BY <1>7 DEF ToolUseArrives, TierFails
  <2>. QED  BY <1>1, <1>3, <1>7, <2>1
<1>8. CASE UNCHANGED vars
  BY <1>8 DEF vars, RoundsInv, RequestsWellFormed, Underway
<1>. QED  BY <1>1, <1>2, <1>4, <1>5, <1>6, <1>7, <1>8
          DEF Next, Step, Returned, RequestFails, AnswerArrives, TierFails, Exhausted

(* Every request is one that the Messages API accepts, and a fallback tier is *)
(* asked afresh, whatever the model asks for and whatever fails.              *)
THEOREM RequestsAreWellFormed == Spec => []RequestsWellFormed
<1>1. RoundsInv => RequestsWellFormed
  BY DEF RoundsInv
<1>. QED  BY <1>1, RoundsInit, RoundsStep, ActsInit, ActsStep, TypedInit, TypedStep, PTL DEF Spec

-----------------------------------------------------------------------------
Elements(s) == {s[i] : i \in DOMAIN s}

\* While the primary runs, what its messages report and the results that wait
\* to join them are what was executed.
KnowsInv ==
  /\ tier = 0 /\ phase = "post" => Reported(messages) = Elements(performed)
  /\ tier = 0 /\ phase = "tools" =>
       Reported(messages) \cup Elements(results) = Elements(performed)
  /\ phase # "done" => ~outcome.ok
  /\ PrimaryKnowsItsEffects

(* A result is reported by a message that joins, or was before. *)
LEMMA ReportedAppend ==
  ASSUME NEW S, NEW ms \in Seq(S), NEW m \in S
  PROVE  Reported(Append(ms, m))
           = Reported(ms) \cup (IF m.role = "user" THEN Elements(m.ids) ELSE {})
<1>. DEFINE Says(r, n) == n.role = "user" /\ r \in Elements(n.ids)
<1>1. ASSUME NEW ns, NEW r
      PROVE  r \in Reported(ns) <=> \E i \in DOMAIN ns : Says(r, ns[i])
  BY DEF Reported, Elements
<1>. HIDE DEF Says
<1>2. /\ DOMAIN Append(ms, m) = 1 .. Len(ms) + 1 /\ DOMAIN ms = 1 .. Len(ms)
      /\ Len(ms) \in Nat
  BY AppendIs
<1>3. ASSUME NEW r
      PROVE  (\E i \in DOMAIN Append(ms, m) : Says(r, Append(ms, m)[i]))
               <=> Says(r, m) \/ \E i \in DOMAIN ms : Says(r, ms[i])
  BY <1>2, AppendIs
<1>4. ASSUME NEW r
      PROVE  r \in Reported(Append(ms, m)) <=> Says(r, m) \/ r \in Reported(ms)
  BY <1>1, <1>3
<1>. QED  BY <1>4 DEF Says

(* The elements of a sequence that grows by one. *)
LEMMA ElementsAppend ==
  ASSUME NEW S, NEW s \in Seq(S), NEW m \in S
  PROVE  Elements(Append(s, m)) = Elements(s) \cup {m}
<1>1. DOMAIN Append(s, m) = 1 .. Len(s) + 1 /\ DOMAIN s = 1 .. Len(s) /\ Len(s) \in Nat
  OBVIOUS
<1>2. Append(s, m)[Len(s) + 1] = m /\ \A i \in 1 .. Len(s) : Append(s, m)[i] = s[i]
  BY AppendIs
<1>. QED  BY <1>1, <1>2 DEF Elements

(* At first nothing is executed, and nothing reported. *)
LEMMA KnowsInit == Init => KnowsInv
<1>. SUFFICES ASSUME Init PROVE KnowsInv
  OBVIOUS
<1>1. Reported(<<>>) = {} /\ Elements(<<>>) = {}
  BY DEF Reported, Elements
<1>. QED  BY <1>1 DEF Init, KnowsInv, PrimaryKnowsItsEffects, NoOutcome

(* A result joins the messages when all of its round are there. *)
LEMMA KnowsStep == Typed /\ ActsInv /\ KnowsInv /\ [Next]_vars => KnowsInv'
<1>. SUFFICES ASSUME Typed, ActsInv, KnowsInv, [Next]_vars PROVE KnowsInv'
  OBVIOUS
<1>. DEFINE M == Asks \cup Answers
            R == [id : Nat, ok : BOOLEAN]
<1>0. messages \in Seq(M) /\ results \in Seq(R) /\ performed \in Seq(R) /\ tier \in Nat
  BY ConstantsAssumption DEF Typed, TypeOK, Asks, Answers, Results, Tiers
<1>. HIDE DEF M, R
<1>1. ASSUME phase # "done", phase' = "failed", outcome' = outcome PROVE KnowsInv'
  BY <1>1 DEF KnowsInv, PrimaryKnowsItsEffects
<1>2. ASSUME NEW d \in 0 .. PostLimit, NEW hasText \in BOOLEAN, AnswerArrives(d, hasText)
      PROVE  KnowsInv'
  <2>1. CASE hasText
    <3>1. /\ phase = "post" /\ phase' = "done" /\ outcome' = [ok |-> TRUE, tier |-> tier]
          /\ sent' = Request /\ UNCHANGED performed
      BY <1>2, <2>1 DEF AnswerArrives, Posting
    <3>2. outcome'.tier = tier /\ sent'.messages = messages
      BY <3>1 DEF Request
    <3>3. outcome'.tier = 0 => Reported(sent'.messages) = Elements(performed')
      BY <3>1, <3>2 DEF KnowsInv
    <3>. QED  BY <3>1, <3>3 DEF KnowsInv, PrimaryKnowsItsEffects, Elements
  <2>2. CASE ~hasText
    BY <1>1, <1>2, <2>2 DEF AnswerArrives, Posting, TierFails
  <2>. QED  BY <2>1, <2>2
<1>3. ASSUME NEW d \in 0 .. PostLimit, NEW n \in 0 .. MaxUses, ToolUseArrives(d, n)
      PROVE  KnowsInv'
  <2>. DEFINE uses == [i \in 1 .. n |-> Asked + i]
              m == [role |-> "assistant", ids |-> uses]
  <2>1. /\ phase = "post" /\ phase' \in {"failed", "tools"} /\ messages' = Append(messages, m)
        /\ UNCHANGED <<tier, performed, outcome>> /\ (phase' = "tools" => results' = <<>>)
    BY <1>3 DEF ToolUseArrives, Posting, TierFails
  <2>2. m \in M
    <3>1. n \in Nat
      BY ConstantsAssumption
    <3>. QED  BY <3>1, UsesType DEF Typed, M, Asks
  <2>3. m.role = "assistant"
    OBVIOUS
  <2>. HIDE DEF m
  <2>4. Reported(messages') = Reported(messages)
    <3>1. Reported(Append(messages, m))
            = Reported(messages) \cup (IF m.role = "user" THEN Elements(m.ids) ELSE {})
      BY <2>2, <1>0, ReportedAppend
    <3>2. m.role # "user"
      BY <2>3
    <3>. QED  BY <2>1, <3>1, <3>2
  <2>5. Elements(<<>>) = {}
    BY DEF Elements
  <2>6. ~outcome.ok
    BY <2>1 DEF KnowsInv
  <2>7. tier' = 0 /\ phase' = "tools"
          => Reported(messages') \cup Elements(results') = Elements(performed')
    BY <2>1, <2>4, <2>5 DEF KnowsInv
  <2>. QED  BY <2>1, <2>6, <2>7 DEF KnowsInv, PrimaryKnowsItsEffects
<1>4. ASSUME NEW d \in 0 .. ToolLimit, NEW ok \in BOOLEAN, ExecuteTool(d, ok)
      PROVE  KnowsInv'
  <2>. DEFINE r == [id |-> Head(todo), ok |-> ok]
  <2>1. /\ results' = Append(results, r) /\ performed' = Append(performed, r)
        /\ phase = "tools" /\ todo # <<>> /\ UNCHANGED <<phase, tier, messages, outcome>>
    BY <1>4 DEF ExecuteTool
  <2>2. r \in R
    BY <2>1 DEF R, Typed, TypeOK, Uses
  <2>. HIDE DEF r
  <2>3. /\ Elements(results') = Elements(results) \cup {r}
        /\ Elements(performed') = Elements(performed) \cup {r}
    BY <2>1, <2>2, <1>0, ElementsAppend
  <2>4. tier' = 0 => Reported(messages') \cup Elements(results') = Elements(performed')
    BY <2>1, <2>3 DEF KnowsInv
  <2>. QED  BY <2>1, <2>4 DEF KnowsInv, PrimaryKnowsItsEffects
<1>5. CASE FinishIteration
  <2>. DEFINE m == [role |-> "user", ids |-> results]
  <2>1. /\ messages' = Append(messages, m) /\ phase = "tools" /\ phase' = "post"
        /\ UNCHANGED <<tier, performed, outcome>>
    BY <1>5 DEF FinishIteration
  <2>2. m \in M
    BY <1>0 DEF Answers, Results, M, R
  <2>3. m.role = "user" /\ m.ids = results
    OBVIOUS
  <2>. HIDE DEF m
  <2>4. Reported(messages') = Reported(messages) \cup Elements(results)
    BY <2>1, <2>2, <2>3, <1>0, ReportedAppend
  <2>5. tier' = 0 => Reported(messages') = Elements(performed')
    BY <2>1, <2>4 DEF KnowsInv
  <2>. QED  BY <2>1, <2>5 DEF KnowsInv, PrimaryKnowsItsEffects
<1>6. CASE NextTier
  <2>1. CASE tier < Fallbacks
    <3>1. tier' # 0 /\ phase' = "post" /\ ~outcome'.ok
      BY <1>6, <2>1, <1>0 DEF NextTier, KnowsInv
    <3>. QED  BY <3>1 DEF KnowsInv, PrimaryKnowsItsEffects
  <2>2. CASE ~(tier < Fallbacks)
    <3>1. phase' = "done" /\ ~outcome'.ok
      BY <1>6, <2>2 DEF NextTier
    <3>. QED  BY <3>1 DEF KnowsInv, PrimaryKnowsItsEffects
  <2>. QED  BY <2>1, <2>2
<1>7. ASSUME NEW d \in 0 .. PostLimit, RequestFails(d) PROVE KnowsInv'
  BY <1>1, <1>7 DEF RequestFails, Posting, TierFails
<1>8. CASE Exhausted
  BY <1>1, <1>8 DEF Exhausted, TierFails
<1>9. CASE UNCHANGED vars
  BY <1>9 DEF vars, KnowsInv, PrimaryKnowsItsEffects
<1>. QED  BY <1>2, <1>3, <1>4, <1>5, <1>6, <1>7, <1>8, <1>9 DEF Next, Step, Returned

(* The primary answers in knowledge of every tool call that was executed.     *)
THEOREM PrimaryKnows == Spec => []PrimaryKnowsItsEffects
<1>1. KnowsInv => PrimaryKnowsItsEffects
  BY DEF KnowsInv
<1>. QED  BY <1>1, KnowsInit, KnowsStep, ActsInit, ActsStep, TypedInit, TypedStep, PTL DEF Spec
-----------------------------------------------------------------------------
\* While tools are executed, the last request is the one that was answered by
\* asking for them: it reports what the messages do, and of what was executed
\* the results of this round are the end.
AskedInv ==
  phase = "tools" =>
    /\ Reported(sent.messages) = Reported(messages)
    /\ Len(results) <= Len(performed)
    /\ \A j \in DOMAIN results : results[j].id = Len(performed) - Len(results) + j

(* At first no tool was asked for. *)
LEMMA AskedInit == Init => AskedInv
BY DEF Init, AskedInv

(* The model's turn reports nothing, and each result is the last one. *)
LEMMA AskedStep == Typed /\ ActsInv /\ IdsInv /\ AskedInv /\ [Next]_vars => AskedInv'
<1>. SUFFICES ASSUME Typed, ActsInv, IdsInv, AskedInv, [Next]_vars PROVE AskedInv'
  OBVIOUS
<1>. DEFINE M == Asks \cup Answers
            R == [id : Nat, ok : BOOLEAN]
<1>0. messages \in Seq(M) /\ results \in Seq(R) /\ performed \in Seq(R) /\ todo \in Seq(Nat)
  BY DEF Typed, TypeOK, Asks, Answers, Results, Uses
<1>. HIDE DEF M, R
<1>1. ASSUME NEW d \in 0 .. PostLimit, NEW n \in 0 .. MaxUses, ToolUseArrives(d, n)
      PROVE  AskedInv'
  <2>. DEFINE m == [role |-> "assistant", ids |-> [i \in 1 .. n |-> Asked + i]]
  <2>1. /\ sent' = Request /\ messages' = Append(messages, m) /\ performed' = performed
        /\ (phase' = "tools" => results' = <<>>)
    BY <1>1 DEF ToolUseArrives, Posting, TierFails
  <2>2. m \in M
    <3>1. n \in Nat
      BY ConstantsAssumption
    <3>. QED  BY <3>1, UsesType DEF Typed, M, Asks
  <2>3. m.role # "user"
    OBVIOUS
  <2>. HIDE DEF m
  <2>4. Reported(messages') = Reported(messages)
    <3>1. Reported(Append(messages, m))
            = Reported(messages) \cup (IF m.role = "user" THEN Elements(m.ids) ELSE {})
      BY <1>0, <2>2, ReportedAppend
    <3>. QED  BY <2>1, <2>3, <3>1
  <2>5. sent'.messages = messages
    BY <2>1 DEF Request
  <2>. QED  BY <1>0, <2>1, <2>4, <2>5 DEF AskedInv
<1>2. ASSUME NEW d \in 0 .. ToolLimit, NEW ok \in BOOLEAN, ExecuteTool(d, ok)
      PROVE  AskedInv'
  <2>. DEFINE r == [id |-> Head(todo), ok |-> ok]
  <2>1. /\ results' = Append(results, r) /\ performed' = Append(performed, r)
        /\ phase = "tools" /\ todo # <<>> /\ UNCHANGED <<messages, sent>>
    BY <1>2 DEF ExecuteTool
  <2>2. r \in R /\ r.id = Len(performed) + 1
    BY <1>0, <2>1 DEF IdsInv, R
  <2>. HIDE DEF r
  <2>3. /\ Len(results') = Len(results) + 1 /\ Len(performed') = Len(performed) + 1
        /\ results'[Len(results) + 1] = r
        /\ \A j \in 1 .. Len(results) : results'[j] = results[j]
    BY <1>0, <2>1, <2>2, AppendIs
  <2>4. /\ DOMAIN results = 1 .. Len(results) /\ DOMAIN results' = 1 .. Len(results) + 1
        /\ Len(results) \in Nat /\ Len(performed) \in Nat
    BY <1>0, <2>1, <2>2, <2>3
  <2>5. ASSUME NEW j \in 1 .. Len(results) + 1
        PROVE  results'[j].id = Len(performed') - Len(results') + j
    <3>1. CASE j = Len(results) + 1
      BY <2>2, <2>3, <2>4, <3>1
    <3>2. CASE j \in 1 .. Len(results)
      <4>1. results[j].id = Len(performed) - Len(results) + j
        BY <2>1, <2>4, <3>2 DEF AskedInv
      <4>. QED  BY <2>3, <2>4, <3>2, <4>1
    <3>. QED  BY <2>4, <3>1, <3>2
  <2>6. Reported(sent'.messages) = Reported(messages') /\ Len(results') <= Len(performed')
    BY <2>1, <2>3, <2>4 DEF AskedInv
  <2>. QED  BY <2>4, <2>5, <2>6 DEF AskedInv
<1>3. ASSUME phase' # "tools" PROVE AskedInv'
  BY <1>3 DEF AskedInv
<1>4. CASE UNCHANGED vars
  <2>1. UNCHANGED <<phase, messages, results, performed, sent>>
    BY <1>4 DEF vars
  <2>. QED  BY <2>1 DEF AskedInv
<1>. QED  BY <1>1, <1>2, <1>3, <1>4
          DEF Next, Step, Returned, RequestFails, AnswerArrives, TierFails, FinishIteration,
              Exhausted, NextTier

\* How many tool calls had been executed when the last request was posted.
Earlier == Len(performed) - IF todo # <<>> THEN Len(results) ELSE 0

\* The request that is answered by asking for tools, at whichever tier they are
\* executed, and the one that the primary answers with a text, report every
\* earlier tool call, with its outcome and no other.
ActsKnowing ==
  todo # <<>> \/ (outcome.ok /\ outcome.tier = 0) =>
    \A i \in 1 .. Earlier, ok \in BOOLEAN :
      [id |-> i, ok |-> ok] \in Reported(sent.messages) <=> ok = performed[i].ok

(* What is not among the results of this round has been reported. *)
LEMMA KnowsWhenActing ==
  Typed /\ ActsInv /\ IdsInv /\ KnowsInv /\ AskedInv => ActsKnowing
<1>. SUFFICES ASSUME Typed, ActsInv, IdsInv, KnowsInv, AskedInv,
                     todo # <<>> \/ (outcome.ok /\ outcome.tier = 0),
                     NEW i \in 1 .. Earlier, NEW ok \in BOOLEAN
              PROVE  [id |-> i, ok |-> ok] \in Reported(sent.messages) <=> ok = performed[i].ok
  BY DEF ActsKnowing
<1>. DEFINE S == Reported(sent.messages)
            R == [id : Nat, ok : BOOLEAN]
<1>1. /\ performed \in Seq(R) /\ results \in Seq(R) /\ tier \in Nat
      /\ Len(performed) \in Nat /\ Len(results) \in Nat
      /\ DOMAIN performed = 1 .. Len(performed) /\ DOMAIN results = 1 .. Len(results)
  BY ConstantsAssumption DEF Typed, TypeOK, Results, Tiers
<1>. HIDE DEF S
<1>2. S \subseteq Elements(performed) /\ performed[i] \in S /\ i \in DOMAIN performed
  <2>1. CASE todo # <<>>
    <3>1. phase = "tools" /\ tier = 0
      BY <1>1, <2>1 DEF ActsInv
    <3>2. S \cup Elements(results) = Elements(performed)
      BY <3>1 DEF S, AskedInv, KnowsInv
    <3>3. i \in DOMAIN performed /\ i <= Len(performed) - Len(results)
      BY <1>1, <2>1 DEF Earlier
    <3>4. performed[i] \in Elements(performed) /\ performed[i].id = i
      BY <3>3 DEF Elements, IdsInv
    <3>5. performed[i] \notin Elements(results)
      <4>. SUFFICES ASSUME NEW j \in DOMAIN results, performed[i] = results[j] PROVE FALSE
        BY DEF Elements
      <4>1. results[j].id = Len(performed) - Len(results) + j
        BY <3>1 DEF AskedInv
      <4>. QED  BY <1>1, <3>3, <3>4, <4>1
    <3>. QED  BY <3>2, <3>3, <3>4, <3>5
  <2>2. CASE todo = <<>>
    <3>1. S = Elements(performed)
      BY <2>2 DEF S, KnowsInv, PrimaryKnowsItsEffects, Elements
    <3>2. i \in DOMAIN performed
      BY <1>1, <2>2 DEF Earlier
    <3>. QED  BY <3>1, <3>2 DEF Elements
  <2>. QED  BY <2>1, <2>2
<1>3. performed[i] \in R /\ performed[i].id = i
  <2>1. performed[i].id = i
    BY <1>2 DEF IdsInv
  <2>2. performed[i] \in R
    <3>. HIDE DEF R
    <3>. QED  BY <1>1, <1>2
  <2>. QED  BY <2>1, <2>2
<1>4. performed[i] = [id |-> i, ok |-> performed[i].ok]
  BY <1>3
<1>5. ASSUME [id |-> i, ok |-> ok] \in S PROVE ok = performed[i].ok
  <2>1. PICK k \in DOMAIN performed : performed[k] = [id |-> i, ok |-> ok]
    BY <1>2, <1>5 DEF Elements
  <2>2. performed[k].id = k
    BY DEF IdsInv
  <2>. QED  BY <2>1, <2>2
<1>. QED  BY <1>2, <1>4, <1>5 DEF S

(* Whoever has a tool executed, or answers as the primary, has been told of       *)
(* everything that was executed before it was asked, however many rounds, tiers  *)
(* and tools of one response there are.                                          *)
THEOREM NobodyActsUnaware == Spec => []ActsKnowing
BY KnowsWhenActing, AskedInit, AskedStep, KnowsInit, KnowsStep, IdsInit, IdsStep, ActsInit,
   ActsStep, TypedInit, TypedStep, PTL DEF Spec

-----------------------------------------------------------------------------
(* How much work Run has left.                                             *)

\* Steps of one round at most: the request, its tools, their results.
Round == MaxUses + 2

\* Steps of one tier at most: its rounds, the end of its loop, and what follows.
TierWork == MaxToolIterations * Round + 2

\* Steps that the running tier may still take.
Left ==
  CASE phase = "post" -> (MaxToolIterations - iteration) * Round + 2
    [] phase = "tools" -> (MaxToolIterations - iteration - 1) * Round + Len(todo) + 3
    [] phase = "failed" -> 1
    [] OTHER -> 0

Work == (Fallbacks - tier) * TierWork + Left

(* Arithmetic: one round less is Round steps less, ... *)
LEMMA OneRoundLess ==
  ASSUME NEW k \in Nat \ {0}
  PROVE  /\ k * Round \in Nat /\ (k - 1) * Round \in Nat
         /\ k * Round = (k - 1) * Round + Round
<1>1. Round \in Nat
  BY ConstantsAssumption DEF Round
<1>. QED  BY <1>1

(* ... and one tier less TierWork. *)
LEMMA OneTierLess ==
  /\ TierWork \in Nat
  /\ \A k \in Nat : k * TierWork \in Nat
  /\ \A k \in Nat \ {0} : k * TierWork = (k - 1) * TierWork + TierWork
<1>1. Round \in Nat /\ MaxToolIterations \in Nat
  BY ConstantsAssumption DEF Round
<1>2. MaxToolIterations * Round \in Nat
  BY <1>1
<1>3. TierWork \in Nat
  BY <1>2 DEF TierWork
<1>. QED  BY <1>3

(* There is never less than nothing left. *)
LEMMA LeftIsNat == Typed => Left \in Nat
<1>. SUFFICES ASSUME Typed PROVE Left \in Nat
  OBVIOUS
<1>1. Round \in Nat /\ MaxToolIterations \in Nat /\ iteration \in 0 .. MaxToolIterations
  BY ConstantsAssumption DEF Typed, TypeOK, Round
<1>2. CASE phase = "post"
  <2>1. MaxToolIterations - iteration \in Nat
    BY <1>1
  <2>2. (MaxToolIterations - iteration) * Round \in Nat
    BY <1>1, <2>1
  <2>. QED  BY <1>2, <2>2 DEF Left
<1>3. CASE phase = "tools"
  <2>1. MaxToolIterations - iteration - 1 \in Nat /\ Len(todo) \in Nat
    BY <1>1, <1>3 DEF Typed, TypeOK, Uses
  <2>2. (MaxToolIterations - iteration - 1) * Round \in Nat
    BY <1>1, <2>1
  <2>. QED  BY <1>3, <2>1, <2>2 DEF Left
<1>4. CASE phase \notin {"post", "tools"}
  BY <1>4 DEF Left
<1>. QED  BY <1>2, <1>3, <1>4

(* Nor after a step. *)
LEMMA LeftStaysNat == Typed' => (Left \in Nat)'
BY LeftIsNat, PTL

(* So there is none of the whole. *)
LEMMA WorkIsNat == Typed => Work \in Nat
<1>. SUFFICES ASSUME Typed PROVE Work \in Nat
  OBVIOUS
<1>1. Fallbacks - tier \in Nat
  BY ConstantsAssumption DEF Typed, TypeOK, Tiers
<1>2. (Fallbacks - tier) * TierWork \in Nat
  BY <1>1, OneTierLess
<1>. QED  BY <1>2, LeftIsNat DEF Work

(* A step of the running tier leaves it less. *)
LEMMA LessLeft ==
  ASSUME Typed, Typed', tier' = tier, Left' < Left
  PROVE  Work' < Work
<1>1. Fallbacks - tier \in Nat
  BY ConstantsAssumption DEF Typed, TypeOK, Tiers
<1>2. PICK others \in Nat : others = (Fallbacks - tier) * TierWork
  BY <1>1, OneTierLess
<1>3. TierWork' = TierWork
  BY DEF TierWork, Round
<1>4. Work = others + Left /\ Work' = others + Left'
  BY <1>2, <1>3 DEF Work
<1>5. Left \in Nat /\ (Left \in Nat)'
  BY LeftIsNat, LeftStaysNat
<1>6. PICK l \in Nat : l = Left
  BY <1>5
<1>7. PICK m \in Nat : m = Left'
  BY <1>5
<1>8. m < l
  BY <1>6, <1>7
<1>9. Work = others + l
  BY <1>4, <1>6
<1>10. Work' = others + m
  BY <1>4, <1>7
<1>. QED  BY <1>8, <1>9, <1>10

(* Every step leaves Run less to do. *)
LEMMA WorkStep == Typed /\ Step => Work' < Work
<1>. SUFFICES ASSUME Typed, Step PROVE Work' < Work
  OBVIOUS
<1>. DEFINE toGo == MaxToolIterations - iteration
<1>1. Typed'
  BY TypedStep DEF Next
<1>2. /\ Round \in Nat /\ Round = MaxUses + 2 /\ MaxUses \in Nat
      /\ MaxToolIterations \in Nat /\ iteration \in 0 .. MaxToolIterations
  BY ConstantsAssumption DEF Typed, TypeOK, Round
<1>3. ASSUME phase = "post", phase' \in {"failed", "done"}, tier' = tier PROVE Work' < Work
  <2>1. toGo * Round \in Nat
    BY <1>2
  <2>2. Left = toGo * Round + 2 /\ Left' \in {0, 1}
    BY <1>3 DEF Left
  <2>3. Left' < Left
    BY <2>1, <2>2
  <2>. QED  BY <1>1, <1>3, <2>3, LessLeft
<1>4. ASSUME NEW d \in 0 .. PostLimit, RequestFails(d) PROVE Work' < Work
  BY <1>3, <1>4 DEF RequestFails, Posting, TierFails
<1>5. ASSUME NEW d \in 0 .. PostLimit, NEW hasText \in BOOLEAN, AnswerArrives(d, hasText)
      PROVE  Work' < Work
  BY <1>3, <1>5 DEF AnswerArrives, Posting, TierFails
<1>6. ASSUME NEW d \in 0 .. PostLimit, NEW n \in 0 .. MaxUses, ToolUseArrives(d, n)
      PROVE  Work' < Work
  <2>. DEFINE uses == [i \in 1 .. n |-> Asked + i]
  <2>1. phase = "post" /\ iteration < MaxToolIterations /\ UNCHANGED <<tier, iteration>>
    BY <1>6 DEF ToolUseArrives, Posting
  <2>2. CASE phase' = "failed"
    BY <1>3, <2>1, <2>2
  <2>3. CASE phase' # "failed"
    <3>1. phase' = "tools" /\ todo' = uses
      BY <1>6, <2>3 DEF ToolUseArrives, TierFails
    <3>2. Len(todo') = n /\ n \in Nat /\ n <= MaxUses
      BY <1>2, <3>1
    <3>3. toGo \in Nat \ {0}
      BY <1>2, <2>1
    <3>4. /\ toGo * Round = (toGo - 1) * Round + Round /\ (toGo - 1) * Round \in Nat
      BY <3>3, OneRoundLess
    <3>5. Left = toGo * Round + 2 /\ Left' = (toGo - 1) * Round + n + 3
      BY <2>1, <3>1, <3>2 DEF Left, Round
    <3>6. Left' < Left
      BY <1>2, <3>2, <3>4, <3>5
    <3>. QED  BY <1>1, <2>1, <3>6, LessLeft
  <2>. QED  BY <2>2, <2>3
<1>7. ASSUME NEW d \in 0 .. ToolLimit, NEW ok \in BOOLEAN, ExecuteTool(d, ok)
      PROVE  Work' < Work
  <2>1. phase = "tools" /\ todo # <<>> /\ todo' = Tail(todo) /\ UNCHANGED <<phase, tier, iteration>>
    BY <1>7 DEF ExecuteTool
  <2>2. Len(todo) \in Nat /\ Len(todo') = Len(todo) - 1
    BY <2>1 DEF Typed, TypeOK, Uses
  <2>3. toGo \in Nat \ {0}
    BY <1>2, <2>1 DEF Typed
  <2>4. (toGo - 1) * Round \in Nat
    BY <2>3, OneRoundLess
  <2>5. Left = (toGo - 1) * Round + Len(todo) + 3 /\ Left' = (toGo - 1) * Round + Len(todo') + 3
    BY <2>1 DEF Left, Round
  <2>6. Left' < Left
    BY <2>2, <2>4, <2>5
  <2>. QED  BY <1>1, <2>1, <2>6, LessLeft
<1>8. CASE FinishIteration
  <2>1. /\ phase = "tools" /\ todo = <<>> /\ phase' = "post" /\ iteration' = iteration + 1
        /\ tier' = tier
    BY <1>8 DEF FinishIteration
  <2>2. toGo \in Nat \ {0} /\ MaxToolIterations - iteration' = toGo - 1
    BY <1>2, <2>1 DEF Typed
  <2>3. (toGo - 1) * Round \in Nat
    BY <2>2, OneRoundLess
  <2>4. Left = (toGo - 1) * Round + 0 + 3 /\ Left' = (toGo - 1) * Round + 2
    BY <2>1, <2>2 DEF Left, Round
  <2>5. Left' < Left
    BY <2>3, <2>4
  <2>. QED  BY <1>1, <2>1, <2>5, LessLeft
<1>9. CASE Exhausted
  BY <1>3, <1>9 DEF Exhausted, TierFails
<1>10. CASE NextTier
  <2>1. phase = "failed" /\ Left = 1
    BY <1>10 DEF NextTier, Left
  <2>2. CASE tier < Fallbacks
    <3>1. phase' = "post" /\ tier' = tier + 1 /\ iteration' = 0
      BY <1>10, <2>2 DEF NextTier
    <3>2. Left' = TierWork
      BY <1>2, <3>1 DEF Left, TierWork, Round
    <3>3. Fallbacks - tier \in Nat \ {0} /\ Fallbacks - tier' = Fallbacks - tier - 1
      BY <2>2, <3>1, ConstantsAssumption DEF Typed, TypeOK, Tiers
    <3>4. /\ (Fallbacks - tier) * TierWork = (Fallbacks - tier - 1) * TierWork + TierWork
          /\ (Fallbacks - tier - 1) * TierWork \in Nat /\ TierWork \in Nat
      BY <3>3, OneTierLess
    <3>5. /\ Work = (Fallbacks - tier) * TierWork + 1
          /\ Work' = (Fallbacks - tier - 1) * TierWork + TierWork
      BY <2>1, <3>2, <3>3 DEF Work, TierWork, Round
    <3>. QED  BY <3>4, <3>5
  <2>3. CASE ~(tier < Fallbacks)
    <3>1. phase' = "done" /\ tier' = tier
      BY <1>10, <2>3 DEF NextTier
    <3>2. Left' = 0
      BY <3>1 DEF Left
    <3>. QED  BY <1>1, <2>1, <3>1, <3>2, LessLeft
  <2>. QED  BY <2>2, <2>3
<1>. QED  BY <1>4, <1>5, <1>6, <1>7, <1>8, <1>9, <1>10 DEF Step

(* A call of Run cannot go on for ever: every step leaves it less to do, down  *)
(* to nothing, whatever the API answers, however many tools the model asks    *)
(* for, and however long they take.                                           *)
THEOREM RunIsBounded == Spec => [](Work \in Nat) /\ [][Work' < Work]_vars
<1>1. Typed /\ [Next]_vars => [Work' < Work]_vars
  BY WorkStep DEF Next, Returned
<1>. QED  BY <1>1, WorkIsNat, TypedInit, TypedStep, PTL DEF Spec

=============================================================================
