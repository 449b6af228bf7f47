--------------------------- MODULE AssistantProofs ---------------------------
(***************************************************************************)
(* Theorems about Assistant: whatever the turns, the model and the process *)
(* do, the tools are used as Fastmail says, and only for whom the          *)
(* configuration lists.                                                    *)
(***************************************************************************)
EXTENDS Assistant, FastmailProofs

(* A process that is down uses no tool, whatever it is configured to do.    *)
LEMMA AssistantInit == Init => MailInit
BY DEF Init

(* Each step of the assistant is a step of the tools, or none.              *)
LEMMA AssistantStep == [Next]_vars => [MailNext]_mailVars
<1>. SUFFICES ASSUME [Next]_vars PROVE [MailNext]_mailVars
  OBVIOUS
<1>1. ASSUME NEW file \in Files, LoadConfig(file) PROVE UNCHANGED mailVars
  BY <1>1 DEF LoadConfig
<1>2. CASE FindCalendars
  BY <1>2 DEF FindCalendars, MailNext
<1>3. CASE FindAccount
  BY <1>3 DEF FindAccount, MailNext
<1>4. CASE Crash
  BY <1>4 DEF Crash, MailNext
<1>5. ASSUME NEW channel \in Channels, NEW user \in Users, Ask(channel, user)
      PROVE  UNCHANGED mailVars
  BY <1>5 DEF Ask
<1>6. CASE Reply
  BY <1>6 DEF Reply
<1>7. CASE Think
  BY <1>7 DEF Think
<1>8. CASE ToolReturns
  <2>1. UNCHANGED mailVars
    BY <1>8 DEF ToolReturns
  <2>. QED  BY <2>1
<1>9. CASE Elsewhere
  BY <1>9 DEF Elsewhere, MailNext
<1>10. ASSUME NEW in \in Inputs, CallTool(in) PROVE MailNext
  <2>1. NextCall \in Calls
    BY <1>10 DEF CallTool, NextCall, NewCalls
  <2>. QED  BY <1>10, <2>1 DEF CallTool, MailNext
<1>11. CASE UNCHANGED vars
  BY <1>11 DEF vars
<1>. QED  BY <1>1, <1>2, <1>3, <1>4, <1>5, <1>6, <1>7, <1>8, <1>9, <1>10, <1>11 DEF Next

(* The assistant implements the abstract specification of the tools: what     *)
(* was proved of them holds in every deployment.                              *)
THEOREM AssistantUsesMail == Spec => MailSpec
BY AssistantInit, AssistantStep, PTL DEF Spec, MailSpec

(* What the assistant told its user was created is there.                     *)
THEOREM AssistantTellsTruth == Spec => []CreatedEventExists
BY AssistantUsesMail, CreatedIsTrue, PTL

(* The assistant puts an event where the user, and not the server, calls it.  *)
THEOREM AssistantFindsCalendar == Spec => NamedCalendarIsUsed
BY AssistantUsesMail, NamesAreResolved, PTL
-----------------------------------------------------------------------------
\* What keeps OnlyEntitledAct: a configuration that is in use was accepted, a
\* call belongs to a turn, and a turn to somebody who was let in.
EntitledInv ==
  /\ config = Refused \/ ~Conflict(config)
  /\ process = "down" => asker = Nobody
  /\ asker = Nobody => current = NoCall
  /\ asker # Nobody => Allowed(config, asker.channel, asker.user)

(* At the start there is no turn. *)
LEMMA EntitledInit == Init => EntitledInv
BY DEF Init, Idle, EntitledInv

(* A turn never outlives the configuration that let it in. *)
LEMMA EntitledStep == EntitledInv /\ [Next]_vars => EntitledInv'
<1>. SUFFICES ASSUME EntitledInv, [Next]_vars PROVE EntitledInv'
  OBVIOUS
<1>1. ASSUME NEW file \in Files, LoadConfig(file) PROVE EntitledInv'
  <2>1. Load(file) # Refused /\ config' = Load(file) /\ process = "down" /\ UNCHANGED turn
    BY <1>1 DEF LoadConfig
  <2>2. ~Conflict(file) /\ config' = WithDefaults(file)
    BY <2>1 DEF Load, Acceptable
  <2>3. WithDefaults(file).channels = file.channels
    BY FilesAssumption DEF WithDefaults, ConfigFiles
  <2>. QED  BY <2>1, <2>2, <2>3 DEF EntitledInv, turn, Conflict
<1>2. CASE FindCalendars \/ FindAccount \/ Think \/ Elsewhere
  BY <1>2 DEF FindCalendars, FindAccount, Think, Elsewhere, turn, EntitledInv
<1>4. CASE Crash
  BY <1>4 DEF Crash, Reset, EntitledInv
<1>5. ASSUME NEW channel \in Channels, NEW user \in Users, Ask(channel, user)
      PROVE  EntitledInv'
  BY <1>5 DEF Ask, Reset, EntitledInv
<1>6. CASE Reply
  BY <1>6 DEF Reply, Reset, EntitledInv
<1>8. CASE ToolReturns
  BY <1>8 DEF ToolReturns, EntitledInv
<1>10. ASSUME NEW in \in Inputs, CallTool(in) PROVE EntitledInv'
  BY <1>10 DEF CallTool, EntitledInv
<1>11. CASE UNCHANGED vars
  BY <1>11 DEF vars, turn, EntitledInv
<1>. QED  BY <1>1, <1>2, <1>4, <1>5, <1>6, <1>8, <1>10, <1>11 DEF Next

(* Whom Allowed let in under an accepted configuration is entitled. *)
LEMMA EntitledImplies == EntitledInv => OnlyEntitledAct
BY DEF EntitledInv, OnlyEntitledAct, Allowed, Conflict, Refused

(* Nobody but the users a channel lists makes the assistant act.              *)
THEOREM EntitledOnly == Spec => []OnlyEntitledAct
BY EntitledInit, EntitledStep, EntitledImplies, PTL DEF Spec

-----------------------------------------------------------------------------
(* What is proved of one call of Run holds of every turn.                   *)

\* FallbackProofs, of the same instance as Runner.
Run == INSTANCE FallbackProofs WITH
  Override <- "none", NoModel <- "none", TierModel <- [t \in 0 .. Fallbacks |-> "model"],
  Deadline <- 1, PostLimit <- 0, ToolLimit <- 0

(* Its theorems apply: this instance is within its assumptions, ... *)
LEMMA RunAssumption == Run!ConstantsAssumption
BY TiersAssumption DEF Run!ConstantsAssumption

(* ... and its steps are those of Runner. *)
LEMMA RunIsRunner ==
  /\ Runner!Step => [Run!Next]_(Run!vars)
  /\ UNCHANGED run => [Run!Next]_(Run!vars)
<1>1. Runner!Step <=> Run!Step
  BY DEF Runner!Tiers, Run!Tiers, Runner!Phases, Run!Phases,
     Runner!Reasons, Run!Reasons, Runner!NoOutcome, Run!NoOutcome,
     Runner!HasExecutor, Run!HasExecutor, Runner!ModelOf, Run!ModelOf,
     Runner!Request, Run!Request, Runner!Asked, Run!Asked,
     Runner!Passes, Run!Passes, Runner!InTime, Run!InTime,
     Runner!TierFails, Run!TierFails, Runner!Posting, Run!Posting,
     Runner!RequestFails, Run!RequestFails,
     Runner!AnswerArrives, Run!AnswerArrives,
     Runner!ToolUseArrives, Run!ToolUseArrives,
     Runner!ExecuteTool, Run!ExecuteTool,
     Runner!FinishIteration, Run!FinishIteration,
     Runner!Exhausted, Run!Exhausted, Runner!NextTier, Run!NextTier,
     Runner!Step, Run!Step
<1>2. UNCHANGED run => UNCHANGED Run!vars
  BY DEF run, Run!vars
<1>. QED  BY <1>1, <1>2 DEF Run!Next

\* What the proofs about Run show of each of its steps.
RunKept ==
  Run!Typed /\ Run!ActsInv /\ Run!IdsInv /\ Run!RoundsInv /\ Run!KnowsInv /\ Run!AskedInv

\* Between two turns there is no call of Run, and so no tier that was tried.
RunInv == RunKept /\ (asker # Nobody => Run!TierInv)

(* Each step of a call of Run keeps what the proofs about it show. *)
LEMMA RunGoesOn ==
  ASSUME RunInv, [Run!Next]_(Run!vars), asker' = asker
  PROVE  RunInv'
<1>. USE RunAssumption DEF RunInv, RunKept
<1>1. Run!Typed'
  BY Run!TypedStep DEF Run!TypedStep
<1>2. Run!ActsInv'
  BY Run!ActsStep DEF Run!ActsStep
<1>3. Run!IdsInv'
  BY Run!IdsStep DEF Run!IdsStep
<1>4. Run!RoundsInv'
  BY Run!RoundsStep DEF Run!RoundsStep
<1>5. Run!KnowsInv'
  BY Run!KnowsStep DEF Run!KnowsStep
<1>6. Run!AskedInv'
  BY Run!AskedStep DEF Run!AskedStep
<1>7. asker' # Nobody => Run!TierInv'
  <2>1. Nobody' = Nobody
    BY DEF Nobody
  <2>. QED  BY <2>1, Run!TierStep DEF Run!TierStep
<1>. QED  BY <1>1, <1>2, <1>3, <1>4, <1>5, <1>6, <1>7

(* No messages are no rounds. *)
LEMMA NoRounds == Run!WellFormed(<<>>)
BY DEF Run!WellFormed, Run!Rounds

(* No call of Run, or one that begins. *)
LEMMA RunInit == Init => RunInv
<1>. SUFFICES ASSUME Init PROVE RunInv
  OBVIOUS
<1>1. asker = Nobody /\ tier \in Run!Tiers /\ iteration \in 0 .. MaxToolIterations
  BY TiersAssumption DEF Init, Idle, Run!Tiers
<1>2. Run!Typed
  BY <1>1 DEF Init, Idle, Runner!NoOutcome, Run!Typed, Run!TypeOK, Run!Phases, Run!Uses,
              Run!Results, Run!NoOutcome
<1>3. Run!ActsInv /\ Run!IdsInv /\ Run!AskedInv
  BY <1>1 DEF Init, Idle, Run!ActsInv, Run!IdsInv, Run!AskedInv
<1>4. Run!RoundsInv
  BY DEF Init, Idle, Run!RoundsInv, Run!RequestsWellFormed
<1>5. Run!KnowsInv
  BY DEF Init, Idle, Runner!NoOutcome, Run!KnowsInv, Run!PrimaryKnowsItsEffects,
         Run!Reported, Run!Elements
<1>. QED  BY <1>1, <1>2, <1>3, <1>4, <1>5 DEF RunInv, RunKept

LEMMA RunAnew ==
  ASSUME NEW to \in {"post", "done"}, Reset(to), to = "post" \/ asker' = Nobody
  PROVE  RunInv'
<1>1. /\ phase' = to /\ tier' \in Run!Tiers /\ iteration' \in 0 .. MaxToolIterations
      /\ tier' = 0 /\ iteration' = 0 /\ iteration' < MaxToolIterations
  BY TiersAssumption DEF Reset, Run!Tiers
<1>2. Run!Typed'
  BY <1>1 DEF Reset, Runner!NoOutcome, Run!Typed, Run!TypeOK, Run!Phases, Run!Uses,
              Run!Results, Run!NoOutcome
<1>3. Run!ActsInv' /\ Run!IdsInv' /\ Run!AskedInv'
  BY <1>1 DEF Reset, Run!ActsInv, Run!IdsInv, Run!AskedInv
<1>4. Run!RoundsInv'
  BY <1>1, NoRounds DEF Reset, Run!RoundsInv, Run!RequestsWellFormed
<1>5. Run!KnowsInv'
  BY <1>1 DEF Reset, Runner!NoOutcome, Run!KnowsInv, Run!PrimaryKnowsItsEffects,
              Run!Reported, Run!Elements
<1>6. to = "post" => Run!TierInv'
  BY <1>1 DEF Reset, Run!TierInv
<1>. QED  BY <1>2, <1>3, <1>4, <1>5, <1>6 DEF RunInv, RunKept, Nobody

(* What Assistant takes from Runner is what Runner allows: no time passes, and  *)
(* a response that asks for tools asks for one at least.                       *)
LEMMA InRange == 0 \in 0 .. 0 /\ 1 .. MaxUses \subseteq 0 .. MaxUses /\ TRUE \in BOOLEAN
BY TiersAssumption

(* Each step of the assistant is one of Run, or ends or begins a call of it. *)
LEMMA RunStep == RunInv /\ [Next]_vars => RunInv'
<1>. SUFFICES ASSUME RunInv, [Next]_vars PROVE RunInv'
  OBVIOUS
<1>1. CASE UNCHANGED <<run, asker>>
  BY <1>1, RunIsRunner, RunGoesOn
<1>2. ASSUME NEW file \in Files, LoadConfig(file) PROVE UNCHANGED <<run, asker>>
  BY <1>2 DEF LoadConfig, turn
<1>3. CASE FindCalendars \/ FindAccount \/ Elsewhere
  BY <1>1, <1>3 DEF FindCalendars, FindAccount, Elsewhere, turn
<1>4. CASE Crash
  BY <1>4, RunAnew DEF Crash
<1>5. CASE Reply
  BY <1>5, RunAnew DEF Reply
<1>6. ASSUME NEW channel \in Channels, NEW user \in Users, Ask(channel, user) PROVE RunInv'
  BY <1>6, RunAnew DEF Ask
<1>7. CASE Think
  <2>1. Runner!Step
    BY <1>7, InRange, Zenon DEF Think, Runner!Step
  <2>2. asker' = asker
    BY <1>7 DEF Think, turn
  <2>. QED  BY <2>1, <2>2, RunIsRunner, RunGoesOn
<1>8. CASE ToolReturns
  <2>1. Runner!Step
    <3>1. Runner!ExecuteTool(0, answer[current] # "error")
      BY <1>8, Zenon DEF ToolReturns
    <3>2. (answer[current] # "error") \in BOOLEAN
      OBVIOUS
    <3>. QED  BY <3>1, <3>2, InRange, Zenon DEF Runner!Step
  <2>2. asker' = asker
    BY <1>8 DEF ToolReturns
  <2>. QED  BY <2>1, <2>2, RunIsRunner, RunGoesOn
<1>9. ASSUME NEW in \in Inputs, CallTool(in) PROVE UNCHANGED <<run, asker>>
  BY <1>9 DEF CallTool
<1>10. CASE UNCHANGED vars
  BY <1>1, <1>10 DEF vars, turn
<1>. QED  BY <1>1, <1>2, <1>3, <1>4, <1>5, <1>6, <1>7, <1>8, <1>9, <1>10 DEF Next

(* In every turn, however many came before it and however they ended, the     *)
(* requests are well formed, no tool_use block is executed twice, an answer of *)
(* the primary knows what was executed, and the tiers are tried in order.      *)
THEOREM TurnsRunAsProved ==
  Spec => [](/\ Runner!RequestsWellFormed
             /\ Runner!ToolsRunOnce
             /\ Runner!PrimaryKnowsItsEffects
             /\ asker # Nobody => Runner!TiersTriedInOrder)
<1>1. RunInv => Runner!RequestsWellFormed
  BY DEF RunInv, RunKept, Run!RoundsInv, Run!RequestsWellFormed, Run!WellFormed, Run!Rounds,
         Runner!RequestsWellFormed, Runner!WellFormed, Runner!Rounds
<1>2. RunInv => Runner!ToolsRunOnce
  BY DEF RunInv, RunKept, Run!IdsInv, Runner!ToolsRunOnce
<1>3. RunInv => Runner!PrimaryKnowsItsEffects
  BY DEF RunInv, RunKept, Run!KnowsInv, Run!PrimaryKnowsItsEffects, Run!Reported,
         Runner!PrimaryKnowsItsEffects, Runner!Reported
<1>4. RunInv => (asker # Nobody => Runner!TiersTriedInOrder)
  BY DEF RunInv, Run!TierInv, Runner!TiersTriedInOrder
<1>. QED  BY <1>1, <1>2, <1>3, <1>4, RunInit, RunStep, PTL DEF Spec
-----------------------------------------------------------------------------
(* Whoever acts knows what was booked.                                      *)

\* The calls of a turn have ended, but for one that the executor is in.
CallShape ==
  /\ made \in Seq(Calls) /\ Len(made) = Len(performed)
  /\ \A i \in DOMAIN made : stage[made[i]] \in {"answered", "given up"}
  /\ current # NoCall => /\ phase = "tools" /\ todo # <<>>
                         /\ current \in Calls /\ stage[current] # "new"

\* What keeps BookingsAreKnown: the result that the model is told of a call says
\* whether it booked its event.
BookingInv ==
  \A i \in DOMAIN made : IsBooking(made[i]) => (performed[i].ok = Booked(made[i]))

TurnInv == SettledInv /\ CallShape /\ BookingInv

(* At the start there is no turn, and so no call. *)
LEMMA TurnInit == Init => TurnInv
<1>. SUFFICES ASSUME Init PROVE TurnInv
  OBVIOUS
<1>1. SettledInv
  BY SettledInit DEF Init
<1>. QED  BY <1>1 DEF Init, Idle, TurnInv, CallShape, BookingInv

(* A turn that starts or is over has made no calls. *)
LEMMA TurnAnew ==
  ASSUME SettledInv', NEW to \in {"post", "done"}, Reset(to)
  PROVE  TurnInv'
BY DEF Reset, TurnInv, CallShape, BookingInv

(* What is known of the calls of a turn that have ended does not change: a       *)
(* request that is handled later belongs to a call that was given up.           *)
LEMMA EndedStays ==
  ASSUME TurnInv, [MailNext]_mailVars, UNCHANGED made, NEW i \in DOMAIN made
  PROVE  /\ Booked(made[i])' = Booked(made[i]) /\ IsBooking(made[i])' = IsBooking(made[i])
         /\ stage'[made[i]] = stage[made[i]]
<1>. USE DEF TurnInv
<1>1. made \in Seq(Calls) /\ stage[made[i]] \in {"answered", "given up"}
  BY DEF CallShape
<1>2. made[i] \in Calls
  <2>1. made \in Seq(Calls)
    BY <1>1
  <2>. QED  BY <2>1
<1>3. PICK c \in Calls : c = made[i]
  BY <1>2
<1>4. Booked(c)' = Booked(c) /\ IsBooking(c)' = IsBooking(c) /\ stage'[c] = stage[c]
  BY <1>1, <1>3, SettledStays DEF Booked, IsBooking
<1>5. Booked(made[i])' = Booked(c)' /\ IsBooking(made[i])' = IsBooking(c)'
  BY <1>3 DEF Booked, IsBooking
<1>. QED  BY <1>3, <1>4, <1>5

(* As long as no call returns, what other calls do changes nothing. *)
LEMMA TurnRests ==
  ASSUME TurnInv, [MailNext]_mailVars, UNCHANGED <<made, performed>>,
         current' # NoCall => /\ phase' = "tools" /\ todo' # <<>>
                              /\ current' \in Calls /\ stage'[current'] # "new"
  PROVE  TurnInv'
<1>. USE DEF TurnInv
<1>1. SettledInv'
  BY SettledStep
<1>2. \A i \in DOMAIN made :
        /\ Booked(made[i])' = Booked(made[i]) /\ IsBooking(made[i])' = IsBooking(made[i])
        /\ stage'[made[i]] = stage[made[i]]
  BY EndedStays
<1>3. CallShape'
  BY <1>2 DEF CallShape
<1>4. BookingInv'
  BY <1>2 DEF BookingInv, Booked, IsBooking
<1>. QED  BY <1>1, <1>3, <1>4

(* A call that the executor is in goes on while the run rests. *)
LEMMA CallRests ==
  ASSUME TurnInv, [MailNext]_mailVars, UNCHANGED <<turn, run>>
  PROVE  TurnInv'
<1>1. UNCHANGED <<made, performed, current, phase, todo>>
  BY DEF turn, run
<1>2. ASSUME current # NoCall PROVE stage'[current] # "new"
  <2>1. PICK c \in Calls : c = current
    BY <1>2 DEF TurnInv, CallShape
  <2>2. stage[c] # "new"
    BY <1>2, <2>1 DEF TurnInv, CallShape
  <2>. QED  BY <2>1, <2>2, SettledStays DEF TurnInv
<1>3. current # NoCall => phase = "tools" /\ todo # <<>> /\ current \in Calls
  BY DEF TurnInv, CallShape
<1>. QED  BY <1>1, <1>2, <1>3, TurnRests

(* What the model and the tiers do concerns no call: there is none under way. *)
LEMMA TurnThinks ==
  ASSUME TurnInv, RunInv, Think
  PROVE  TurnInv'
<1>1. UNCHANGED <<current, made, mailVars>>
  BY DEF Think, turn
<1>2. todo = <<>>
  <2>1. phase # "tools" => todo = <<>>
    BY DEF RunInv, RunKept, Run!ActsInv
  <2>2. phase # "tools" \/ todo = <<>>
    BY DEF Think, Runner!RequestFails, Runner!AnswerArrives, Runner!ToolUseArrives,
           Runner!Posting, Runner!FinishIteration, Runner!Exhausted, Runner!NextTier
  <2>. QED  BY <2>1, <2>2
<1>3. current = NoCall
  BY <1>2 DEF TurnInv, CallShape
<1>4. performed' = performed
  BY DEF Think, Runner!RequestFails, Runner!AnswerArrives, Runner!ToolUseArrives,
         Runner!FinishIteration, Runner!Exhausted, Runner!NextTier
<1>. QED  BY <1>1, <1>3, <1>4, TurnRests

(* A call that begins joins those of the turn when it returns. *)
LEMMA TurnCalls ==
  ASSUME TurnInv, NEW in \in Inputs, CallTool(in)
  PROVE  TurnInv'
<1>1. PICK new \in Calls : new = NextCall
  BY DEF CallTool, NextCall, NewCalls
<1>2. /\ UNCHANGED <<made, phase, todo, performed>>
      /\ phase = "tools" /\ todo # <<>> /\ current' = new
  BY <1>1 DEF CallTool, run
<1>3. Begin(new, in) \/ Reject(new)
  BY <1>1 DEF CallTool
<1>4. MailNext
  BY <1>3 DEF MailNext
<1>5. stage'[new] # "new"
  BY <1>3 DEF Begin, Reject, TurnInv, SettledInv, EventsInv, MailTypeOK
<1>. QED  BY <1>2, <1>4, <1>5, TurnRests

(* A tool returns, and its result says whether it booked. *)
LEMMA TurnHears ==
  ASSUME TurnInv, RunInv, ToolReturns
  PROVE  TurnInv'
<1>. USE DEF TurnInv
<1>. DEFINE ok == answer[current] # "error"
            r == [id |-> Head(todo), ok |-> ok]
            n == Len(performed)
<1>1. /\ current \in Calls /\ stage[current] \in {"answered", "given up"}
      /\ made' = Append(made, current) /\ performed' = Append(performed, r)
      /\ current' = NoCall /\ UNCHANGED mailVars
  BY DEF ToolReturns, Runner!ExecuteTool, CallShape
<1>2. SettledInv' /\ UNCHANGED <<input, stage, request, answer>>
  BY <1>1, SettledStep DEF mailVars, calls
<1>3. IsBooking(current) => (ok = Booked(current))
  BY <1>1 DEF SettledInv, IsBooking, Booked
<1>4. r.ok = ok
  OBVIOUS
<1>. DEFINE R == [id : Nat, ok : BOOLEAN]
<1>5. performed \in Seq(R) /\ made \in Seq(Calls) /\ r \in R
  <2>1. performed \in Seq(R) /\ todo \in Seq(Nat) /\ todo # <<>>
    BY DEF RunInv, RunKept, Run!Typed, Run!TypeOK, Run!Results, Run!Uses,
           ToolReturns, Runner!ExecuteTool
  <2>2. Head(todo) \in Nat /\ ok \in BOOLEAN
    BY <2>1
  <2>. QED  BY <2>1, <2>2 DEF CallShape
<1>. HIDE DEF ok, r, R
<1>6. /\ Len(made') = n + 1 /\ DOMAIN made' = 1 .. n + 1 /\ made' \in Seq(Calls)
      /\ DOMAIN made = 1 .. n /\ n \in Nat
      /\ made'[n + 1] = current /\ \A i \in 1 .. n : made'[i] = made[i]
  <2>1. /\ made' = Append(made, current) /\ made \in Seq(Calls) /\ current \in Calls
        /\ Len(made) = n
    BY <1>1, <1>5 DEF CallShape
  <2>. QED  BY <2>1
<1>7. /\ Len(performed') = n + 1
      /\ performed'[n + 1] = r /\ \A i \in 1 .. n : performed'[i] = performed[i]
  <2>1. performed' = Append(performed, r) /\ performed \in Seq(R) /\ r \in R
    BY <1>1, <1>5
  <2>. QED  BY <2>1
<1>8. \A i \in 1 .. n + 1 : i = n + 1 \/ i \in 1 .. n
  BY <1>6
<1>9. \A i \in 1 .. n + 1 :
        /\ Booked(made[i])' = Booked(made'[i]) /\ IsBooking(made[i])' = IsBooking(made'[i])
  BY <1>2 DEF Booked, IsBooking
<1>. HIDE DEF n
<1>10. CallShape'
  <2>1. \A i \in 1 .. n + 1 : stage'[made'[i]] \in {"answered", "given up"}
    BY <1>1, <1>2, <1>6, <1>8 DEF CallShape
  <2>. QED  BY <1>1, <1>6, <1>7, <2>1 DEF CallShape
<1>11. BookingInv'
  <2>1. ASSUME NEW i \in 1 .. n + 1, IsBooking(made'[i])
        PROVE  performed'[i].ok = Booked(made'[i])
    <3>1. CASE i = n + 1
      BY <1>3, <1>4, <1>6, <1>7, <2>1, <3>1
    <3>2. CASE i \in 1 .. n
      BY <1>6, <1>7, <2>1, <3>2 DEF BookingInv
    <3>. QED  BY <1>8, <3>1, <3>2
  <2>. QED  BY <1>6, <1>9, <2>1 DEF BookingInv
<1>. QED  BY <1>2, <1>10, <1>11

(* Each step of the assistant keeps the invariant. *)
LEMMA TurnStep == TurnInv /\ RunInv /\ [Next]_vars => TurnInv'
<1>. SUFFICES ASSUME TurnInv, RunInv, [Next]_vars PROVE TurnInv'
  OBVIOUS
<1>1. [MailNext]_mailVars /\ SettledInv'
  BY AssistantStep, SettledStep DEF TurnInv
<1>2. ASSUME NEW file \in Files, LoadConfig(file) PROVE TurnInv'
  BY <1>1, <1>2, CallRests DEF LoadConfig
<1>3. CASE FindCalendars \/ FindAccount \/ Elsewhere
  BY <1>1, <1>3, CallRests DEF FindCalendars, FindAccount, Elsewhere
<1>4. CASE Crash \/ Reply
  BY <1>1, <1>4, TurnAnew DEF Crash, Reply
<1>5. ASSUME NEW channel \in Channels, NEW user \in Users, Ask(channel, user) PROVE TurnInv'
  BY <1>1, <1>5, TurnAnew DEF Ask
<1>6. CASE Think
  BY <1>6, TurnThinks
<1>7. CASE ToolReturns
  BY <1>7, TurnHears
<1>8. ASSUME NEW in \in Inputs, CallTool(in) PROVE TurnInv'
  BY <1>8, TurnCalls
<1>9. CASE UNCHANGED vars
  BY <1>1, <1>9, CallRests DEF vars
<1>. QED  BY <1>2, <1>3, <1>4, <1>5, <1>6, <1>7, <1>8, <1>9 DEF Next

(* The outcome of a call that is reported is whether it booked. *)
LEMMA TurnImplies == TurnInv /\ RunInv => BookingsAreKnown
<1>. SUFFICES ASSUME TurnInv, RunInv,
                     todo # <<>> \/ (outcome.ok /\ outcome.tier = 0),
                     NEW i \in 1 .. Before, NEW ok \in BOOLEAN, IsBooking(made[i])
              PROVE  [id |-> i, ok |-> ok] \in Runner!Reported(sent.messages)
                       <=> ok = Booked(made[i])
  BY DEF BookingsAreKnown
<1>1. Run!ActsKnowing
  BY RunAssumption, Run!KnowsWhenActing DEF Run!KnowsWhenActing, RunInv, RunKept
<1>2. made \in Seq(Calls) /\ Len(made) = Len(performed) /\ results \in Seq([id : Nat, ok : BOOLEAN])
  BY DEF TurnInv, CallShape, RunInv, RunKept, Run!Typed, Run!TypeOK, Run!Results
<1>3. i \in 1 .. Run!Earlier /\ i \in DOMAIN made
  BY <1>2 DEF Before, Run!Earlier
<1>4. performed[i].ok = Booked(made[i])
  BY <1>3 DEF TurnInv, BookingInv
<1>5. [id |-> i, ok |-> ok] \in Run!Reported(sent.messages) <=> ok = performed[i].ok
  BY <1>1, <1>3, Zenon DEF Run!ActsKnowing
<1>6. Runner!Reported(sent.messages) = Run!Reported(sent.messages)
  BY DEF Runner!Reported, Run!Reported
<1>. QED  BY <1>4, <1>5, <1>6, Zenon

(* Whoever acts, or answers with a text, knows of every earlier call whether it  *)
(* booked an event, for any number of tools in a response, of rounds, of tiers,  *)
(* of turns and of deaths of the process.                                       *)
THEOREM BookingsAreAlwaysKnown == Spec => []BookingsAreKnown
BY TurnInit, TurnStep, RunInit, RunStep, TurnImplies, PTL DEF Spec
-----------------------------------------------------------------------------
(* Types.                                                                   *)

\* The variables that Assistant adds to those of the tools and of Run.
TurnTyped ==
  /\ process \in {"down", "calendars", "account", "serving"}
  /\ config \in {Load(file) : file \in Files} \cup {Refused}
  /\ asker = Nobody \/ asker \in [channel : Channels, user : Users]
  /\ current \in Calls \cup {NoCall}
  /\ asker # Nobody => process = "serving"
  /\ process = "serving" => account # ""

(* The process names an account in its requests only when it has one. *)
LEMMA TurnTypedInit == Init => TurnTyped
BY DEF Init, Idle, TurnTyped

LEMMA TurnTypedStep == TurnTyped /\ [Next]_vars => TurnTyped'
<1>. SUFFICES ASSUME TurnTyped, [Next]_vars PROVE TurnTyped'
  OBVIOUS
<1>1. ASSUME NEW file \in Files, LoadConfig(file) PROVE TurnTyped'
  BY <1>1 DEF LoadConfig, TurnTyped, turn, mailVars, found
<1>2. CASE FindCalendars
  BY <1>2 DEF FindCalendars, TurnTyped, turn
<1>3. CASE FindAccount
  <2>1. account' # ""
    BY <1>3, MailAssumption DEF FindAccount, DiscoverAccount
  <2>. QED  BY <1>3, <2>1 DEF FindAccount, TurnTyped, turn
<1>4. CASE Crash
  BY <1>4 DEF Crash, Reset, TurnTyped
<1>5. ASSUME NEW channel \in Channels, NEW user \in Users, Ask(channel, user) PROVE TurnTyped'
  BY <1>5 DEF Ask, Reset, TurnTyped, mailVars, found
<1>6. CASE Reply
  BY <1>6 DEF Reply, Reset, TurnTyped, mailVars, found
<1>7. CASE Think
  BY <1>7 DEF Think, TurnTyped, turn, mailVars, found
<1>8. CASE ToolReturns
  BY <1>8 DEF ToolReturns, TurnTyped, mailVars, found
<1>9. CASE Elsewhere
  <2>1. account' = account
    BY <1>9 DEF Elsewhere, Handle, Refuse, Answer, GiveUp, Rename, found
  <2>. QED  BY <1>9, <2>1 DEF Elsewhere, TurnTyped, turn
<1>10. ASSUME NEW in \in Inputs, CallTool(in) PROVE TurnTyped'
  <2>1. account' = account
    BY <1>10 DEF CallTool, Begin, Reject, found
  <2>2. NextCall \in Calls
    BY <1>10 DEF CallTool, NextCall, NewCalls
  <2>. QED  BY <1>10, <2>1, <2>2 DEF CallTool, TurnTyped
<1>11. CASE UNCHANGED vars
  BY <1>11 DEF vars, TurnTyped, turn, mailVars, found
<1>. QED  BY <1>1, <1>2, <1>3, <1>4, <1>5, <1>6, <1>7, <1>8, <1>9, <1>10, <1>11 DEF Next

(* Every variable keeps its type; a turn runs only in a process that serves,   *)
(* and that has an account to name in its requests, for any number of turns,   *)
(* tiers, calls and deaths of the process.                                     *)
THEOREM AssistantTyped == Spec => []TypeOK
<1>1. TurnInv /\ RunInv /\ TurnTyped => TypeOK
  <2>. SUFFICES ASSUME TurnInv, RunInv, TurnTyped PROVE TypeOK
    OBVIOUS
  <2>1. MailTypeOK
    BY DEF TurnInv, SettledInv, EventsInv
  <2>2. Runner!TypeOK
    BY DEF RunInv, RunKept, Run!Typed, Run!TypeOK, Run!Phases, Run!Tiers, Run!Uses,
           Run!Results, Run!Reasons, Run!NoOutcome, Runner!TypeOK, Runner!Phases,
           Runner!Tiers, Runner!Uses, Runner!Results, Runner!Reasons, Runner!NoOutcome
  <2>3. made \in Seq(Calls) /\ Len(made) = Len(performed)
    BY DEF TurnInv, CallShape
  <2>. QED  BY <2>1, <2>2, <2>3 DEF TypeOK, TurnTyped
<1>. QED  BY <1>1, TurnInit, TurnStep, RunInit, RunStep, TurnTypedInit, TurnTypedStep, PTL DEF Spec
-----------------------------------------------------------------------------
(* What the dispatcher is given.                                           *)

(* A process that runs has a configuration that Dispatcher can work with: at     *)
(* least one slot, although a file may say nothing of it, or zero, or less; and  *)
(* a budget, which may be negative.  This is what Dispatcher assumes of its      *)
(* constants.  Nor is there a list that open access overrides.                   *)
THEOREM ConfigFits ==
  Spec => [](process # "down" => /\ config.concurrency \in Nat \ {0}
                                 /\ config.tokenBudget \in Int \ {0}
                                 /\ ~Conflict(config))
<1>. DEFINE Fits == /\ config.concurrency \in Nat \ {0}
                    /\ config.tokenBudget \in Int \ {0}
                    /\ ~Conflict(config)
            Sound == process # "down" => Fits
<1>1. Init => Sound
  BY DEF Init
<1>2. ASSUME Sound, [Next]_vars PROVE Sound'
  <2>1. ASSUME NEW file \in Files, LoadConfig(file) PROVE Fits'
    <3>1. file \in ConfigFiles(Channels, Users) /\ config' = WithDefaults(file) /\ Acceptable(file)
      BY <2>1, FilesAssumption DEF LoadConfig, Load
    <3>2. /\ config'.concurrency = OrDefault(file.concurrency, 2)
          /\ config'.tokenBudget = OrDefault(file.tokenBudget, 80000)
          /\ config'.channels = file.channels
      BY <3>1 DEF WithDefaults, ConfigFiles
    <3>3. config'.concurrency \in Int /\ config'.tokenBudget \in Int \ {0}
      BY <3>1, <3>2 DEF OrDefault, ConfigFiles
    <3>4. config'.concurrency >= 1 /\ ~Conflict(file)
      BY <3>1 DEF Acceptable
    <3>5. config'.concurrency \in Nat \ {0}
      BY <3>3, <3>4
    <3>6. ~Conflict(config')
      BY <3>2, <3>4 DEF Conflict
    <3>. QED  BY <3>3, <3>5, <3>6 DEF Conflict
  <2>2. CASE Crash
    BY <2>2 DEF Crash
  <2>3. CASE process' = process /\ config' = config
    BY <1>2, <2>3 DEF Conflict
  <2>4. CASE FindCalendars \/ FindAccount
    BY <1>2, <2>4 DEF FindCalendars, FindAccount, Conflict
  <2>5. ASSUME NEW channel \in Channels, NEW user \in Users, Ask(channel, user)
        PROVE  process' = process /\ config' = config
    BY <2>5 DEF Ask
  <2>6. ASSUME NEW in \in Inputs, CallTool(in) PROVE process' = process /\ config' = config
    BY <2>6 DEF CallTool
  <2>7. CASE Reply \/ Think \/ ToolReturns \/ Elsewhere \/ UNCHANGED vars
    BY <2>7, <2>3 DEF Reply, Think, ToolReturns, Elsewhere, vars
  <2>. QED  BY <1>2, <2>1, <2>2, <2>3, <2>4, <2>5, <2>6, <2>7 DEF Next
<1>. QED  BY <1>1, <1>2, PTL DEF Spec

=============================================================================
