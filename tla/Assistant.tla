------------------------------ MODULE Assistant ------------------------------
(***************************************************************************)
(* A user has the assistant put an event on the calendar: the process that *)
(* loads its configuration and finds out about the Fastmail account        *)
(* (buildDispatcherWithConfig of main.go), a turn that is let in and goes  *)
(* through the tiers (FallbackRunner), and the calls of the Fastmail tools *)
(* that the model asks for (Fastmail).                                     *)
(*                                                                         *)
(* One turn at a time: turns that overlap are the subject of Dispatcher.   *)
(* Fastmail is configured, and time is not counted.  The model may ask for *)
(* anything at any time, several tools in one response and the same again  *)
(* in the next, as long as there are calls left.                           *)
(***************************************************************************)
EXTENDS Fastmail, Config, Sequences

CONSTANTS
  Files,              \* what the configuration file may hold
  Channels,
  Users,
  Fallbacks,          \* as in FallbackRunner
  MaxToolIterations,
  MaxUses

ASSUME FilesAssumption == Files \subseteq ConfigFiles(Channels, Users)
ASSUME TiersAssumption ==
  Fallbacks \in Nat /\ MaxToolIterations \in Nat \ {0} /\ MaxUses \in Nat

VARIABLES
  process,  \* "down", discovering "calendars", then the "account", "serving"
  config,   \* what Load returned when the process started
  asker,    \* channel and user of the turn that runs, or Nobody
  current,  \* the call that the tool executor is in, or NoCall
  made,     \* the calls of this turn, in order
  \* Of FallbackRunner:
  phase, tier, iteration, messages, todo, results, elapsed, sent, performed, failures, outcome

Runner == INSTANCE FallbackRunner WITH
  Override <- "none", NoModel <- "none", TierModel <- [t \in 0 .. Fallbacks |-> "model"],
  Deadline <- 1, PostLimit <- 0, ToolLimit <- 0

turn == <<asker, current, made>>
run == <<phase, tier, iteration, messages, todo, results, elapsed, sent, performed,
         failures, outcome>>
vars == <<process, config, turn, run, mailVars>>

Nobody == [channel |-> "none", user |-> "none"]
NoCall == 0

Idle ==
  /\ asker = Nobody /\ current = NoCall /\ made = <<>>
  /\ phase = "done" /\ tier = 0 /\ iteration = 0
  /\ messages = <<>> /\ todo = <<>> /\ results = <<>>
  /\ elapsed = 0 /\ sent = <<>>
  /\ performed = <<>> /\ failures = <<>> /\ outcome = Runner!NoOutcome

Init == MailInit /\ process = "down" /\ config = Refused /\ Idle

\* Run starts (with phase "post"), or all of it is gone.
Reset(to) ==
  /\ phase' = to /\ tier' = 0 /\ iteration' = 0
  /\ messages' = <<>> /\ todo' = <<>> /\ results' = <<>>
  /\ elapsed' = 0 /\ sent' = <<>>
  /\ performed' = <<>> /\ failures' = <<>> /\ outcome' = Runner!NoOutcome
  /\ current' = NoCall /\ made' = <<>>
-----------------------------------------------------------------------------
(* The process.                                                            *)

\* A file that is refused ends the process.
LoadConfig(file) ==
  /\ process = "down" /\ Load(file) # Refused
  /\ process' = "calendars" /\ config' = Load(file)
  /\ UNCHANGED <<turn, run, mailVars>>

FindCalendars ==
  /\ process = "calendars" /\ DiscoverCalendars
  /\ process' = "account"
  /\ UNCHANGED <<config, turn, run>>

FindAccount ==
  /\ process = "account" /\ DiscoverAccount
  /\ process' = "serving"
  /\ UNCHANGED <<config, turn, run>>

\* The process is killed, at any point; systemd starts it again.
Crash ==
  /\ process # "down" /\ Die
  /\ process' = "down" /\ config' = Refused
  /\ asker' = Nobody /\ Reset("done")
-----------------------------------------------------------------------------
(* A turn.                                                                 *)

\* Dispatch of a turn that is let in.  One that is not changes nothing.
Ask(channel, user) ==
  /\ process = "serving" /\ asker = Nobody
  /\ Allowed(config, channel, user)
  /\ asker' = [channel |-> channel, user |-> user]
  /\ Reset("post")
  /\ UNCHANGED <<process, config, mailVars>>

\* The reply, or the error, is on its way, and the turn over.
Reply ==
  /\ asker # Nobody /\ phase = "done"
  /\ asker' = Nobody /\ Reset("done")
  /\ UNCHANGED <<process, config, mailVars>>

\* The calls not made yet; which of them comes next makes no difference.
NewCalls == {c \in Calls : stage[c] = "new"}
NextCall == CHOOSE c \in NewCalls : TRUE

\* Bound: the primary asks for no more tools than there are calls left.
Askable(n) == tier = 0 => n <= Cardinality(NewCalls)

\* A step of Run that calls no tool.  (A response that wants tools and names
\* none changes nothing but the count of rounds; it is left to FallbackRunner.)
Think ==
  /\ asker # Nobody
  /\ \/ Runner!RequestFails(0)
     \/ Runner!AnswerArrives(0, TRUE)
     \/ \E n \in 1 .. MaxUses : Askable(n) /\ Runner!ToolUseArrives(0, n)
     \/ Runner!FinishIteration
     \/ Runner!Exhausted
     \/ Runner!NextTier
  /\ UNCHANGED <<process, config, turn, mailVars>>

\* The tool executor of the tier is called: registry.Execute, the handler.
CallTool(in) ==
  /\ asker # Nobody /\ phase = "tools" /\ todo # <<>> /\ current = NoCall
  /\ NewCalls # {}
  /\ Begin(NextCall, in) \/ Reject(NextCall)
  /\ current' = NextCall
  /\ UNCHANGED <<process, config, asker, made, run>>

\* It returns, and its result is kept for the next request to the model.
ToolReturns ==
  /\ current # NoCall /\ stage[current] \in {"answered", "given up"}
  /\ Runner!ExecuteTool(0, answer[current] # "error")
  /\ made' = Append(made, current) /\ current' = NoCall
  /\ UNCHANGED <<process, config, asker, mailVars>>

\* A step of the servers, of the network or of the user's other devices.
Elsewhere ==
  /\ \/ \E c \in Calls : Handle(c) \/ Refuse(c) \/ Answer(c) \/ GiveUp(c)
     \/ \E path \in Paths, name \in Names : Rename(path, name)
  /\ UNCHANGED <<process, config, turn, run>>

Next ==
  \/ \E file \in Files : LoadConfig(file)
  \/ FindCalendars \/ FindAccount \/ Crash
  \/ \E channel \in Channels, user \in Users : Ask(channel, user)
  \/ Reply \/ Think \/ ToolReturns \/ Elsewhere
  \/ \E in \in Inputs : CallTool(in)

Spec == Init /\ [][Next]_vars
-----------------------------------------------------------------------------
(* Properties.                                                             *)

\* Every variable has its type; a turn runs only in a process that serves, and
\* that has an account to name in its requests.
TypeOK ==
  /\ MailTypeOK /\ Runner!TypeOK
  /\ process \in {"down", "calendars", "account", "serving"}
  /\ config \in {Load(file) : file \in Files} \cup {Refused}
  /\ asker = Nobody \/ asker \in [channel : Channels, user : Users]
  /\ current \in Calls \cup {NoCall}
  /\ made \in Seq(Calls) /\ Len(made) = Len(performed)
  /\ asker # Nobody => process = "serving"
  /\ process = "serving" => account # ""

\* Nobody but the users a channel lists makes the assistant act: not on a
\* channel that is switched off, not by open access where there is a list, and
\* not through a turn that outlives its process.
OnlyEntitledAct ==
  asker # Nobody \/ current # NoCall =>
    /\ asker.channel \in DOMAIN config.channels
    /\ LET ch == config.channels[asker.channel]
       IN  /\ ch.enabled
           /\ asker.user \in ch.allowFrom \/ (ch.openAccess /\ ch.allowFrom = {})

\* A call that booked an event, and did not give up waiting to hear so.
IsBooking(c) == input[c].tool = "create_event"
Booked(c) == IsBooking(c) /\ request[c] = "handled" /\ stage[c] # "given up"

\* How many calls had ended when the last request to the model went out.
Before == Len(made) - IF todo # <<>> THEN Len(results) ELSE 0

\* Who makes the assistant act knows what it has done: when a tool is about to
\* be executed, for whichever tier, the request that was answered by asking for
\* it reported every earlier call that was to book an event: as done if it booked
\* one, and as failed otherwise.  So did the request that the primary answers
\* with a text.  So to book an event twice takes two tool_use blocks in one
\* response, a model that asks again although it knows, or a call that was given
\* up too soon; neither the loop, which posts everything again, nor a fallback
\* tier, which is told nothing, does it.
BookingsAreKnown ==
  todo # <<>> \/ (outcome.ok /\ outcome.tier = 0) =>
    \A i \in 1 .. Before, ok \in BOOLEAN :
      IsBooking(made[i]) =>
        ([id |-> i, ok |-> ok] \in Runner!Reported(sent.messages) <=> ok = Booked(made[i]))

=============================================================================
