------------------------------- MODULE Clients ------------------------------
(***************************************************************************)
(* The clients around a dispatch (internal/clients/telegram, watch, esp),  *)
(* with the start and the end of `obi-wan-core serve` (main.go).           *)
(*                                                                         *)
(* Each request has a goroutine of its own: the handler of a Telegram      *)
(* update, of a POST from the watch or the ESP box, or the goroutine that  *)
(* an R1 chat.send starts (R1Gateway has the details of that one).         *)
(* Telegram replies, and the echoes of watch and ESP replies, go to the    *)
(* owner's chat, in parts.  Dispatch itself is in Dispatcher.              *)
(*                                                                         *)
(* What net/http and the Telegram library do is external: Shutdown waits   *)
(* for the requests that are being served, but neither cancels them nor    *)
(* knows hijacked connections; the library runs each handler in a          *)
(* goroutine that Start does not wait for.                                 *)
(***************************************************************************)
EXTENDS Integers, Sequences

CONSTANTS
  Requests,   \* requests that reach the process
  PartCount,  \* number of chunks of a reply, [Requests -> Nat \ {0}]
  EchoWired,  \* is there a chat to mirror replies to?
  NotifyWired \* NotifyURL of the ESP channel

ASSUME ConstantsAssumption ==
  /\ PartCount \in [Requests -> Nat \ {0}]
  /\ EchoWired \in BOOLEAN /\ NotifyWired \in BOOLEAN

VARIABLES
  main,    \* runServe: "starting", "serving", "stopping", "exited"
  grace,   \* have the five seconds of Shutdown passed?
  socket,  \* the hijacked R1 connection: is its handler "open" or "returned"?
  client,  \* per request: the client it comes to
  stage,   \* per request: where its goroutine is
  live,    \* per request: its context has not been cancelled
  result,  \* per request: what Dispatch returned
  tried,   \* per request: number of parts given to SendMessage
  chat,    \* what arrived in the chat, in order
  broken,  \* parts that did not arrive
  answer,  \* per request: the HTTP response
  notice   \* per request: the goroutine of notifyFramework

vars == <<main, grace, socket, client, stage, live, result, tried, chat, broken,
          answer, notice>>
process == <<main, grace, socket, client>>

\* Dispatch: refused or cancelled; a reply that is "Error: ..." (the tiers all
\* failed; nothing is stored); a blank reply, "(no output)", any other.
Results == {"denied", "cancelled", "failed", "blank", "silent", "text"}
\* The turns that are in the history from then on.
Stored == {"blank", "silent", "text"}

InWork == {"transcribing", "dispatching", "sending", "echoing", "speech", "pushing"}
Kinds == {"telegram", "watch", "esp", "r1"}
Http == {r \in Requests : client[r] \in {"watch", "esp"}}

Init ==
  /\ main = "starting" /\ grace = FALSE /\ socket = "open"
  /\ client \in [Requests -> Kinds]
  /\ stage = [r \in Requests |-> "new"]
  /\ live = [r \in Requests |-> TRUE]
  /\ result = [r \in Requests |-> "none"]
  /\ tried = [r \in Requests |-> 0]
  /\ chat = <<>> /\ broken = {}
  /\ answer = [r \in Requests |-> "none"]
  /\ notice = [r \in Requests |-> "none"]

To(r, s) == stage' = [stage EXCEPT ![r] = s]
\* The response, which a client that has hung up does not get.
Respond(r, a) ==
  /\ answer' = [answer EXCEPT ![r] = IF live[r] THEN a ELSE "lost"]
  /\ To(r, "done")
-----------------------------------------------------------------------------
(* A request, from its arrival to the return of its handler.               *)

\* Clients are launched in the order telegram, watch, r1, esp, and serve from
\* then on; a hijacked connection also while the process stops.
Accepting(r) == \/ main = "serving"
                \/ main = "starting" /\ client[r] # "esp"
                \/ main = "stopping" /\ client[r] = "r1" /\ socket = "open"

Receive(r) ==
  /\ stage[r] = "new" /\ Accepting(r)
  /\ client[r] = "r1" => socket = "open"
  /\ To(r, IF client[r] = "esp" THEN "transcribing" ELSE "dispatching")
  /\ UNCHANGED <<process, live, result, tried, chat, broken, answer, notice>>

\* An update without text or sender is dropped; a POST with a wrong method,
\* key or body is refused.
Refuse(r) ==
  /\ stage[r] = "new" /\ Accepting(r)
  /\ IF r \in Http THEN Respond(r, "error") ELSE To(r, "done") /\ UNCHANGED answer
  /\ UNCHANGED <<process, live, result, tried, chat, broken, notice>>

\* The audio is text now, or it is not.
Transcribe(r) ==
  /\ stage[r] = "transcribing"
  /\ \/ live[r] /\ To(r, "dispatching") /\ UNCHANGED answer
     \/ Respond(r, "error")
  /\ UNCHANGED <<process, live, result, tried, chat, broken, notice>>

\* Parts of what goes to the chat.
Parts(r) == IF result[r] = "text" THEN PartCount[r] ELSE 1

\* onUpdate: silence when access is denied, and for an empty text; white space
\* is sent.
OnUpdate(r, outcome) ==
  /\ \/ outcome \in {"denied", "blank"} /\ To(r, "done")
     \/ outcome # "denied" /\ To(r, "sending")
  /\ UNCHANGED answer

\* handleMessage of the watch; a blank reply is not mirrored.
HandleMessage(r, outcome) ==
  IF outcome \in {"denied", "cancelled"} THEN Respond(r, "error")
  ELSE IF outcome \in {"blank", "silent"} THEN Respond(r, "ok")
  ELSE To(r, "echoing") /\ UNCHANGED answer

\* handleTalk of the ESP box, which wants something to say.
HandleTalk(r, outcome) ==
  IF outcome \in {"denied", "cancelled", "blank"} THEN Respond(r, "error")
  ELSE To(r, IF outcome = "silent" THEN "speech" ELSE "echoing") /\ UNCHANGED answer

\* handleSend of the R1.
HandleSend(r) == To(r, "pushing") /\ UNCHANGED answer

\* Dispatch returns.
Dispatched(r, outcome) ==
  /\ stage[r] = "dispatching"
  /\ outcome = "cancelled" => ~live[r]
  /\ result' = [result EXCEPT ![r] = outcome]
  /\ \/ client[r] = "telegram" /\ OnUpdate(r, outcome)
     \/ client[r] = "watch" /\ HandleMessage(r, outcome)
     \/ client[r] = "esp" /\ HandleTalk(r, outcome)
     \/ client[r] = "r1" /\ HandleSend(r)
  /\ UNCHANGED <<process, live, tried, chat, broken, notice>>

Arrives(r) == /\ live[r]
              /\ chat' = Append(chat, [of |-> r, part |-> tried[r] + 1])
              /\ UNCHANGED broken
\* The send of a part fails, and the part does not arrive.
Breaks(r) == /\ broken' = broken \cup {[of |-> r, part |-> tried[r] + 1]}
             /\ UNCHANGED chat

\* The loop of onUpdate goes on after a part that fails.
SendText(r) ==
  /\ stage[r] = "sending" /\ tried[r] < Parts(r)
  /\ Arrives(r) \/ Breaks(r)
  /\ tried' = [tried EXCEPT ![r] = @ + 1]
  /\ UNCHANGED <<process, stage, live, result, answer, notice>>

Echoing(r) == stage[r] = "echoing" /\ EchoWired

\* Slip: one part too many.
EchoOneTooMany(r) ==
  /\ Echoing(r) /\ tried[r] <= Parts(r)
  /\ Arrives(r) \/ Breaks(r)
  /\ tried' = [tried EXCEPT ![r] = @ + 1]
  /\ UNCHANGED <<process, stage, live, result, answer, notice>>

\* Slip: an echo goes on after a part that failed.
EchoGoesOn(r) ==
  /\ Echoing(r) /\ tried[r] < Parts(r)
  /\ Arrives(r) \/ Breaks(r)
  /\ tried' = [tried EXCEPT ![r] = @ + 1]
  /\ UNCHANGED <<process, stage, live, result, answer, notice>>

\* Slip: a part that fails is sent again.
EchoUntilOk(r) ==
  /\ Echoing(r) /\ tried[r] < Parts(r)
  /\ \/ Arrives(r) /\ tried' = [tried EXCEPT ![r] = @ + 1]
     \/ Breaks(r) /\ UNCHANGED tried
  /\ UNCHANGED <<process, stage, live, result, answer, notice>>

\* The loop of SendToChat ends with a part that fails.
SendToChat(r) ==
  /\ Echoing(r) /\ tried[r] < Parts(r)
  /\ \/ Arrives(r) /\ tried' = [tried EXCEPT ![r] = @ + 1]
     \/ Breaks(r) /\ tried' = [tried EXCEPT ![r] = Parts(r)]
  /\ UNCHANGED <<process, stage, live, result, answer, notice>>

Sent(r) == stage[r] = "sending" /\ tried[r] = Parts(r)
Echoed(r) == stage[r] = "echoing" /\ (EchoWired => tried[r] = Parts(r))

\* onUpdate returns.
UpdateDone(r) ==
  /\ Sent(r)
  /\ To(r, "done")
  /\ UNCHANGED <<process, live, result, tried, chat, broken, answer, notice>>

\* Slip: an echo that fails is an error of the request.
AnswerWatchStrictly(r) ==
  /\ client[r] = "watch" /\ Echoed(r)
  /\ Respond(r, IF \E entry \in broken : entry.of = r THEN "error" ELSE "ok")
  /\ UNCHANGED <<process, live, result, tried, chat, broken, notice>>

\* After the echo the watch gets its reply.
AnswerWatch(r) ==
  /\ client[r] = "watch" /\ Echoed(r)
  /\ Respond(r, "ok")
  /\ UNCHANGED <<process, live, result, tried, chat, broken, notice>>

\* After the echo the notification gets a goroutine and the box its speech.
StartSpeech(r) ==
  /\ client[r] = "esp" /\ Echoed(r)
  /\ To(r, "speech")
  /\ notice' = IF NotifyWired THEN [notice EXCEPT ![r] = "speaking"] ELSE notice
  /\ UNCHANGED <<process, live, result, tried, chat, broken, answer>>

\* synthesize, and the audio or the error that is the response.
Speak(r) ==
  /\ stage[r] = "speech"
  /\ (live[r] /\ Respond(r, "ok")) \/ Respond(r, "error")
  /\ UNCHANGED <<process, live, result, tried, chat, broken, notice>>

\* The goroutine of chat.send has written its event.
Pushed(r) ==
  /\ stage[r] = "pushing"
  /\ To(r, "done")
  /\ UNCHANGED <<process, live, result, tried, chat, broken, answer, notice>>

\* notifyFramework has its response, or sixty seconds have passed.
Notified(r) ==
  /\ notice[r] = "speaking"
  /\ notice' = [notice EXCEPT ![r] = "over"]
  /\ UNCHANGED <<process, stage, live, result, tried, chat, broken, answer>>

\* The client of a POST gives up; its request's context ends.
HangUp(r) ==
  /\ r \in Http /\ stage[r] \in InWork /\ live[r]
  /\ live' = [live EXCEPT ![r] = FALSE]
  /\ UNCHANGED <<process, stage, result, tried, chat, broken, answer, notice>>

\* The device closes its WebSocket, or the network does.
SocketCloses ==
  /\ main # "exited" /\ socket = "open"
  /\ socket' = "returned"
  /\ UNCHANGED <<main, grace, client, stage, live, result, tried, chat, broken, answer, notice>>
-----------------------------------------------------------------------------
(* runServe.                                                               *)

request == <<client, result, tried, chat, broken, answer>>

\* Everything that is still under way dies with the process.
Exit == /\ main' = "exited"
        /\ stage' = [r \in Requests |-> IF stage[r] \in InWork THEN "killed" ELSE stage[r]]
        /\ notice' = [r \in Requests |-> IF notice[r] = "speaking" THEN "killed" ELSE notice[r]]
        /\ UNCHANGED <<grace, socket, live, request>>

\* All clients are launched, or one of them is not configured as it must be:
\* then runServe returns, although the clients before it serve already.
Launch ==
  /\ main = "starting"
  /\ \/ main' = "serving" /\ UNCHANGED <<grace, socket, stage, live, notice, request>>
     \/ Exit

\* SIGTERM: the context of Telegram's handlers ends, the servers shut down.
Stop ==
  /\ main = "serving"
  /\ main' = "stopping"
  /\ live' = [r \in Requests |-> live[r] /\ client[r] # "telegram"]
  /\ UNCHANGED <<grace, socket, stage, notice, request>>

GraceOver ==
  /\ main = "stopping" /\ ~grace
  /\ grace' = TRUE
  /\ UNCHANGED <<main, socket, stage, live, notice, request>>

\* Shutdown of each server has returned, and so has wg.Wait.
Return ==
  /\ main = "stopping"
  /\ grace \/ \A r \in Http : stage[r] \notin InWork
  /\ Exit

Work(r) == \/ Transcribe(r) \/ (\E outcome \in Results : Dispatched(r, outcome))
           \/ SendText(r) \/ UpdateDone(r) \/ SendToChat(r) \/ AnswerWatch(r)
           \/ StartSpeech(r) \/ Speak(r) \/ Pushed(r)

Over == /\ main \in {"serving", "exited"} /\ \A r \in Requests : stage[r] \notin InWork
        /\ UNCHANGED vars

Next ==
  \/ \E r \in Requests : /\ main # "exited"
                         /\ Receive(r) \/ Refuse(r) \/ Work(r) \/ Notified(r) \/ HangUp(r)
  \/ SocketCloses \/ Launch \/ Stop \/ GraceOver \/ Return \/ Over

Spec == Init /\ [][Next]_vars

\* A handler's calls end: Dispatch after two minutes of requests, the others by
\* their clients' time limits.  Shutdown has its own.
Fairness == /\ \A r \in Requests : WF_vars(main # "exited" /\ Work(r))
            /\ WF_vars(GraceOver) /\ WF_vars(Return)

FairSpec == Spec /\ Fairness
-----------------------------------------------------------------------------
(* Properties.                                                             *)

\* Every variable has its type.
TypeOK ==
  /\ main \in {"starting", "serving", "stopping", "exited"}
  /\ grace \in BOOLEAN /\ socket \in {"open", "returned"}
  /\ client \in [Requests -> Kinds]
  /\ stage \in [Requests -> InWork \cup {"new", "done", "killed"}]
  /\ live \in [Requests -> BOOLEAN]
  /\ result \in [Requests -> Results \cup {"none"}]
  /\ tried \in [Requests -> Nat] /\ \A r \in Requests : tried[r] <= Parts(r)
  /\ chat \in Seq([of : Requests, part : Nat])
  /\ broken \subseteq [of : Requests, part : Nat]
  /\ answer \in [Requests -> {"none", "ok", "error", "lost"}]
  /\ notice \in [Requests -> {"none", "speaking", "over", "killed"}]

\* However the replies and echoes of several requests mix in the chat, the
\* parts of each are in order and none comes twice; and an echo has no hole,
\* which a direct reply can have.  A part whose send fails counts as lost
\* here; Telegram may deliver one that timed out all the same, out of order.
ChatIsReadable ==
  /\ \A i, j \in DOMAIN chat :
       i < j /\ chat[i].of = chat[j].of => chat[i].part < chat[j].part
  /\ \A j \in DOMAIN chat : client[chat[j].of] # "telegram" /\ chat[j].part > 1 =>
       \E i \in 1 .. j - 1 : chat[i] = [of |-> chat[j].of, part |-> chat[j].part - 1]

\* The watch may repeat a request that was answered with an error: its turn is
\* not in the history.  (The ESP box may not: see the hazards.)
WatchErrorIsFinal ==
  \A r \in Requests : client[r] = "watch" /\ answer[r] = "error" => result[r] \notin Stored

\* Every handler returns, or dies with the process.
RequestsEnd == \A r \in Requests : stage[r] \in InWork ~> stage[r] \in {"done", "killed"}

\* server.go of the R1 gateway says of the shutdown that the connection's
\* context "will be cancelled by the http.Server base-context propagation,
\* which unblocks the serveConnection reads and lets the handler return
\* naturally".
R1HandlerReturns == main = "stopping" ~> socket = "returned"

=============================================================================
