----------------------------- MODULE R1Gateway ------------------------------
(***************************************************************************)
(* internal/clients/r1/server.go and methods.go: the WebSocket gateway of  *)
(* the Rabbit R1, from the upgrade request to the frames written back.     *)
(*                                                                         *)
(* A connection is served by one goroutine (handleUpgrade, and the request *)
(* loop of serveConnection); each chat.send starts a goroutine of its own  *)
(* that dispatches the text and later writes a chat event to the same      *)
(* connection.  What the device receives is the order in which these       *)
(* goroutines write.  The handshake's decisions are in R1Pairing; here it  *)
(* succeeds or fails.  A third goroutine writes the keepalive ticks: they  *)
(* say nothing and are not among the frames, but the handler waits for     *)
(* that goroutine before it gives the gateway back.                        *)
(***************************************************************************)
EXTENDS Integers, Sequences, FiniteSets

CONSTANTS
  Conns,       \* connections that the device will try to open
  FrameCount,  \* frames that it will send, in all connections together
  KindOf       \* [Frames -> Kinds]

\* Frames are numbered in the order in which they are sent.
Frames == 1 .. FrameCount

\* "chat": chat.send or sessions.send with a text; "quick": a request that
\* Handle itself answers, with a constant or an error; "other": a frame that
\* is no request.
Kinds == {"chat", "quick", "other"}

ASSUME ConstantsAssumption == FrameCount \in Nat /\ KindOf \in [Frames -> Kinds]

VARIABLES
  active,  \* Server.active
  stage,   \* per connection: where handleUpgrade is
  link,    \* per connection: can the device and the gateway still talk?
  inbox,   \* per connection: frames sent and not read yet
  owed,    \* per connection: the response the request loop has to write
  out,     \* per connection: the frames written, in order
  home,    \* per frame: the connection it was sent on
  run,     \* per frame: the goroutine that handleSend started for it
  ticker   \* per connection: the goroutine of the tick loop

vars == <<active, stage, link, inbox, owed, out, home, run, ticker>>

Stages == {"new", "refused", "upgrading", "handshake", "serving", "closing",
           "closed", "gone"}
\* Between setting Server.active and clearing it again.
Guarded == {"upgrading", "handshake", "serving", "closing", "closed"}
Runs == {"none", "dispatching", "final", "error", "pushed", "dropped"}
Tickers == {"none", "waiting", "writing", "done"}

NoConn == "no connection"

ASSUME NoConnAssumption == NoConn \notin Conns

Res(f) == [type |-> "res", of |-> f]
Event(f, state) == [type |-> state, of |-> f]
FrameTypes == {"res", "final", "error"}

Init ==
  /\ active = FALSE
  /\ stage = [c \in Conns |-> "new"]
  /\ link = [c \in Conns |-> TRUE]
  /\ inbox = [c \in Conns |-> <<>>]
  /\ owed = [c \in Conns |-> {}]
  /\ out = [c \in Conns |-> <<>>]
  /\ home = [f \in Frames |-> NoConn]
  /\ run = [f \in Frames |-> "none"]
  /\ ticker = [c \in Conns |-> "none"]

To(c, s) == stage' = [stage EXCEPT ![c] = s]
Write(c, frame) == out' = [out EXCEPT ![c] = Append(@, frame)]
-----------------------------------------------------------------------------
(* handleUpgrade.                                                          *)

\* Slip: active is set, but not tested.
UpgradeAnyway(c) ==
  /\ stage[c] = "new"
  /\ To(c, "upgrading") /\ active' = TRUE
  /\ UNCHANGED <<link, inbox, owed, out, home, run, ticker>>

\* The test and the setting of active are under connMu.
Upgrade(c) ==
  /\ stage[c] = "new"
  /\ IF active THEN To(c, "refused") /\ UNCHANGED active
     ELSE To(c, "upgrading") /\ active' = TRUE
  /\ UNCHANGED <<link, inbox, owed, out, home, run, ticker>>

\* websocket.Accept; when it fails there is nothing to close.
Accept(c) ==
  /\ stage[c] = "upgrading"
  /\ To(c, "handshake") \/ To(c, "closed")
  /\ UNCHANGED <<active, link, inbox, owed, out, home, run, ticker>>

\* Challenge, connect request, hello: done, refused, broken or timed out.  The
\* ticks start when it is done.
Handshake(c) ==
  /\ stage[c] = "handshake"
  /\ \/ To(c, "serving") /\ link[c] /\ ticker' = [ticker EXCEPT ![c] = "waiting"]
     \/ To(c, "closing") /\ UNCHANGED ticker
  /\ UNCHANGED <<active, link, inbox, owed, out, home, run>>

\* The deferred calls: the ticks are cancelled and waited for (<-tickDone), the
\* connection is closed, ...
Close(c) ==
  /\ stage[c] = "closing" /\ ticker[c] \in {"none", "done"}
  /\ To(c, "closed")
  /\ link' = [link EXCEPT ![c] = FALSE]
  /\ UNCHANGED <<active, inbox, owed, out, home, run, ticker>>

\* ... and last clear active, so that the next connection is let in.
Release(c) ==
  /\ stage[c] = "closed"
  /\ To(c, "gone")
  /\ active' = FALSE
  /\ UNCHANGED <<link, inbox, owed, out, home, run, ticker>>
-----------------------------------------------------------------------------
(* The request loop of serveConnection.                                    *)

\* Slip: every request starts a goroutine.
ReadDispatchesAll(c) ==
  /\ stage[c] = "serving" /\ owed[c] = {} /\ inbox[c] # <<>>
  /\ LET f == Head(inbox[c])
     IN  /\ inbox' = [inbox EXCEPT ![c] = Tail(@)]
         /\ owed' = [owed EXCEPT ![c] = IF KindOf[f] = "other" THEN {} ELSE {f}]
         /\ run' = [run EXCEPT ![f] = IF KindOf[f] = "other" THEN @ ELSE "dispatching"]
  /\ UNCHANGED <<active, stage, link, out, home, ticker>>

\* Slip: the newest frame first.
ReadNewest(c) ==
  /\ stage[c] = "serving" /\ owed[c] = {} /\ inbox[c] # <<>>
  /\ LET f == inbox[c][Len(inbox[c])]
     IN  /\ inbox' = [inbox EXCEPT ![c] = SubSeq(@, 1, Len(@) - 1)]
         /\ owed' = [owed EXCEPT ![c] = IF KindOf[f] = "other" THEN {} ELSE {f}]
         /\ run' = [run EXCEPT ![f] = IF KindOf[f] = "chat" THEN "dispatching" ELSE @]
  /\ UNCHANGED <<active, stage, link, out, home, ticker>>

\* Read a frame and handle it.  For a chat the goroutine is started first and
\* the ACK is written after Handle has returned.
ReadFrame(c) ==
  /\ stage[c] = "serving" /\ owed[c] = {} /\ inbox[c] # <<>>
  /\ LET f == Head(inbox[c])
     IN  /\ inbox' = [inbox EXCEPT ![c] = Tail(@)]
         /\ owed' = [owed EXCEPT ![c] = IF KindOf[f] = "other" THEN {} ELSE {f}]
         /\ run' = [run EXCEPT ![f] = IF KindOf[f] = "chat" THEN "dispatching" ELSE @]
  /\ UNCHANGED <<active, stage, link, out, home, ticker>>

\* Write the response.  On a dead link the write fails, which ends the loop,
\* or is swallowed by a buffer.
Respond(c) ==
  /\ stage[c] = "serving" /\ owed[c] # {}
  /\ owed' = [owed EXCEPT ![c] = {}]
  /\ IF link[c]
     THEN (\E f \in owed[c] : Write(c, Res(f))) /\ UNCHANGED stage
     ELSE UNCHANGED out /\ (To(c, "closing") \/ UNCHANGED stage)
  /\ UNCHANGED <<active, link, inbox, home, run, ticker>>

\* The read fails: the device closed the connection or TCP gave it up.
ReadFails(c) ==
  /\ stage[c] = "serving" /\ owed[c] = {} /\ ~link[c]
  /\ To(c, "closing")
  /\ UNCHANGED <<active, link, inbox, owed, out, home, run, ticker>>
-----------------------------------------------------------------------------
(* The goroutine of handleSend.                                            *)

\* Slip: a third kind of end that Push does not know.
DispatchedOrAborted(f) ==
  /\ run[f] = "dispatching"
  /\ \E result \in {"final", "error", "aborted"} : run' = [run EXCEPT ![f] = result]
  /\ UNCHANGED <<active, stage, link, inbox, owed, out, home, ticker>>

\* Dispatch returns: a reply, or an error (denied, cancelled, two minutes).
Dispatched(f) ==
  /\ run[f] = "dispatching"
  /\ \E result \in {"final", "error"} : run' = [run EXCEPT ![f] = result]
  /\ UNCHANGED <<active, stage, link, inbox, owed, out, home, ticker>>

\* Slip: the event goes to the connection that is served now.
PushToCurrent(f) ==
  /\ run[f] \in {"final", "error"}
  /\ \E c \in Conns : stage[c] = "serving" /\ link[c] /\ Write(c, Event(f, run[f]))
  /\ run' = [run EXCEPT ![f] = "pushed"]
  /\ UNCHANGED <<active, stage, link, inbox, owed, home, ticker>>

\* Slip: waits until the event can be written.
PushWhenPossible(f) ==
  /\ run[f] \in {"final", "error"} /\ link[home[f]]
  /\ Write(home[f], Event(f, run[f])) /\ run' = [run EXCEPT ![f] = "pushed"]
  /\ UNCHANGED <<active, stage, link, inbox, owed, home, ticker>>

\* Slip: a dispatch that failed is logged, and the device hears nothing of it.
PushRepliesOnly(f) ==
  /\ run[f] \in {"final", "error"}
  /\ IF link[home[f]] /\ run[f] = "final"
     THEN Write(home[f], Event(f, run[f])) /\ run' = [run EXCEPT ![f] = "pushed"]
     ELSE UNCHANGED out /\ run' = [run EXCEPT ![f] = "dropped"]
  /\ UNCHANGED <<active, stage, link, inbox, owed, home, ticker>>

\* PushEvent writes to the connection the chat came on and ignores errors.
Push(f) ==
  /\ run[f] \in {"final", "error"}
  /\ IF link[home[f]]
     THEN Write(home[f], Event(f, run[f])) /\ run' = [run EXCEPT ![f] = "pushed"]
     ELSE UNCHANGED out /\ run' = [run EXCEPT ![f] = "dropped"]
  /\ UNCHANGED <<active, stage, link, inbox, owed, home, ticker>>
-----------------------------------------------------------------------------
(* The tick loop.  A tick is due, and its write ends, whatever comes of it.   *)

TurnTicker(c, from, to) ==
  /\ ticker[c] \in from
  /\ ticker' = [ticker EXCEPT ![c] = to]
  /\ UNCHANGED <<active, stage, link, inbox, owed, out, home, run>>

Tick(c) == stage[c] = "serving" /\ TurnTicker(c, {"waiting"}, "writing")
TickWritten(c) == TurnTicker(c, {"writing"}, "waiting")

\* Slip: ticks are written with the context of the connection, and may hang.
TickStopsInSelect(c) == stage[c] = "closing" /\ TurnTicker(c, {"waiting"}, "done")

\* tickCtx is cancelled, which also ends a write that hangs on a dead link.
TickStops(c) == stage[c] = "closing" /\ TurnTicker(c, {"waiting", "writing"}, "done")
-----------------------------------------------------------------------------
(* The device and the network.                                             *)

Send(c, f) ==
  /\ stage[c] = "serving" /\ link[c]
  /\ home[f] = NoConn /\ \A g \in 1 .. f - 1 : home[g] # NoConn
  /\ home' = [home EXCEPT ![f] = c]
  /\ inbox' = [inbox EXCEPT ![c] = Append(@, f)]
  /\ UNCHANGED <<active, stage, link, owed, out, run, ticker>>

\* The device goes away, the network does, or a frame that is no JSON makes
\* wsjson.Read close the connection.
LinkDown(c) ==
  /\ link[c] /\ stage[c] \in {"upgrading", "handshake", "serving"}
  /\ link' = [link EXCEPT ![c] = FALSE]
  /\ UNCHANGED <<active, stage, inbox, owed, out, home, run, ticker>>

Serve(c) == \/ Upgrade(c) \/ Accept(c) \/ Handshake(c) \/ Close(c) \/ Release(c)
            \/ ReadFrame(c) \/ Respond(c) \/ ReadFails(c)
Chat(f) == Dispatched(f) \/ Push(f)
Ticks(c) == Tick(c) \/ TickWritten(c) \/ TickStops(c)

\* The gateway waits for frames and connections.
Waiting == (\A f \in Frames : run[f] \in {"none", "pushed", "dropped"}) /\ UNCHANGED vars

Next == \/ \E c \in Conns : Serve(c) \/ Ticks(c) \/ LinkDown(c) \/ (\E f \in Frames : Send(c, f))
        \/ \E f \in Frames : Chat(f)
        \/ Waiting

Spec == Init /\ [][Next]_vars

\* Runnable goroutines are scheduled.  Accept, the handshake (10 seconds), the
\* dispatch (two minutes) and the read from a dead TCP connection all end.
Fairness == /\ \A c \in Conns : WF_vars(Serve(c)) /\ WF_vars(TickStops(c))
            /\ \A f \in Frames : WF_vars(Chat(f))

FairSpec == Spec /\ Fairness
-----------------------------------------------------------------------------
(* Properties.                                                             *)

\* Every variable has its type.
TypeOK ==
  /\ active \in BOOLEAN
  /\ stage \in [Conns -> Stages]
  /\ link \in [Conns -> BOOLEAN]
  /\ inbox \in [Conns -> Seq(Frames)]
  /\ owed \in [Conns -> SUBSET Frames]
  /\ out \in [Conns -> Seq([type : FrameTypes, of : Frames])]
  /\ home \in [Frames -> Conns \cup {NoConn}]
  /\ run \in [Frames -> Runs]
  /\ ticker \in [Conns -> Tickers]

\* Server.active is the single-active-connection guard it is documented to be:
\* it is set exactly while one handler is between its test and its deferred
\* reset, and there is never a second one.
SingleConnection ==
  /\ \A c, d \in Conns : stage[c] \in Guarded /\ stage[d] \in Guarded => c = d
  /\ active <=> \E c \in Conns : stage[c] \in Guarded

Positions(c, frame) == {i \in DOMAIN out[c] : out[c][i] = frame}
Events(c, f) == {i \in DOMAIN out[c] : out[c][i].of = f /\ out[c][i].type # "res"}

\* A frame gets at most one response, and a chat at most one event, however
\* the goroutines interleave; a frame that is no chat gets no event.  And nothing
\* is written for a frame on another connection than its own: a reply that is
\* late for its connection never appears on the next one.
AnsweredOnce ==
  \A c \in Conns :
    /\ \A f \in Frames :
         /\ Cardinality(Positions(c, Res(f))) <= 1
         /\ Cardinality(Events(c, f)) <= IF KindOf[f] = "chat" THEN 1 ELSE 0
    /\ \A i \in DOMAIN out[c] : home[out[c][i].of] = c

\* Responses leave in the order of the requests, whatever chat events come
\* between them.
ResponsesInOrder ==
  \A c \in Conns : \A i, j \in DOMAIN out[c] :
    i < j /\ out[c][i].type = "res" /\ out[c][j].type = "res" => out[c][i].of < out[c][j].of

\* A request that has been read is answered, or about to be, and a chat's
\* goroutine is at work, or has written the event.
Settled(f, c) ==
  /\ KindOf[f] # "other" => f \in owed[c] \/ \E i \in DOMAIN out[c] : out[c][i] = Res(f)
  /\ KindOf[f] = "chat" =>
       \/ run[f] \in {"dispatching", "final", "error"}
       \/ \E i \in DOMAIN out[c] : out[c][i] \in {Event(f, "final"), Event(f, "error")}

\* As long as the device can hear the gateway, none of its frames is lost between
\* the request loop and the goroutines, whatever they write in between: each one
\* is unread, or its response is written or the next thing that the request loop
\* writes; and each chat that was read has its event, be it an error, or a
\* goroutine that will write it.
NothingForgotten ==
  \A f \in Frames, c \in Conns : home[f] = c /\ link[c] =>
    (\E i \in DOMAIN inbox[c] : inbox[c][i] = f) \/ Settled(f, c)

\* Every chat that is handled ends: its event is written, or its connection
\* is gone.
EveryChatEnds ==
  \A f \in Frames : run[f] = "dispatching" ~> run[f] \in {"pushed", "dropped"}

\* A connection whose peer is gone gives the gateway back, so that the device
\* is not refused with 409 for ever.
GatewayComesBack == \A c \in Conns : stage[c] \in Guarded /\ ~link[c] ~> stage[c] = "gone"

\* README and methods.go: the shim "returns an immediate ACK" and "then pushes
\* the actual response as async "chat" events": the ACK would come first.
AckBeforeEvent ==
  \A c \in Conns, f \in Frames : \A i \in Events(c, f) :
    \E j \in Positions(c, Res(f)) : j < i

=============================================================================
