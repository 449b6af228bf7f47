-------------------------- MODULE R1GatewayProofs ---------------------------
(***************************************************************************)
(* Theorems about R1Gateway, for any number of connections and frames: the *)
(* guard on Server.active, and the frames that the goroutines write.       *)
(***************************************************************************)
EXTENDS R1Gateway, FiniteSetTheorems, TLAPS

\* The part of the state that the guard on Server.active depends on.
GatewayInv ==
  /\ active \in BOOLEAN
  /\ stage \in [Conns -> Stages]
  /\ SingleConnection

(* Nothing is connected at first. *)
LEMMA GatewayInit == Init => GatewayInv
<1>. SUFFICES ASSUME Init PROVE GatewayInv
  OBVIOUS
<1>1. active = FALSE /\ stage = [c \in Conns |-> "new"]
  BY DEF Init
<1>. QED  BY <1>1 DEF GatewayInv, SingleConnection, Stages, Guarded

(* A handler that goes from one guarded stage to another leaves the guard as  *)
(* it is.                                                                    *)
LEMMA MovingOn ==
  ASSUME GatewayInv, NEW c \in Conns, NEW s \in Guarded,
         stage[c] \in Guarded, To(c, s), UNCHANGED active
  PROVE  GatewayInv'
<1>1. stage' = [stage EXCEPT ![c] = s] /\ Guarded \subseteq Stages
  BY DEF To, Guarded, Stages
<1>2. stage' \in [Conns -> Stages]
  BY <1>1 DEF GatewayInv
<1>3. \A d \in Conns : stage'[d] \in Guarded <=> stage[d] \in Guarded
  BY <1>1 DEF GatewayInv
<1>. QED  BY <1>2, <1>3 DEF GatewayInv, SingleConnection

(* A step that moves no handler leaves the guard as it is. *)
LEMMA StayingPut == GatewayInv /\ UNCHANGED <<active, stage>> => GatewayInv'
BY DEF GatewayInv, SingleConnection

(* The upgrade takes the guard only when it is free. *)
LEMMA UpgradeKeeps ==
  ASSUME GatewayInv, NEW c \in Conns, Upgrade(c)
  PROVE  GatewayInv'
<1>. USE DEF GatewayInv, SingleConnection
<1>1. CASE active
  <2>1. stage' = [stage EXCEPT ![c] = "refused"] /\ stage[c] = "new" /\ active' = active
    BY <1>1 DEF Upgrade, To
  <2>2. \A d \in Conns : stage'[d] \in Guarded <=> stage[d] \in Guarded
    BY <2>1 DEF Guarded
  <2>3. stage' \in [Conns -> Stages]
    BY <2>1 DEF Stages
  <2>. QED  BY <2>1, <2>2, <2>3
<1>2. CASE ~active
  <2>1. stage' = [stage EXCEPT ![c] = "upgrading"] /\ active' = TRUE
    BY <1>2 DEF Upgrade, To
  <2>2. \A d \in Conns : stage'[d] \in Guarded <=> d = c
    BY <1>2, <2>1 DEF Guarded
  <2>3. stage' \in [Conns -> Stages]
    BY <2>1 DEF Stages
  <2>. QED  BY <2>1, <2>2, <2>3
<1>. QED  BY <1>1, <1>2

(* The last deferred call frees the guard, and no other handler holds it. *)
LEMMA ReleaseKeeps ==
  ASSUME GatewayInv, NEW c \in Conns, Release(c)
  PROVE  GatewayInv'
<1>. USE DEF GatewayInv, SingleConnection
<1>1. stage' = [stage EXCEPT ![c] = "gone"] /\ stage[c] = "closed" /\ active' = FALSE
  BY DEF Release, To
<1>2. \A d \in Conns : stage'[d] \notin Guarded
  BY <1>1 DEF Guarded
<1>3. stage' \in [Conns -> Stages]
  BY <1>1 DEF Stages
<1>. QED  BY <1>1, <1>2, <1>3

(* Every step of the gateway keeps the guard exact. *)
LEMMA GatewayStep == GatewayInv /\ [Next]_vars => GatewayInv'
<1>. SUFFICES ASSUME GatewayInv, [Next]_vars PROVE GatewayInv'
  OBVIOUS
<1>1. ASSUME NEW c \in Conns, Serve(c) PROVE GatewayInv'
  <2>1. CASE Upgrade(c)
    BY <2>1, UpgradeKeeps
  <2>2. CASE Accept(c)
    BY <2>2, MovingOn DEF Accept, Guarded
  <2>3. CASE Handshake(c)
    BY <2>3, MovingOn DEF Handshake, Guarded
  <2>4. CASE Close(c)
    BY <2>4, MovingOn DEF Close, Guarded
  <2>5. CASE Release(c)
    BY <2>5, ReleaseKeeps
  <2>6. CASE ReadFrame(c)
    BY <2>6, StayingPut DEF ReadFrame
  <2>7. CASE Respond(c)
    BY <2>7, MovingOn, StayingPut DEF Respond, Guarded
  <2>8. CASE ReadFails(c)
    BY <2>8, MovingOn DEF ReadFails, Guarded
  <2>. QED  BY <1>1, <2>1, <2>2, <2>3, <2>4, <2>5, <2>6, <2>7, <2>8 DEF Serve
<1>2. ASSUME NEW c \in Conns, LinkDown(c) PROVE GatewayInv'
  BY <1>2, StayingPut DEF LinkDown
<1>3. ASSUME NEW c \in Conns, NEW f \in Frames, Send(c, f) PROVE GatewayInv'
  BY <1>3, StayingPut DEF Send
<1>4. ASSUME NEW f \in Frames, Chat(f) PROVE GatewayInv'
  BY <1>4, StayingPut DEF Chat, Dispatched, Push
<1>5. ASSUME NEW c \in Conns, Ticks(c) PROVE GatewayInv'
  BY <1>5, StayingPut DEF Ticks, Tick, TickWritten, TickStops, TurnTicker
<1>6. CASE Waiting \/ UNCHANGED vars
  BY <1>6, StayingPut DEF Waiting, vars
<1>. QED  BY <1>1, <1>2, <1>3, <1>4, <1>5, <1>6 DEF Next

(* Server.active lets one connection in at a time, however the upgrades of    *)
(* many connections interleave with the deferred calls of the one before.    *)
THEOREM OneConnectionAtATime == Spec => []SingleConnection
<1>1. GatewayInv => SingleConnection
  BY DEF GatewayInv
<1>. QED  BY <1>1, GatewayInit, GatewayStep, PTL DEF Spec

-----------------------------------------------------------------------------
(* The frames.  A frame is sent on one connection and is in one place at a   *)
(* time: unread, owed a response, or answered.                               *)

\* Frames are sent in the order of their numbers, and only a chat that was
\* sent has a goroutine.
SentInv ==
  /\ \A f, g \in Frames : g < f /\ home[f] # NoConn => home[g] # NoConn
  /\ \A f \in Frames : run[f] # "none" => KindOf[f] = "chat" /\ home[f] # NoConn

\* What is unread was sent on this connection, has no goroutine yet, and comes
\* after the frame, at most one, that is owed a response.
UnreadInv ==
  \A c \in Conns :
    /\ \A i \in DOMAIN inbox[c] :
         home[inbox[c][i]] = c /\ run[inbox[c][i]] = "none"
    /\ \A i, j \in DOMAIN inbox[c] : i < j => inbox[c][i] < inbox[c][j]
    /\ \A f \in owed[c] :
         home[f] = c /\ \A i \in DOMAIN inbox[c] : f < inbox[c][i]
    /\ \A f, g \in owed[c] : f = g

\* What has been answered comes before what is unread or owed a response, and
\* a chat whose event has been written is pushed.
Written(c, i) ==
  /\ home[out[c][i].of] = c
  /\ out[c][i].type = "res" =>
       /\ \A k \in DOMAIN inbox[c] : out[c][i].of < inbox[c][k]
       /\ \A f \in owed[c] : out[c][i].of < f
       /\ \A j \in DOMAIN out[c] :
            i < j /\ out[c][j].type = "res" => out[c][i].of < out[c][j].of
  /\ out[c][i].type # "res" =>
       /\ run[out[c][i].of] = "pushed"
       /\ \A j \in DOMAIN out[c] :
            out[c][j].type # "res" /\ out[c][j].of = out[c][i].of => i = j

WrittenInv == \A c \in Conns : \A i \in DOMAIN out[c] : Written(c, i)

FrameInv == TypeOK /\ SentInv /\ UnreadInv /\ WrittenInv

(* Nothing has been sent or written at first. *)
LEMMA FrameInit == Init => FrameInv
<1>. SUFFICES ASSUME Init PROVE FrameInv
  OBVIOUS
<1>1. TypeOK
  <2>1. <<>> \in Seq(Frames) /\ <<>> \in Seq([type : FrameTypes, of : Frames])
    OBVIOUS
  <2>2. active \in BOOLEAN /\ stage \in [Conns -> Stages] /\ link \in [Conns -> BOOLEAN]
    BY DEF Init, Stages
  <2>3. inbox \in [Conns -> Seq(Frames)] /\ owed \in [Conns -> SUBSET Frames]
    BY <2>1 DEF Init
  <2>4. out \in [Conns -> Seq([type : FrameTypes, of : Frames])]
    BY <2>1 DEF Init
  <2>5. home \in [Frames -> Conns \cup {NoConn}] /\ run \in [Frames -> Runs]
    BY DEF Init, Runs
  <2>6. ticker \in [Conns -> Tickers]
    BY DEF Init, Tickers
  <2>. QED  BY <2>2, <2>3, <2>4, <2>5, <2>6 DEF TypeOK
<1>2. SentInv /\ UnreadInv /\ WrittenInv
  BY DEF Init, SentInv, UnreadInv, WrittenInv, Written
<1>. QED  BY <1>1, <1>2 DEF FrameInv

(* What a sequence holds is of its type. *)
LEMMA ElementTyped ==
  ASSUME NEW T, NEW s \in Seq(T)
  PROVE  \A i \in DOMAIN s : s[i] \in T
OBVIOUS

(* What is unread, owed a response or written is a frame. *)
LEMMA FramesOnly ==
  ASSUME TypeOK, NEW c \in Conns
  PROVE  /\ \A i \in DOMAIN inbox[c] : inbox[c][i] \in Frames
         /\ \A f \in owed[c] : f \in Frames
         /\ \A i \in DOMAIN out[c] : out[c][i].of \in Frames
<1>. HIDE DEF Frames
<1>1. inbox[c] \in Seq(Frames) /\ owed[c] \subseteq Frames
  BY DEF TypeOK
<1>2. out[c] \in Seq([type : FrameTypes, of : Frames])
  BY DEF TypeOK
<1>3. \A i \in DOMAIN out[c] : out[c][i] \in [type : FrameTypes, of : Frames]
  BY <1>2, ElementTyped
<1>. QED  BY <1>1, <1>3

(* A step that touches no frame keeps what is known of them. *)
LEMMA FramesUntouched ==
  ASSUME FrameInv, UNCHANGED <<inbox, owed, out, home, run>>,
         active' \in BOOLEAN, stage' \in [Conns -> Stages], link' \in [Conns -> BOOLEAN],
         ticker' \in [Conns -> Tickers]
  PROVE  FrameInv'
<1>1. TypeOK'
  BY DEF FrameInv, TypeOK
<1>2. SentInv' /\ UnreadInv' /\ WrittenInv'
  BY DEF FrameInv, SentInv, UnreadInv, WrittenInv, Written
<1>. QED  BY <1>1, <1>2 DEF FrameInv

(* Write appends one frame to one connection. *)
LEMMA WriteAppends ==
  ASSUME TypeOK, NEW c \in Conns, NEW frame \in [type : FrameTypes, of : Frames],
         Write(c, frame)
  PROVE  /\ out' \in [Conns -> Seq([type : FrameTypes, of : Frames])]
         /\ \A d \in Conns : d # c => out'[d] = out[d]
         /\ DOMAIN out[c] = 1 .. Len(out[c]) /\ Len(out[c]) \in Nat
         /\ DOMAIN out'[c] = 1 .. Len(out[c]) + 1
         /\ out'[c][Len(out[c]) + 1] = frame
         /\ \A i \in DOMAIN out[c] : out'[c][i] = out[c][i]
<1>1. out[c] \in Seq([type : FrameTypes, of : Frames])
  BY DEF TypeOK
<1>2. out' = [out EXCEPT ![c] = Append(out[c], frame)]
  BY DEF Write
<1>3. out'[c] = Append(out[c], frame)
  BY <1>2 DEF TypeOK
<1>4. Append(out[c], frame) \in Seq([type : FrameTypes, of : Frames])
  BY <1>1
<1>5. out' \in [Conns -> Seq([type : FrameTypes, of : Frames])]
  BY <1>2, <1>4 DEF TypeOK
<1>6. \A d \in Conns : d # c => out'[d] = out[d]
  BY <1>2 DEF TypeOK
<1>7. /\ DOMAIN out[c] = 1 .. Len(out[c]) /\ Len(out[c]) \in Nat
      /\ DOMAIN Append(out[c], frame) = 1 .. Len(out[c]) + 1
      /\ Append(out[c], frame)[Len(out[c]) + 1] = frame
      /\ \A i \in DOMAIN out[c] : Append(out[c], frame)[i] = out[c][i]
  <2>. DEFINE s == out[c]
  <2>1. s \in Seq([type : FrameTypes, of : Frames])
    BY <1>1
  <2>. HIDE DEF s
  <2>2. /\ DOMAIN s = 1 .. Len(s) /\ Len(s) \in Nat
        /\ DOMAIN Append(s, frame) = 1 .. Len(s) + 1
        /\ Append(s, frame)[Len(s) + 1] = frame
        /\ \A i \in DOMAIN s : Append(s, frame)[i] = s[i]
    BY <2>1
  <2>. QED  BY <2>2 DEF s
<1>. QED  BY <1>3, <1>5, <1>6, <1>7

(* Reading moves the first unread frame to what is owed a response, and       *)
(* starts a goroutine for a chat.                                             *)
LEMMA ReadFrameKeeps ==
  ASSUME FrameInv, NEW c \in Conns, ReadFrame(c)
  PROVE  FrameInv'
<1>. DEFINE f == Head(inbox[c])
<1>1. /\ TypeOK /\ SentInv /\ UnreadInv /\ WrittenInv
      /\ owed[c] = {} /\ inbox[c] # <<>> /\ inbox[c] \in Seq(Frames)
      /\ UNCHANGED <<active, stage, link, out, home, ticker>>
  BY DEF FrameInv, ReadFrame, TypeOK
<1>2. /\ f \in Frames /\ f = inbox[c][1] /\ 1 \in DOMAIN inbox[c]
      /\ Tail(inbox[c]) \in Seq(Frames)
      /\ \A i \in DOMAIN Tail(inbox[c]) :
           i + 1 \in DOMAIN inbox[c] /\ 1 < i + 1 /\ i \in Int
           /\ Tail(inbox[c])[i] = inbox[c][i + 1]
  <2>. DEFINE s == inbox[c]
  <2>1. s \in Seq(Frames) /\ s # <<>>
    BY <1>1
  <2>. HIDE DEF s
  <2>2. /\ Head(s) \in Frames /\ Head(s) = s[1] /\ 1 \in DOMAIN s
        /\ Tail(s) \in Seq(Frames)
        /\ \A i \in DOMAIN Tail(s) :
             i + 1 \in DOMAIN s /\ 1 < i + 1 /\ i \in Int /\ Tail(s)[i] = s[i + 1]
    BY <2>1
  <2>. QED  BY <2>2 DEF s
<1>. HIDE DEF f
<1>3. /\ inbox' = [inbox EXCEPT ![c] = Tail(inbox[c])]
      /\ owed' = [owed EXCEPT ![c] = IF KindOf[f] = "other" THEN {} ELSE {f}]
      /\ run' = [run EXCEPT ![f] = IF KindOf[f] = "chat" THEN "dispatching" ELSE @]
  BY DEF ReadFrame, f
<1>4. /\ home[f] = c /\ run[f] = "none"
      /\ \A i \in DOMAIN Tail(inbox[c]) : f < Tail(inbox[c])[i]
      /\ \A i, j \in DOMAIN Tail(inbox[c]) :
           i < j => Tail(inbox[c])[i] < Tail(inbox[c])[j]
      /\ \A i \in DOMAIN Tail(inbox[c]) :
           home[Tail(inbox[c])[i]] = c /\ run[Tail(inbox[c])[i]] = "none"
  BY <1>1, <1>2 DEF UnreadInv
<1>5. TypeOK'
  <2>1. run' \in [Frames -> Runs]
    BY <1>1, <1>2, <1>3 DEF TypeOK, Runs
  <2>2. inbox' \in [Conns -> Seq(Frames)] /\ owed' \in [Conns -> SUBSET Frames]
    BY <1>1, <1>2, <1>3 DEF TypeOK
  <2>. QED  BY <1>1, <2>1, <2>2 DEF TypeOK
<1>6. /\ \A d \in Conns : d # c => inbox'[d] = inbox[d] /\ owed'[d] = owed[d]
      /\ inbox'[c] = Tail(inbox[c]) /\ owed'[c] \subseteq {f}
      /\ \A g \in Frames : g # f => run'[g] = run[g]
      /\ run'[f] \in {"none", "dispatching"} /\ (run'[f] # "none" => KindOf[f] = "chat")
  BY <1>1, <1>2, <1>3, <1>4 DEF TypeOK
<1>7. SentInv'
  <2>1. home[f] # NoConn
    BY <1>4, NoConnAssumption
  <2>. QED  BY <1>1, <1>6, <2>1 DEF SentInv
<1>8. UnreadInv'
  <2>1. \A d \in Conns : d # c => \A i \in DOMAIN inbox[d] : inbox[d][i] # f
    BY <1>1, <1>4 DEF UnreadInv
  <2>2. \A d \in Conns : \A i \in DOMAIN inbox[d] : inbox[d][i] \in Frames
    BY <1>1 DEF TypeOK
  <2>3. ASSUME NEW d \in Conns, d # c
        PROVE  /\ \A i \in DOMAIN inbox[d] : home[inbox[d][i]] = d /\ run'[inbox[d][i]] = "none"
               /\ \A i, j \in DOMAIN inbox[d] : i < j => inbox[d][i] < inbox[d][j]
               /\ \A g \in owed[d] : home[g] = d /\ \A i \in DOMAIN inbox[d] : g < inbox[d][i]
               /\ \A g, h \in owed[d] : g = h
    BY <1>1, <1>6, <2>1, <2>2, <2>3 DEF UnreadInv
  <2>4. \A i \in DOMAIN Tail(inbox[c]) : Tail(inbox[c])[i] \in Frames /\ Tail(inbox[c])[i] # f
    <3>. SUFFICES ASSUME NEW i \in DOMAIN Tail(inbox[c])
                  PROVE  Tail(inbox[c])[i] \in Frames /\ Tail(inbox[c])[i] # f
      OBVIOUS
    <3>1. Tail(inbox[c])[i] \in Frames
      BY <1>1, <1>2, FramesOnly
    <3>. QED  BY <1>2, <1>4, <3>1 DEF Frames
  <2>5. /\ \A i \in DOMAIN inbox'[c] : home[inbox'[c][i]] = c /\ run'[inbox'[c][i]] = "none"
        /\ \A i, j \in DOMAIN inbox'[c] : i < j => inbox'[c][i] < inbox'[c][j]
        /\ \A g \in owed'[c] : home[g] = c /\ \A i \in DOMAIN inbox'[c] : g < inbox'[c][i]
        /\ \A g, h \in owed'[c] : g = h
    BY <1>4, <1>6, <2>4
  <2>6. /\ home' = home
        /\ \A d \in Conns : d # c => inbox'[d] = inbox[d] /\ owed'[d] = owed[d]
    BY <1>1, <1>6
  <2>. HIDE DEF f
  <2>7. ASSUME NEW d \in Conns
        PROVE  (/\ \A i \in DOMAIN inbox[d] : home[inbox[d][i]] = d /\ run[inbox[d][i]] = "none"
                /\ \A i, j \in DOMAIN inbox[d] : i < j => inbox[d][i] < inbox[d][j]
                /\ \A g \in owed[d] : home[g] = d /\ \A i \in DOMAIN inbox[d] : g < inbox[d][i]
                /\ \A g, h \in owed[d] : g = h)'
    <3>1. CASE d = c
      BY <2>5, <2>6, <3>1
    <3>2. CASE d # c
      <4>1. inbox'[d] = inbox[d] /\ owed'[d] = owed[d] /\ home' = home
        BY <2>6, <3>2
      <4>. QED  BY <2>3, <3>2, <4>1
    <3>. QED  BY <3>1, <3>2
  <2>. QED  BY <2>7 DEF UnreadInv
<1>9. WrittenInv'
  <2>. SUFFICES ASSUME NEW d \in Conns, NEW i \in DOMAIN out[d]
                PROVE  Written(d, i)'
    BY <1>1 DEF WrittenInv
  <2>0. Written(d, i) /\ UNCHANGED <<home, out>>
    BY <1>1 DEF WrittenInv
  <2>1. out[d][i].of \in Frames
    BY <1>1, FramesOnly
  <2>2. out[d][i].type = "res" => /\ \A k \in DOMAIN inbox'[d] : out[d][i].of < inbox'[d][k]
                                  /\ \A g \in owed'[d] : out[d][i].of < g
    <3>1. CASE d = c
      <4>1. out[c][i].type = "res" => \A k \in DOMAIN inbox[c] : out[c][i].of < inbox[c][k]
        BY <2>0, <3>1 DEF Written
      <4>2. \A k \in DOMAIN Tail(inbox[c]) : k + 1 \in DOMAIN inbox[c]
                                          /\ Tail(inbox[c])[k] = inbox[c][k + 1]
        BY <1>2
      <4>3. inbox[c][1] = f /\ 1 \in DOMAIN inbox[c]
        BY <1>2
      <4>4. out[c][i].type = "res" => out[c][i].of < f
        BY <4>1, <4>3
      <4>5. out[c][i].type = "res" =>
              \A k \in DOMAIN Tail(inbox[c]) : out[c][i].of < Tail(inbox[c])[k]
        BY <4>1, <4>2
      <4>6. \A g \in owed'[c] : g = f
        BY <1>6
      <4>. QED  BY <1>6, <3>1, <4>4, <4>5, <4>6
    <3>2. CASE d # c
      BY <1>6, <2>0, <3>2 DEF Written
    <3>. QED  BY <3>1, <3>2
  <2>3. out[d][i].type # "res" => run'[out[d][i].of] = "pushed"
    BY <1>4, <1>6, <2>0, <2>1 DEF Written
  <2>. QED  BY <2>0, <2>2, <2>3 DEF Written
<1>. QED  BY <1>5, <1>7, <1>8, <1>9 DEF FrameInv

(* The response is for the one frame that is owed it; it is lost when the     *)
(* connection is dead.                                                        *)
LEMMA RespondKeeps ==
  ASSUME FrameInv, NEW c \in Conns, Respond(c)
  PROVE  FrameInv'
<1>1. /\ TypeOK /\ SentInv /\ UnreadInv /\ WrittenInv
      /\ UNCHANGED <<active, link, inbox, home, run, ticker>>
      /\ owed' = [owed EXCEPT ![c] = {}]
  BY DEF FrameInv, Respond
<1>2. owed' \in [Conns -> SUBSET Frames] /\ stage' \in [Conns -> Stages]
  BY <1>1 DEF Respond, To, TypeOK, Stages
<1>3. /\ owed'[c] = {} /\ \A d \in Conns : d # c => owed'[d] = owed[d]
  BY <1>1 DEF TypeOK
<1>4. SentInv'
  BY <1>1 DEF SentInv
<1>5. UnreadInv'
  BY <1>1, <1>3 DEF UnreadInv
<1>6. CASE UNCHANGED out
  <2>1. TypeOK'
    BY <1>1, <1>2, <1>6 DEF TypeOK
  <2>2. WrittenInv'
    BY <1>1, <1>3, <1>6 DEF WrittenInv, Written
  <2>. QED  BY <1>4, <1>5, <2>1, <2>2 DEF FrameInv
<1>7. ASSUME NEW f \in owed[c], Write(c, Res(f)) PROVE FrameInv'
  <2>1. f \in Frames /\ Res(f) \in [type : FrameTypes, of : Frames]
        /\ Res(f).type = "res" /\ Res(f).of = f
    BY <1>1 DEF TypeOK, Res, FrameTypes
  <2>. HIDE DEF Frames
  <2>2. /\ out' \in [Conns -> Seq([type : FrameTypes, of : Frames])]
        /\ \A d \in Conns : d # c => out'[d] = out[d]
        /\ DOMAIN out[c] = 1 .. Len(out[c]) /\ Len(out[c]) \in Nat
        /\ DOMAIN out'[c] = 1 .. Len(out[c]) + 1
        /\ out'[c][Len(out[c]) + 1] = Res(f)
        /\ \A i \in DOMAIN out[c] : out'[c][i] = out[c][i]
    BY <1>1, <1>7, <2>1, WriteAppends
  <2>3. TypeOK'
    BY <1>1, <1>2, <2>2 DEF TypeOK
  <2>4. /\ home[f] = c /\ \A i \in DOMAIN inbox[c] : f < inbox[c][i]
        /\ \A i \in DOMAIN out[c] : out[c][i].type = "res" => out[c][i].of < f
    BY <1>1, <1>7 DEF UnreadInv, WrittenInv, Written
  <2>5. WrittenInv'
    <3>1. ASSUME NEW d \in Conns, NEW i \in DOMAIN out'[d], d # c
          PROVE  Written(d, i)'
      <4>1. /\ out'[d] = out[d] /\ owed'[d] = owed[d]
            /\ UNCHANGED <<inbox, home, run>>
        BY <1>1, <1>3, <2>2, <3>1
      <4>2. Written(d, i)
        BY <1>1, <3>1, <4>1 DEF WrittenInv
      <4>. QED  BY <4>1, <4>2 DEF Written
    <3>2. ASSUME NEW i \in DOMAIN out'[c]
          PROVE  Written(c, i)'
      <4>1. CASE i \in DOMAIN out[c]
        <5>1. \A j \in DOMAIN out'[c] : j \in DOMAIN out[c] \/ j = Len(out[c]) + 1
          BY <2>2
        <5>2. Written(c, i) /\ out'[c][i] = out[c][i] /\ UNCHANGED <<home, run>>
              /\ inbox'[c] = inbox[c] /\ owed'[c] = {}
          BY <1>1, <1>3, <2>2, <4>1 DEF WrittenInv
        <5>3. \A j \in DOMAIN out'[c] :
                i < j /\ out[c][i].type = "res" /\ out'[c][j].type = "res"
                  => out[c][i].of < out'[c][j].of
          <6>1. \A j \in DOMAIN out[c] :
                  i < j /\ out[c][i].type = "res" /\ out[c][j].type = "res"
                    => out[c][i].of < out[c][j].of
            BY <5>2 DEF Written
          <6>. QED  BY <2>1, <2>2, <2>4, <4>1, <5>1, <6>1
        <5>4. \A j \in DOMAIN out'[c] :
                out[c][i].type # "res" /\ out'[c][j].type # "res" /\ out'[c][j].of = out[c][i].of
                  => i = j
          BY <2>1, <2>2, <5>1, <5>2 DEF Written
        <5>5. /\ home[out[c][i].of] = c
              /\ out[c][i].type = "res" => \A k \in DOMAIN inbox[c] : out[c][i].of < inbox[c][k]
              /\ out[c][i].type # "res" => run[out[c][i].of] = "pushed"
          BY <5>2 DEF Written
        <5>. QED  BY <5>2, <5>3, <5>4, <5>5 DEF Written
      <4>2. CASE i = Len(out[c]) + 1
        <5>1. \A j \in DOMAIN out'[c] : ~(i < j)
          BY <2>2, <4>2
        <5>. QED  BY <1>1, <1>3, <2>1, <2>2, <2>4, <4>2, <5>1 DEF Written
      <4>. QED  BY <2>2, <4>1, <4>2
    <3>. QED  BY <3>1, <3>2 DEF WrittenInv
  <2>. QED  BY <1>4, <1>5, <2>3, <2>5 DEF FrameInv
<1>. QED  BY <1>6, <1>7 DEF Respond

(* A dispatch that ends writes nothing yet. *)
LEMMA DispatchedKeeps ==
  ASSUME FrameInv, NEW f \in Frames, Dispatched(f)
  PROVE  FrameInv'
<1>1. /\ TypeOK /\ SentInv /\ UnreadInv /\ WrittenInv
      /\ UNCHANGED <<active, stage, link, inbox, owed, out, home, ticker>>
      /\ run[f] = "dispatching"
      /\ \E result \in {"final", "error"} : run' = [run EXCEPT ![f] = result]
  BY DEF FrameInv, Dispatched
<1>2. run' \in [Frames -> Runs] /\ \A g \in Frames : g # f => run'[g] = run[g]
  BY <1>1 DEF TypeOK, Runs
<1>3. TypeOK'
  BY <1>1, <1>2 DEF TypeOK
<1>4. SentInv'
  BY <1>1, <1>2 DEF SentInv
<1>5. \A c \in Conns : /\ \A i \in DOMAIN inbox[c] : inbox[c][i] \in Frames
                       /\ \A i \in DOMAIN out[c] : out[c][i].of \in Frames
  BY <1>1, FramesOnly
<1>6. UnreadInv' /\ WrittenInv'
  BY <1>1, <1>2, <1>5 DEF UnreadInv, WrittenInv, Written
<1>. QED  BY <1>3, <1>4, <1>6 DEF FrameInv

(* The event is written on the connection that the chat was sent on, once. *)
LEMMA PushKeeps ==
  ASSUME FrameInv, NEW f \in Frames, Push(f)
  PROVE  FrameInv'
<1>1. /\ TypeOK /\ SentInv /\ UnreadInv /\ WrittenInv
      /\ UNCHANGED <<active, stage, link, inbox, owed, home, ticker>>
      /\ run[f] \in {"final", "error"}
      /\ \E end \in {"pushed", "dropped"} : run' = [run EXCEPT ![f] = end]
  BY DEF FrameInv, Push
<1>2. run' \in [Frames -> Runs] /\ \A g \in Frames : g # f => run'[g] = run[g]
  BY <1>1 DEF TypeOK, Runs
<1>3. SentInv'
  BY <1>1, <1>2 DEF SentInv
<1>4. \A d \in Conns : /\ \A i \in DOMAIN inbox[d] : inbox[d][i] \in Frames
                       /\ \A i \in DOMAIN out[d] : out[d][i].of \in Frames
  BY <1>1, FramesOnly
<1>5. UnreadInv'
  BY <1>1, <1>2, <1>4 DEF UnreadInv
<1>6. CASE UNCHANGED out
  <2>1. TypeOK'
    BY <1>1, <1>2, <1>6 DEF TypeOK
  <2>2. WrittenInv'
    <3>. SUFFICES ASSUME NEW d \in Conns, NEW i \in DOMAIN out[d] PROVE Written(d, i)'
      BY <1>6 DEF WrittenInv
    <3>. QED  BY <1>1, <1>2, <1>4, <1>6 DEF WrittenInv, Written
  <2>. QED  BY <1>3, <1>5, <2>1, <2>2 DEF FrameInv
<1>7. ASSUME NEW c \in Conns, c = home[f], Write(c, Event(f, run[f])),
             run' = [run EXCEPT ![f] = "pushed"]
      PROVE  FrameInv'
  <2>. DEFINE e == Event(f, run[f])
  <2>2. e \in [type : FrameTypes, of : Frames] /\ e.type # "res" /\ e.of = f
    BY <1>1 DEF Event, FrameTypes
  <2>. HIDE DEF Frames, e
  <2>3. /\ out' \in [Conns -> Seq([type : FrameTypes, of : Frames])]
        /\ \A d \in Conns : d # c => out'[d] = out[d]
        /\ DOMAIN out[c] = 1 .. Len(out[c]) /\ Len(out[c]) \in Nat
        /\ DOMAIN out'[c] = 1 .. Len(out[c]) + 1
        /\ out'[c][Len(out[c]) + 1] = e
        /\ \A i \in DOMAIN out[c] : out'[c][i] = out[c][i]
    BY <1>1, <1>7, <2>2, WriteAppends DEF e
  <2>4. TypeOK'
    BY <1>1, <1>2, <2>3 DEF TypeOK
  <2>5. \A d \in Conns : \A i \in DOMAIN out[d] :
          out[d][i].type # "res" => out[d][i].of # f
    BY <1>1 DEF WrittenInv, Written
  <2>6. home[f] = c /\ run'[f] = "pushed"
    BY <1>1, <1>7 DEF TypeOK
  <2>7. WrittenInv'
    <3>1. ASSUME NEW d \in Conns, NEW i \in DOMAIN out'[d], d # c
          PROVE  Written(d, i)'
      BY <1>1, <1>2, <1>4, <2>3, <2>5, <3>1 DEF WrittenInv, Written
    <3>2. ASSUME NEW i \in DOMAIN out'[c]
          PROVE  Written(c, i)'
      <4>1. \A j \in DOMAIN out'[c] : j \in DOMAIN out[c] \/ j = Len(out[c]) + 1
        BY <2>3
      <4>0. UNCHANGED <<home, inbox, owed>>
        BY <1>1
      <4>2. CASE i \in DOMAIN out[c]
        <5>1. Written(c, i) /\ out'[c][i] = out[c][i] /\ out[c][i].of \in Frames
          BY <1>1, <1>4, <2>3, <4>2 DEF WrittenInv
        <5>2. out[c][i].type # "res" => out[c][i].of # f /\ run'[out[c][i].of] = "pushed"
          BY <1>2, <2>5, <4>2, <5>1 DEF Written
        <5>. QED  BY <2>2, <2>3, <4>0, <4>1, <4>2, <5>1, <5>2 DEF Written
      <4>3. CASE i = Len(out[c]) + 1
        BY <2>2, <2>3, <2>5, <2>6, <4>0, <4>1, <4>3 DEF Written
      <4>. QED  BY <4>1, <4>2, <4>3
    <3>. QED  BY <3>1, <3>2 DEF WrittenInv
  <2>. QED  BY <1>3, <1>5, <2>4, <2>7 DEF FrameInv
<1>8. home[f] \in Conns
  BY <1>1 DEF SentInv, TypeOK
<1>. QED  BY <1>6, <1>7, <1>8 DEF Push

(* The device sends its frames in order, so that a new one comes last. *)
LEMMA SendKeeps ==
  ASSUME FrameInv, NEW c \in Conns, NEW f \in Frames, Send(c, f)
  PROVE  FrameInv'
<1>1. /\ TypeOK /\ SentInv /\ UnreadInv /\ WrittenInv
      /\ UNCHANGED <<active, stage, link, owed, out, run, ticker>>
      /\ home[f] = NoConn /\ \A g \in 1 .. f - 1 : home[g] # NoConn
      /\ home' = [home EXCEPT ![f] = c]
      /\ inbox' = [inbox EXCEPT ![c] = Append(inbox[c], f)]
  BY DEF FrameInv, Send
<1>2. /\ DOMAIN inbox[c] = 1 .. Len(inbox[c]) /\ Len(inbox[c]) \in Nat
      /\ Append(inbox[c], f) \in Seq(Frames)
      /\ DOMAIN Append(inbox[c], f) = 1 .. Len(inbox[c]) + 1
      /\ Append(inbox[c], f)[Len(inbox[c]) + 1] = f
      /\ \A i \in DOMAIN inbox[c] : Append(inbox[c], f)[i] = inbox[c][i]
  <2>. DEFINE s == inbox[c]
  <2>1. s \in Seq(Frames)
    BY <1>1 DEF TypeOK
  <2>. HIDE DEF s, Frames
  <2>2. /\ DOMAIN s = 1 .. Len(s) /\ Len(s) \in Nat
        /\ Append(s, f) \in Seq(Frames)
        /\ DOMAIN Append(s, f) = 1 .. Len(s) + 1
        /\ Append(s, f)[Len(s) + 1] = f
        /\ \A i \in DOMAIN s : Append(s, f)[i] = s[i]
    BY <2>1
  <2>. QED  BY <2>2 DEF s
<1>3. /\ inbox'[c] = Append(inbox[c], f)
      /\ \A d \in Conns : d # c => inbox'[d] = inbox[d]
      /\ home'[f] = c /\ \A g \in Frames : g # f => home'[g] = home[g]
  BY <1>1 DEF TypeOK
<1>4. TypeOK'
  BY <1>1, <1>2 DEF TypeOK
<1>5. \A d \in Conns : /\ \A i \in DOMAIN inbox[d] : inbox[d][i] \in Frames
                       /\ \A i \in DOMAIN out[d] : out[d][i].of \in Frames
                       /\ \A g \in owed[d] : g \in Frames
  BY <1>1, FramesOnly
<1>. USE ConstantsAssumption
<1>6. \A g \in Frames : home[g] # NoConn => g < f
  <2>. SUFFICES ASSUME NEW g \in Frames, home[g] # NoConn, ~(g < f) PROVE FALSE
    OBVIOUS
  <2>1. f < g
    BY <1>1 DEF Frames
  <2>. QED  BY <1>1, <2>1 DEF SentInv
<1>7. \A d \in Conns : /\ \A i \in DOMAIN inbox[d] : inbox[d][i] < f
                       /\ \A g \in owed[d] : g < f
                       /\ \A i \in DOMAIN out[d] : out[d][i].of < f
  BY <1>1, <1>5, <1>6, NoConnAssumption DEF UnreadInv, WrittenInv, Written
<1>8. SentInv'
  <2>1. \A g, h \in Frames : h < g /\ home'[g] # NoConn => home'[h] # NoConn
    <3>. SUFFICES ASSUME NEW g \in Frames, NEW h \in Frames, h < g, home'[g] # NoConn,
                         h # f
                  PROVE  home[h] # NoConn
      BY <1>3, NoConnAssumption
    <3>1. CASE g = f
      BY <1>1, <3>1 DEF Frames
    <3>2. CASE g # f
      BY <1>1, <1>3, <3>2 DEF SentInv
    <3>. QED  BY <3>1, <3>2
  <2>2. \A g \in Frames : run[g] # "none" => KindOf[g] = "chat" /\ home'[g] # NoConn
    BY <1>1, <1>3, NoConnAssumption DEF SentInv
  <2>. QED  BY <1>1, <2>1, <2>2 DEF SentInv
<1>9. run[f] = "none"
  BY <1>1 DEF SentInv
<1>10. UnreadInv'
  <2>1. ASSUME NEW d \in Conns, d # c
        PROVE  /\ \A i \in DOMAIN inbox[d] : home'[inbox[d][i]] = d /\ run[inbox[d][i]] = "none"
               /\ \A g \in owed[d] : home'[g] = d
    BY <1>1, <1>3, <1>5, <1>7 DEF UnreadInv, Frames
  <2>2. ASSUME NEW i \in DOMAIN inbox'[c]
        PROVE  /\ home'[inbox'[c][i]] = c /\ run[inbox'[c][i]] = "none"
               /\ \A j \in DOMAIN inbox'[c] : i < j => inbox'[c][i] < inbox'[c][j]
               /\ \A g \in owed[c] : home'[g] = c /\ g < inbox'[c][i]
    <3>1. \A j \in DOMAIN inbox'[c] : j \in DOMAIN inbox[c] \/ j = Len(inbox[c]) + 1
      BY <1>2, <1>3
    <3>2. \A g \in owed[c] : home'[g] = c
      BY <1>1, <1>3, <1>5 DEF UnreadInv
    <3>3. CASE i \in DOMAIN inbox[c]
      <4>1. /\ home'[inbox[c][i]] = c /\ run[inbox[c][i]] = "none"
            /\ \A g \in owed[c] : g < inbox[c][i]
            /\ \A j \in DOMAIN inbox[c] : i < j => inbox[c][i] < inbox[c][j]
            /\ inbox[c][i] < f
        BY <1>1, <1>3, <1>5, <1>7, <3>3 DEF UnreadInv
      <4>. QED  BY <1>2, <1>3, <3>1, <3>2, <3>3, <4>1
    <3>4. CASE i = Len(inbox[c]) + 1
      <4>1. \A j \in DOMAIN inbox'[c] : ~(i < j)
        BY <1>2, <3>1, <3>4
      <4>2. inbox'[c][i] = f
        BY <1>2, <1>3, <3>4
      <4>. QED  BY <1>3, <1>7, <1>9, <3>2, <4>1, <4>2
    <3>. QED  BY <3>1, <3>3, <3>4
  <2>3. \A d \in Conns : d # c =>
          /\ \A i, j \in DOMAIN inbox[d] : i < j => inbox[d][i] < inbox[d][j]
          /\ \A g \in owed[d] : \A i \in DOMAIN inbox[d] : g < inbox[d][i]
    BY <1>1 DEF UnreadInv
  <2>4. /\ \A d \in Conns : \A g, h \in owed[d] : g = h
        /\ \A g \in owed[c] : home'[g] = c
    BY <1>1, <1>3, <1>5 DEF UnreadInv
  <2>. QED  BY <1>1, <1>3, <2>1, <2>2, <2>3, <2>4 DEF UnreadInv
<1>11. WrittenInv'
  <2>. SUFFICES ASSUME NEW d \in Conns, NEW i \in DOMAIN out[d]
                PROVE  /\ home'[out[d][i].of] = d
                       /\ \A k \in DOMAIN inbox'[d] :
                            out[d][i].type = "res" => out[d][i].of < inbox'[d][k]
    BY <1>1 DEF WrittenInv, Written
  <2>1. home'[out[d][i].of] = d
    BY <1>1, <1>3, <1>5, <1>7 DEF WrittenInv, Written, Frames
  <2>2. ASSUME NEW k \in DOMAIN inbox'[d], out[d][i].type = "res"
        PROVE  out[d][i].of < inbox'[d][k]
    <3>1. CASE d = c /\ k = Len(inbox[c]) + 1
      BY <1>2, <1>3, <1>7, <3>1
    <3>2. CASE k \in DOMAIN inbox[d] /\ inbox'[d][k] = inbox[d][k]
      BY <1>1, <2>2, <3>2 DEF WrittenInv, Written
    <3>. QED  BY <1>2, <1>3, <3>1, <3>2
  <2>. QED  BY <2>1, <2>2
<1>. QED  BY <1>4, <1>8, <1>10, <1>11 DEF FrameInv

(* Every step of the gateway keeps what is known of the frames. *)
LEMMA FrameStep == FrameInv /\ [Next]_vars => FrameInv'
<1>. SUFFICES ASSUME FrameInv, [Next]_vars PROVE FrameInv'
  OBVIOUS
<1>1. TypeOK
  BY DEF FrameInv
<1>2. ASSUME NEW c \in Conns, Serve(c) PROVE FrameInv'
  <2>1. CASE ReadFrame(c)
    BY <2>1, ReadFrameKeeps
  <2>2. CASE Respond(c)
    BY <2>2, RespondKeeps
  <2>3. CASE Upgrade(c) \/ Accept(c) \/ Handshake(c) \/ Close(c) \/ Release(c) \/ ReadFails(c)
    <3>1. UNCHANGED <<inbox, owed, out, home, run>>
      BY <2>3 DEF Upgrade, Accept, Handshake, Close, Release, ReadFails
    <3>2. active' \in BOOLEAN /\ link' \in [Conns -> BOOLEAN]
      BY <1>1, <2>3 DEF Upgrade, Accept, Handshake, Close, Release, ReadFails, TypeOK
    <3>3. stage' \in [Conns -> Stages]
      BY <1>1, <2>3
         DEF Upgrade, Accept, Handshake, Close, Release, ReadFails, To, TypeOK, Stages
    <3>4. ticker' \in [Conns -> Tickers]
      BY <1>1, <2>3
         DEF Upgrade, Accept, Handshake, Close, Release, ReadFails, TypeOK, Tickers
    <3>. QED  BY <3>1, <3>2, <3>3, <3>4, FramesUntouched
  <2>. QED  BY <1>2, <2>1, <2>2, <2>3 DEF Serve
<1>3. ASSUME NEW c \in Conns, LinkDown(c) PROVE FrameInv'
  <2>1. /\ UNCHANGED <<active, stage, inbox, owed, out, home, run, ticker>>
        /\ link' \in [Conns -> BOOLEAN]
    BY <1>1, <1>3 DEF LinkDown, TypeOK
  <2>. QED  BY <1>1, <2>1, FramesUntouched DEF TypeOK
<1>4. ASSUME NEW c \in Conns, NEW f \in Frames, Send(c, f) PROVE FrameInv'
  BY <1>4, SendKeeps
<1>5. ASSUME NEW f \in Frames, Chat(f) PROVE FrameInv'
  BY <1>5, DispatchedKeeps, PushKeeps DEF Chat
<1>6. ASSUME NEW c \in Conns, Ticks(c) PROVE FrameInv'
  <2>1. UNCHANGED <<active, stage, link, inbox, owed, out, home, run>>
    BY <1>6 DEF Ticks, Tick, TickWritten, TickStops, TurnTicker
  <2>2. ticker' \in [Conns -> Tickers]
    BY <1>1, <1>6 DEF Ticks, Tick, TickWritten, TickStops, TurnTicker, TypeOK, Tickers
  <2>. QED  BY <1>1, <2>1, <2>2, FramesUntouched DEF TypeOK
<1>7. CASE Waiting \/ UNCHANGED vars
  <2>1. UNCHANGED vars
    BY <1>7 DEF Waiting
  <2>. QED  BY <1>1, <2>1, FramesUntouched DEF vars, TypeOK
<1>. QED  BY <1>2, <1>3, <1>4, <1>5, <1>6, <1>7 DEF Next

(* What is known of the frames holds of every behaviour. *)
LEMMA FramesTracked == Spec => []FrameInv
BY FrameInit, FrameStep, PTL DEF Spec

(* Every variable keeps its type, and out is a sequence of written frames. *)
THEOREM GatewayTyped == Spec => []TypeOK
<1>1. FrameInv => TypeOK
  BY DEF FrameInv
<1>. QED  BY <1>1, FramesTracked, PTL

(* ResponsesInOrder: responses leave in the order of the requests, however    *)
(* many chat events are written between them.                                *)
THEOREM ResponsesKeepOrder == Spec => []ResponsesInOrder
<1>1. FrameInv => ResponsesInOrder
  BY DEF FrameInv, WrittenInv, Written, ResponsesInOrder
<1>. QED  BY <1>1, FramesTracked, PTL

(* A set whose elements are all the same has at most one. *)
LEMMA AtMostOne ==
  ASSUME NEW S, \A x, y \in S : x = y
  PROVE  Cardinality(S) \in {0, 1} /\ (S = {} => Cardinality(S) = 0)
<1>1. CASE S = {}
  BY <1>1, FS_EmptySet
<1>2. ASSUME NEW x \in S PROVE Cardinality(S) = 1 /\ S # {}
  <2>1. S = {x}
    OBVIOUS
  <2>. QED  BY <2>1, FS_Singleton
<1>. QED  BY <1>1, <1>2

(* AnsweredOnce: no frame has two responses and no chat two events, however   *)
(* the request loops and the goroutines of the chats interleave, and the      *)
(* goroutine of a chat that outlives its connection writes to no other one.   *)
THEOREM OneAnswerEach == Spec => []AnsweredOnce
<1>1. ASSUME FrameInv, NEW c \in Conns, NEW f \in Frames
      PROVE  /\ Cardinality(Positions(c, Res(f))) <= 1
             /\ Cardinality(Events(c, f)) <= IF KindOf[f] = "chat" THEN 1 ELSE 0
  <2>0. /\ WrittenInv /\ SentInv
        /\ DOMAIN out[c] = 1 .. Len(out[c]) /\ Len(out[c]) \in Nat
    BY <1>1 DEF FrameInv, TypeOK
  <2>1. \A i, j \in Positions(c, Res(f)) : i = j
    <3>. SUFFICES ASSUME NEW i \in Positions(c, Res(f)), NEW j \in Positions(c, Res(f)), i < j
                  PROVE  FALSE
      BY <2>0 DEF Positions
    <3>1. /\ i \in DOMAIN out[c] /\ j \in DOMAIN out[c]
          /\ out[c][i].type = "res" /\ out[c][j].type = "res"
          /\ out[c][i].of = f /\ out[c][j].of = f
      BY DEF Positions, Res
    <3>. QED  BY <2>0, <3>1 DEF WrittenInv, Written, Frames
  <2>2. \A i, j \in Events(c, f) : i = j
    BY <2>0 DEF WrittenInv, Written, Events
  <2>3. Events(c, f) # {} => KindOf[f] = "chat"
    BY <2>0 DEF WrittenInv, Written, SentInv, Events
  <2>. QED  BY <2>1, <2>2, <2>3, AtMostOne
<1>2. FrameInv => \A c \in Conns : \A i \in DOMAIN out[c] : home[out[c][i].of] = c
  BY DEF FrameInv, WrittenInv, Written
<1>3. FrameInv => AnsweredOnce
  BY <1>1, <1>2 DEF AnsweredOnce
<1>. QED  BY <1>3, FramesTracked, PTL

-----------------------------------------------------------------------------
(* Nothing is forgotten while the device can hear.                         *)

(* What has been written stays, and so does what it settles. *)
LEMMA WriteKeepsSettled ==
  ASSUME TypeOK, NEW c \in Conns, NEW frame \in [type : FrameTypes, of : Frames],
         Write(c, frame), NEW d \in Conns, NEW x, \E i \in DOMAIN out[d] : out[d][i] = x
  PROVE  \E i \in DOMAIN out'[d] : out'[d][i] = x
<1>1. PICK i \in DOMAIN out[d] : out[d][i] = x
  OBVIOUS
<1>2. CASE d = c
  <2>1. i \in DOMAIN out'[c] /\ out'[c][i] = x
    BY <1>1, <1>2, WriteAppends
  <2>. QED  BY <1>2, <2>1
<1>3. CASE d # c
  BY <1>1, <1>3, WriteAppends
<1>. QED  BY <1>2, <1>3

(* A step that leaves the frames alone, or only cuts links, forgets nothing. *)
LEMMA FramesKept ==
  ASSUME NothingForgotten, UNCHANGED <<inbox, owed, out, home, run>>,
         \A c \in Conns : link'[c] => link[c]
  PROVE  NothingForgotten'
BY DEF NothingForgotten, Settled, Res, Event

(* The frame that is read first is owed its response from then on. *)
LEMMA ReadForgetsNothing ==
  ASSUME TypeOK, NothingForgotten, NEW c \in Conns, ReadFrame(c)
  PROVE  NothingForgotten'
<1>. DEFINE g == Head(inbox[c])
<1>1. /\ inbox[c] \in Seq(Frames) /\ inbox[c] # <<>>
      /\ inbox' = [inbox EXCEPT ![c] = Tail(inbox[c])]
      /\ owed[c] = {} /\ owed' = [owed EXCEPT ![c] = IF KindOf[g] = "other" THEN {} ELSE {g}]
      /\ run' = [run EXCEPT ![g] = IF KindOf[g] = "chat" THEN "dispatching" ELSE run[g]]
      /\ UNCHANGED <<link, out, home>>
  BY DEF ReadFrame, TypeOK
<1>2. /\ g = inbox[c][1]
      /\ DOMAIN inbox[c] = 1 .. Len(inbox[c]) /\ Len(inbox[c]) \in Nat
      /\ Len(Tail(inbox[c])) = Len(inbox[c]) - 1
      /\ DOMAIN Tail(inbox[c]) = 1 .. Len(inbox[c]) - 1
      /\ \A i \in 1 .. Len(inbox[c]) - 1 : Tail(inbox[c])[i] = inbox[c][i + 1]
  <2>. DEFINE s == inbox[c]
  <2>1. s \in Seq(Frames) /\ s # <<>>
    BY <1>1
  <2>. HIDE DEF s
  <2>2. /\ Head(s) = s[1] /\ DOMAIN s = 1 .. Len(s) /\ Len(s) \in Nat
        /\ Len(Tail(s)) = Len(s) - 1 /\ DOMAIN Tail(s) = 1 .. Len(s) - 1
        /\ \A i \in 1 .. Len(s) - 1 : Tail(s)[i] = s[i + 1]
    BY <2>1
  <2>. QED  BY <2>2 DEF s
<1>. HIDE DEF g
<1>3. /\ inbox'[c] = Tail(inbox[c]) /\ owed'[c] = IF KindOf[g] = "other" THEN {} ELSE {g}
      /\ \A d \in Conns : d # c => inbox'[d] = inbox[d] /\ owed'[d] = owed[d]
  BY <1>1 DEF TypeOK
<1>4. /\ g \in Frames => run'[g] = IF KindOf[g] = "chat" THEN "dispatching" ELSE run[g]
      /\ \A f \in Frames : f # g => run'[f] = run[f]
  BY <1>1 DEF TypeOK
<1>. SUFFICES ASSUME NEW f \in Frames, NEW d \in Conns, home[f] = d, link[d]
              PROVE  (\E i \in DOMAIN inbox'[d] : inbox'[d][i] = f) \/ Settled(f, d)'
  BY <1>1 DEF NothingForgotten
<1>5. CASE \E i \in DOMAIN inbox[d] : inbox[d][i] = f
  <2>1. PICK i \in DOMAIN inbox[d] : inbox[d][i] = f
    BY <1>5
  <2>2. CASE d # c
    BY <1>3, <2>1, <2>2
  <2>3. CASE d = c /\ i = 1
    <3>1. f = g
      BY <1>2, <2>1, <2>3
    <3>. QED  BY <1>3, <1>4, <2>3, <3>1 DEF Settled
  <2>4. CASE d = c /\ i # 1
    <3>1. i - 1 \in 1 .. Len(inbox[c]) - 1 /\ (i - 1) + 1 = i
      BY <1>2, <2>1, <2>4
    <3>2. i - 1 \in DOMAIN inbox'[c] /\ inbox'[c][i - 1] = f
      BY <1>2, <1>3, <2>1, <2>4, <3>1
    <3>. QED  BY <2>4, <3>2
  <2>. QED  BY <2>2, <2>3, <2>4
<1>6. CASE Settled(f, d)
  <2>1. KindOf[f] = "chat" =>
          \/ run'[f] \in {"dispatching", "final", "error"}
          \/ \E i \in DOMAIN out[d] : out[d][i] \in {Event(f, "final"), Event(f, "error")}
    BY <1>4, <1>6 DEF Settled
  <2>2. KindOf[f] # "other" => f \in owed'[d] \/ \E i \in DOMAIN out[d] : out[d][i] = Res(f)
    BY <1>1, <1>3, <1>6 DEF Settled
  <2>. QED  BY <1>1, <2>1, <2>2 DEF Settled, Res, Event
<1>. QED  BY <1>5, <1>6 DEF NothingForgotten

(* A response that is no longer owed has been written, or nobody can hear it. *)
LEMMA RespondForgetsNothing ==
  ASSUME FrameInv, NothingForgotten, NEW c \in Conns, Respond(c)
  PROVE  NothingForgotten'
<1>0. TypeOK /\ UnreadInv
  BY DEF FrameInv
<1>1. /\ owed[c] # {} /\ owed' = [owed EXCEPT ![c] = {}]
      /\ UNCHANGED <<link, inbox, home, run>>
  BY DEF Respond
<1>2. CASE ~link[c]
  <2>1. out' = out /\ \A d \in Conns : d # c => owed'[d] = owed[d]
    BY <1>0, <1>1, <1>2 DEF Respond, TypeOK
  <2>. QED  BY <1>1, <1>2, <2>1 DEF NothingForgotten, Settled, Res, Event
<1>3. CASE link[c]
  <2>1. PICK g \in owed[c] : Write(c, Res(g))
    BY <1>3 DEF Respond
  <2>2. g \in Frames /\ Res(g) \in [type : FrameTypes, of : Frames]
    BY <1>0, FramesOnly DEF Res, FrameTypes
  <2>3. /\ \A d \in Conns : d # c => owed'[d] = owed[d]
        /\ \A f \in owed[c] : f = g
    BY <1>0, <1>1 DEF TypeOK, UnreadInv
  <2>4. \E i \in DOMAIN out'[c] : out'[c][i] = Res(g)
    <3>1. Len(out[c]) + 1 \in DOMAIN out'[c] /\ out'[c][Len(out[c]) + 1] = Res(g)
      BY <1>0, <2>1, <2>2, WriteAppends
    <3>. QED  BY <3>1
  <2>5. ASSUME NEW f \in Frames, NEW d \in Conns, Settled(f, d) PROVE Settled(f, d)'
    <3>1. KindOf[f] # "other" => f \in owed'[d] \/ \E i \in DOMAIN out'[d] : out'[d][i] = Res(f)
      <4>1. CASE f \in owed[d]
        BY <2>3, <2>4, <4>1
      <4>2. CASE \E i \in DOMAIN out[d] : out[d][i] = Res(f)
        BY <1>0, <2>1, <2>2, <4>2, WriteKeepsSettled
      <4>. QED  BY <2>5, <4>1, <4>2 DEF Settled
    <3>2. KindOf[f] = "chat" =>
            \/ run[f] \in {"dispatching", "final", "error"}
            \/ \E i \in DOMAIN out'[d] : out'[d][i] \in {Event(f, "final"), Event(f, "error")}
      <4>1. ASSUME NEW x \in {Event(f, "final"), Event(f, "error")},
                   \E i \in DOMAIN out[d] : out[d][i] = x
            PROVE  \E i \in DOMAIN out'[d] : out'[d][i] = x
        BY <1>0, <2>1, <2>2, <4>1, WriteKeepsSettled
      <4>. QED  BY <2>5, <4>1 DEF Settled
    <3>. QED  BY <1>1, <3>1, <3>2 DEF Settled, Res, Event
  <2>. QED  BY <1>1, <2>5 DEF NothingForgotten
<1>. QED  BY <1>2, <1>3

(* A goroutine that ends has written its event, or nobody can hear it. *)
LEMMA ChatForgetsNothing ==
  ASSUME TypeOK, NothingForgotten, NEW g \in Frames, Chat(g), home[g] \in Conns
  PROVE  NothingForgotten'
<1>1. UNCHANGED <<link, inbox, owed, home>> /\ \A f \in Frames : f # g => run'[f] = run[f]
  BY DEF Chat, Dispatched, Push, TypeOK
<1>2. CASE Dispatched(g)
  <2>1. run'[g] \in {"final", "error"} /\ out' = out
    BY <1>2 DEF Dispatched, TypeOK
  <2>. QED  BY <1>1, <2>1 DEF NothingForgotten, Settled, Res, Event
<1>3. CASE Push(g) /\ ~link[home[g]]
  <2>1. out' = out
    BY <1>3 DEF Push
  <2>. QED  BY <1>1, <1>3, <2>1 DEF NothingForgotten, Settled, Res, Event
<1>4. CASE Push(g) /\ link[home[g]]
  <2>. DEFINE c == home[g]
  <2>1. /\ run[g] \in {"final", "error"} /\ Write(c, Event(g, run[g]))
        /\ Event(g, run[g]) \in [type : FrameTypes, of : Frames]
    BY <1>4 DEF Push, Event, FrameTypes
  <2>. HIDE DEF c
  <2>2. \E i \in DOMAIN out'[c] : out'[c][i] = Event(g, run[g])
    <3>1. Len(out[c]) + 1 \in DOMAIN out'[c] /\ out'[c][Len(out[c]) + 1] = Event(g, run[g])
      BY <2>1, WriteAppends DEF c
    <3>. QED  BY <3>1
  <2>3. ASSUME NEW f \in Frames, NEW d \in Conns, home[f] = d, Settled(f, d)
        PROVE  Settled(f, d)'
    <3>1. ASSUME NEW x, \E i \in DOMAIN out[d] : out[d][i] = x
          PROVE  \E i \in DOMAIN out'[d] : out'[d][i] = x
      BY <2>1, <3>1, WriteKeepsSettled DEF c
    <3>2. KindOf[f] # "other" => f \in owed[d] \/ \E i \in DOMAIN out'[d] : out'[d][i] = Res(f)
      BY <2>3, <3>1 DEF Settled
    <3>3. KindOf[f] = "chat" =>
            \/ run'[f] \in {"dispatching", "final", "error"}
            \/ \E i \in DOMAIN out'[d] : out'[d][i] \in {Event(f, "final"), Event(f, "error")}
      <4>1. CASE f = g
        <5>1. d = c
          BY <2>3, <4>1 DEF c
        <5>. QED  BY <2>1, <2>2, <4>1, <5>1
      <4>2. CASE f # g
        BY <1>1, <2>3, <3>1, <4>2 DEF Settled
      <4>. QED  BY <4>1, <4>2
    <3>. QED  BY <1>1, <3>2, <3>3 DEF Settled, Res, Event
  <2>. QED  BY <1>1, <2>3 DEF NothingForgotten
<1>. QED  BY <1>2, <1>3, <1>4 DEF Chat

(* A frame that is sent is unread. *)
LEMMA SendForgetsNothing ==
  ASSUME TypeOK, NothingForgotten, NEW c \in Conns, NEW g \in Frames, Send(c, g)
  PROVE  NothingForgotten'
<1>1. /\ inbox[c] \in Seq(Frames) /\ home' = [home EXCEPT ![g] = c]
      /\ inbox' = [inbox EXCEPT ![c] = Append(inbox[c], g)]
      /\ UNCHANGED <<link, owed, out, run>>
  BY DEF Send, TypeOK
<1>2. /\ DOMAIN inbox[c] = 1 .. Len(inbox[c]) /\ Len(inbox[c]) \in Nat
      /\ DOMAIN Append(inbox[c], g) = 1 .. Len(inbox[c]) + 1
      /\ Append(inbox[c], g)[Len(inbox[c]) + 1] = g
      /\ \A i \in DOMAIN inbox[c] : Append(inbox[c], g)[i] = inbox[c][i]
  <2>. DEFINE s == inbox[c]
  <2>1. s \in Seq(Frames)
    BY <1>1
  <2>. HIDE DEF s, Frames
  <2>2. /\ DOMAIN s = 1 .. Len(s) /\ Len(s) \in Nat
        /\ DOMAIN Append(s, g) = 1 .. Len(s) + 1 /\ Append(s, g)[Len(s) + 1] = g
        /\ \A i \in DOMAIN s : Append(s, g)[i] = s[i]
    BY <2>1
  <2>. QED  BY <2>2 DEF s
<1>3. /\ inbox'[c] = Append(inbox[c], g)
      /\ \A d \in Conns : d # c => inbox'[d] = inbox[d]
      /\ \A f \in Frames : f # g => home'[f] = home[f]
      /\ home'[g] = c
  BY <1>1 DEF TypeOK
<1>4. ASSUME NEW f \in Frames, NEW d \in Conns, Settled(f, d) PROVE Settled(f, d)'
  BY <1>1, <1>4 DEF Settled, Res, Event
<1>5. Len(inbox[c]) + 1 \in DOMAIN inbox'[c] /\ inbox'[c][Len(inbox[c]) + 1] = g
  BY <1>2, <1>3
<1>6. ASSUME NEW f \in Frames, NEW d \in Conns, \E i \in DOMAIN inbox[d] : inbox[d][i] = f
      PROVE  \E i \in DOMAIN inbox'[d] : inbox'[d][i] = f
  <2>1. PICK i \in DOMAIN inbox[d] : inbox[d][i] = f
    BY <1>6
  <2>2. i \in DOMAIN inbox'[d] /\ inbox'[d][i] = f
    BY <1>2, <1>3, <2>1
  <2>. QED  BY <2>2
<1>. QED  BY <1>1, <1>3, <1>4, <1>5, <1>6 DEF NothingForgotten

(* As long as the device can hear the gateway, none of its frames is lost,      *)
(* however many there are, and whatever is written in between: each one is        *)
(* unread, or its response is written or the next thing that the request loop     *)
(* writes; and each chat that was read has its event, or a goroutine that will    *)
(* write it.                                                                      *)
THEOREM NoFrameIsForgotten == Spec => []NothingForgotten
<1>1. Init => NothingForgotten
  BY NoConnAssumption DEF Init, NothingForgotten
<1>2. ASSUME FrameInv, NothingForgotten, [Next]_vars PROVE NothingForgotten'
  <2>0. TypeOK /\ SentInv
    BY <1>2 DEF FrameInv
  <2>1. ASSUME NEW c \in Conns, Serve(c) PROVE NothingForgotten'
    <3>1. CASE Upgrade(c) \/ Accept(c) \/ Handshake(c) \/ Close(c) \/ Release(c) \/ ReadFails(c)
      <4>1. /\ UNCHANGED <<inbox, owed, out, home, run>>
            /\ \A d \in Conns : link'[d] => link[d]
        BY <2>0, <3>1 DEF Upgrade, Accept, Handshake, Close, Release, ReadFails, TypeOK
      <4>. QED  BY <1>2, <4>1, FramesKept
    <3>. QED  BY <1>2, <2>0, <2>1, <3>1, ReadForgetsNothing, RespondForgetsNothing DEF Serve
  <2>2. ASSUME NEW c \in Conns, LinkDown(c) PROVE NothingForgotten'
    BY <1>2, <2>0, <2>2, FramesKept DEF LinkDown, TypeOK
  <2>3. ASSUME NEW c \in Conns, NEW f \in Frames, Send(c, f) PROVE NothingForgotten'
    BY <1>2, <2>0, <2>3, SendForgetsNothing
  <2>4. ASSUME NEW f \in Frames, Chat(f) PROVE NothingForgotten'
    <3>1. run[f] # "none"
      BY <2>4 DEF Chat, Dispatched, Push
    <3>2. home[f] \in Conns
      BY <2>0, <3>1 DEF SentInv, TypeOK
    <3>. QED  BY <1>2, <2>0, <2>4, <3>2, ChatForgetsNothing
  <2>5. ASSUME NEW c \in Conns, Ticks(c) PROVE NothingForgotten'
    <3>1. UNCHANGED <<link, inbox, owed, out, home, run>>
      BY <2>5 DEF Ticks, Tick, TickWritten, TickStops, TurnTicker
    <3>. QED  BY <1>2, <3>1, FramesKept
  <2>6. CASE UNCHANGED vars
    <3>1. UNCHANGED <<link, inbox, owed, out, home, run>>
      BY <2>6 DEF vars
    <3>. QED  BY <1>2, <3>1, FramesKept
  <2>. QED  BY <1>2, <2>1, <2>2, <2>3, <2>4, <2>5, <2>6 DEF Next, Waiting
<1>. QED  BY <1>1, <1>2, FramesTracked, PTL DEF Spec

=============================================================================
