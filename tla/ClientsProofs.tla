---------------------------- MODULE ClientsProofs ---------------------------
(***************************************************************************)
(* Theorems about Clients, for any number of requests of any clients, with *)
(* replies of any number of parts.                                         *)
(***************************************************************************)
EXTENDS Clients, TLAPS

\* What a request has done by the stage that it has reached.
StageInv ==
  \A r \in Requests :
    /\ stage[r] \in {"new", "transcribing", "dispatching"}
         => result[r] = "none" /\ tried[r] = 0 /\ answer[r] = "none"
    /\ stage[r] \in {"transcribing", "speech"} => client[r] = "esp"
    /\ stage[r] = "sending" => client[r] = "telegram"
    /\ stage[r] = "echoing" => client[r] \in {"watch", "esp"} /\ answer[r] = "none"
    /\ stage[r] = "pushing" => client[r] = "r1"

\* The chat holds no part that was not tried yet; and an echo that goes on has
\* had no part fail.
ChatInv ==
  /\ \A i \in DOMAIN chat : chat[i].part <= tried[chat[i].of]
  /\ \A r \in Requests : stage[r] = "echoing" /\ tried[r] \in 1 .. Parts(r) - 1 =>
       \E i \in DOMAIN chat : chat[i] = [of |-> r, part |-> tried[r]]

ClientsInv == TypeOK /\ StageInv /\ ChatInv /\ ChatIsReadable /\ WatchErrorIsFinal

(* A reply has at least one part. *)
LEMMA PartsPositive == \A r \in Requests : Parts(r) \in Nat /\ Parts(r) >= 1
BY ConstantsAssumption DEF Parts

(* Nothing has arrived at first. *)
LEMMA ClientsInit == Init => ClientsInv
<1>. SUFFICES ASSUME Init PROVE ClientsInv
  OBVIOUS
<1>1. TypeOK
  <2>1. chat \in Seq([of : Requests, part : Nat])
    BY DEF Init
  <2>2. tried \in [Requests -> Nat] /\ \A r \in Requests : tried[r] <= Parts(r)
    BY PartsPositive DEF Init
  <2>3. /\ main \in {"starting", "serving", "stopping", "exited"}
        /\ grace \in BOOLEAN /\ socket \in {"open", "returned"}
        /\ client \in [Requests -> Kinds]
        /\ stage \in [Requests -> InWork \cup {"new", "done", "killed"}]
        /\ live \in [Requests -> BOOLEAN]
        /\ result \in [Requests -> Results \cup {"none"}]
    BY DEF Init
  <2>4. /\ broken \subseteq [of : Requests, part : Nat]
        /\ answer \in [Requests -> {"none", "ok", "error", "lost"}]
        /\ notice \in [Requests -> {"none", "speaking", "over", "killed"}]
    BY DEF Init
  <2>. QED  BY <2>1, <2>2, <2>3, <2>4 DEF TypeOK
<1>2. StageInv /\ WatchErrorIsFinal
  BY DEF Init, StageInv, WatchErrorIsFinal
<1>3. ChatInv /\ ChatIsReadable
  BY DEF Init, ChatInv, ChatIsReadable
<1>. QED  BY <1>1, <1>2, <1>3 DEF ClientsInv

(* The variables that none of the invariants relates to another. *)
Asides ==
  /\ main \in {"starting", "serving", "stopping", "exited"}
  /\ grace \in BOOLEAN /\ socket \in {"open", "returned"}
  /\ live \in [Requests -> BOOLEAN]
  /\ broken \subseteq [of : Requests, part : Nat]
  /\ notice \in [Requests -> {"none", "speaking", "over", "killed"}]

(* A request that goes on to a stage, with an answer and a result that fit it, *)
(* keeps the invariant.                                                        *)
LEMMA RequestMoves ==
  ASSUME ClientsInv, Asides', UNCHANGED <<client, tried, chat>>,
         NEW r \in Requests, NEW s \in InWork \cup {"done"},
         NEW a \in {"none", "ok", "error", "lost"}, NEW o \in Results \cup {"none"},
         stage' = [stage EXCEPT ![r] = s],
         answer' = [answer EXCEPT ![r] = a], result' = [result EXCEPT ![r] = o],
         o = result[r] \/ tried[r] = 0,
         s \in {"transcribing", "dispatching"} => o = "none" /\ tried[r] = 0 /\ a = "none",
         s \in {"transcribing", "speech"} => client[r] = "esp",
         s = "sending" => client[r] = "telegram",
         s = "echoing" => client[r] \in {"watch", "esp"} /\ a = "none" /\ tried[r] = 0,
         s = "pushing" => client[r] = "r1",
         client[r] = "watch" /\ a = "error" => o \notin Stored
  PROVE  ClientsInv'
<1>1. TypeOK /\ StageInv /\ ChatInv /\ ChatIsReadable /\ WatchErrorIsFinal
  BY DEF ClientsInv
<1>2. \A q \in Requests : q # r => /\ stage'[q] = stage[q] /\ answer'[q] = answer[q]
                                   /\ result'[q] = result[q] /\ Parts(q)' = Parts(q)
  BY <1>1 DEF TypeOK, Parts
<1>3. stage'[r] = s /\ answer'[r] = a /\ result'[r] = o
  BY <1>1 DEF TypeOK
<1>4. tried[r] <= Parts(r)'
  <2>1. CASE o = result[r]
    BY <1>1, <1>3, <2>1 DEF TypeOK, Parts
  <2>2. CASE tried[r] = 0
    BY <1>1, <2>2, PartsPositive, ConstantsAssumption DEF Parts
  <2>. QED  BY <2>1, <2>2
<1>5. TypeOK'
  <2>1. stage' \in [Requests -> InWork \cup {"new", "done", "killed"}]
    BY <1>1 DEF TypeOK
  <2>2. result' \in [Requests -> Results \cup {"none"}]
    BY <1>1 DEF TypeOK
  <2>3. answer' \in [Requests -> {"none", "ok", "error", "lost"}]
    BY <1>1 DEF TypeOK
  <2>4. tried' \in [Requests -> Nat] /\ \A q \in Requests : tried'[q] <= Parts(q)'
    BY <1>1, <1>2, <1>4 DEF TypeOK
  <2>5. client' \in [Requests -> Kinds] /\ chat' \in Seq([of : Requests, part : Nat])
    BY <1>1 DEF TypeOK
  <2>. QED  BY <2>1, <2>2, <2>3, <2>4, <2>5 DEF TypeOK, Asides
<1>6. StageInv'
  BY <1>1, <1>2, <1>3 DEF StageInv, InWork
<1>7. ChatInv'
  <2>1. \A q \in Requests : stage'[q] = "echoing" /\ tried[q] \in 1 .. Parts(q)' - 1 =>
          \E i \in DOMAIN chat : chat[i] = [of |-> q, part |-> tried[q]]
    BY <1>1, <1>2, <1>3 DEF ChatInv
  <2>. QED  BY <1>1, <2>1 DEF ChatInv
<1>8. ChatIsReadable'
  BY <1>1 DEF ChatIsReadable
<1>9. WatchErrorIsFinal'
  BY <1>1, <1>2, <1>3 DEF WatchErrorIsFinal
<1>. QED  BY <1>5, <1>6, <1>7, <1>8, <1>9 DEF ClientsInv

(* The same for a request that is done. *)
LEMMA AnswerMoves ==
  ASSUME ClientsInv, Asides', UNCHANGED <<client, tried, chat, result>>,
         NEW r \in Requests, NEW a \in {"none", "ok", "error", "lost"},
         stage' = [stage EXCEPT ![r] = "done"],
         answer' = [answer EXCEPT ![r] = a],
         client[r] = "watch" /\ a = "error" => result[r] \notin Stored
  PROVE  ClientsInv'
<1>. SUFFICES ASSUME NEW o, o = result[r], NEW s, s = "done" PROVE ClientsInv'
  OBVIOUS
<1>1. /\ o \in Results \cup {"none"} /\ result' = [result EXCEPT ![r] = o]
  BY DEF ClientsInv, TypeOK
<1>2. /\ o = result[r] /\ s \in InWork \cup {"done"}
      /\ s \notin {"transcribing", "dispatching", "speech", "sending", "echoing", "pushing"}
      /\ client[r] = "watch" /\ a = "error" => o \notin Stored
      /\ stage' = [stage EXCEPT ![r] = s]
  OBVIOUS
<1>. QED  BY <1>1, <1>2, RequestMoves

(* The same for a request that gets neither an answer nor a result. *)
LEMMA StageMoves ==
  ASSUME ClientsInv, Asides', UNCHANGED <<client, tried, chat, answer, result>>,
         NEW r \in Requests, NEW s \in {"transcribing", "dispatching", "speech", "done"},
         stage' = [stage EXCEPT ![r] = s],
         s \in {"transcribing", "dispatching"} => stage[r] = "new",
         s \in {"transcribing", "speech"} => client[r] = "esp"
  PROVE  ClientsInv'
<1>1. TypeOK /\ StageInv /\ WatchErrorIsFinal
  BY DEF ClientsInv
<1>2. answer[r] \in {"none", "ok", "error", "lost"} /\ result[r] \in Results \cup {"none"}
  BY <1>1 DEF TypeOK
<1>. SUFFICES ASSUME NEW a \in {"none", "ok", "error", "lost"}, a = answer[r],
                     NEW o \in Results \cup {"none"}, o = result[r]
              PROVE  ClientsInv'
  BY <1>2
<1>3. answer' = [answer EXCEPT ![r] = a] /\ result' = [result EXCEPT ![r] = o]
  BY <1>1 DEF TypeOK
<1>4. s \in {"transcribing", "dispatching"} => o = "none" /\ tried[r] = 0 /\ a = "none"
  BY <1>1 DEF StageInv
<1>5. client[r] = "watch" /\ a = "error" => o \notin Stored
  BY <1>1 DEF WatchErrorIsFinal
<1>6. s \in InWork \cup {"done"}
  BY DEF InWork
<1>7. CASE s \in {"transcribing", "dispatching"}
  <2>1. o = "none" /\ tried[r] = 0 /\ a = "none"
    BY <1>4, <1>7
  <2>2. s \notin {"sending", "echoing", "pushing"}
    BY <1>7
  <2>. QED  BY <1>3, <1>6, <2>1, <2>2, RequestMoves
<1>8. CASE s = "speech"
  <2>1. client[r] = "esp" /\ s \notin {"transcribing", "dispatching", "sending", "echoing", "pushing"}
    BY <1>8
  <2>2. ~(client[r] = "watch" /\ a = "error")
    BY <2>1
  <2>. QED  BY <1>3, <1>6, <2>1, <2>2, RequestMoves
<1>9. CASE s = "done"
  BY <1>3, <1>5, <1>9, AnswerMoves
<1>. QED  BY <1>7, <1>8, <1>9

(* A step beside the requests' own changes nothing that the invariant is about. *)
LEMMA Beside ==
  ASSUME ClientsInv, Asides', UNCHANGED <<stage, request>>
  PROVE  ClientsInv'
<1>1. TypeOK /\ StageInv /\ ChatInv /\ ChatIsReadable /\ WatchErrorIsFinal
  BY DEF ClientsInv
<1>2. UNCHANGED <<client, stage, result, tried, chat, broken, answer>>
  BY DEF request
<1>3. \A r \in Requests : Parts(r)' = Parts(r)
  BY <1>2 DEF Parts
<1>4. TypeOK'
  BY <1>1, <1>2, <1>3 DEF TypeOK, Asides
<1>5. StageInv' /\ ChatIsReadable' /\ WatchErrorIsFinal'
  BY <1>1, <1>2 DEF StageInv, ChatIsReadable, WatchErrorIsFinal
<1>6. ChatInv'
  BY <1>1, <1>2, <1>3 DEF ChatInv
<1>. QED  BY <1>4, <1>5, <1>6 DEF ClientsInv

(* What dies with the process is left as it is. *)
LEMMA ExitKeeps ==
  ASSUME ClientsInv, Exit
  PROVE  ClientsInv'
<1>1. TypeOK /\ StageInv /\ ChatInv /\ ChatIsReadable /\ WatchErrorIsFinal
  BY DEF ClientsInv
<1>2. UNCHANGED <<grace, socket, live, client, result, tried, chat, broken, answer>>
  BY DEF Exit, request
<1>3. /\ stage' \in [Requests -> InWork \cup {"new", "done", "killed"}]
      /\ \A r \in Requests : stage'[r] \notin InWork
                             /\ (stage'[r] = "new" => stage[r] = "new")
  BY <1>1 DEF Exit, TypeOK, InWork
<1>4. notice' \in [Requests -> {"none", "speaking", "over", "killed"}]
  BY <1>1 DEF Exit, TypeOK
<1>5. \A r \in Requests : Parts(r)' = Parts(r)
  BY <1>2 DEF Parts
<1>6. TypeOK'
  <2>1. main' = "exited"
    BY DEF Exit
  <2>. QED  BY <1>1, <1>2, <1>3, <1>4, <1>5, <2>1 DEF TypeOK
<1>7. StageInv' /\ ChatIsReadable' /\ WatchErrorIsFinal'
  BY <1>1, <1>2, <1>3 DEF StageInv, InWork, ChatIsReadable, WatchErrorIsFinal
<1>8. ChatInv'
  BY <1>1, <1>2, <1>3, <1>5 DEF ChatInv, InWork
<1>. QED  BY <1>6, <1>7, <1>8 DEF ClientsInv

(* A sequence has elements of its type, at the numbers up to its length. *)
LEMMA SequenceTyped ==
  ASSUME NEW T, NEW s \in Seq(T)
  PROVE  DOMAIN s = 1 .. Len(s) /\ Len(s) \in Nat /\ \A i \in DOMAIN s : s[i] \in T
OBVIOUS

(* A part that is tried arrives or breaks.  An echo that breaks is over; the   *)
(* loop of a direct reply goes on.                                             *)
LEMMA PartTried ==
  ASSUME ClientsInv, NEW r \in Requests, NEW k \in Nat, tried[r] < k, k <= Parts(r),
         UNCHANGED <<process, stage, live, result, answer, notice>>,
         tried' = [tried EXCEPT ![r] = k],
         stage[r] \in {"sending", "echoing"},
         \/ Arrives(r) /\ k = tried[r] + 1
         \/ Breaks(r) /\ (stage[r] = "echoing" => k = Parts(r))
  PROVE  ClientsInv'
<1>. DEFINE Entry == [of : Requests, part : Nat]
            e == [of |-> r, part |-> tried[r] + 1]
<1>1. /\ TypeOK /\ StageInv /\ ChatInv /\ ChatIsReadable /\ WatchErrorIsFinal
      /\ UNCHANGED <<main, grace, socket, client, stage, live, result, answer, notice>>
  BY DEF ClientsInv, process
<1>2. /\ chat \in Seq(Entry) /\ tried[r] \in Nat /\ e \in Entry
      /\ e.of = r /\ e.part = tried[r] + 1
  BY <1>1 DEF TypeOK
<1>3. /\ tried' \in [Requests -> Nat] /\ tried'[r] = k
      /\ \A q \in Requests : q # r => tried'[q] = tried[q]
      /\ \A q \in Requests : tried[q] <= tried'[q]
  BY <1>1 DEF TypeOK
<1>4. \A q \in Requests : Parts(q)' = Parts(q)
  BY <1>1 DEF Parts
<1>5. /\ DOMAIN chat = 1 .. Len(chat) /\ Len(chat) \in Nat
      /\ \A i \in DOMAIN chat : chat[i] \in Entry
  BY <1>2, SequenceTyped
<1>6. \A i \in DOMAIN chat : chat[i].of \in Requests /\ chat[i].part \in Nat
  BY <1>5
<1>. HIDE DEF Entry, e
<1>7. CASE Breaks(r) /\ (stage[r] = "echoing" => k = Parts(r))
  <2>1. chat' = chat /\ broken' \subseteq [of : Requests, part : Nat]
    BY <1>1, <1>2, <1>7 DEF Breaks, TypeOK, e, Entry
  <2>2. TypeOK'
    BY <1>1, <1>3, <1>4, <2>1, PartsPositive DEF TypeOK
  <2>3. StageInv' /\ ChatIsReadable' /\ WatchErrorIsFinal'
    BY <1>1, <1>3, <2>1 DEF StageInv, ChatIsReadable, WatchErrorIsFinal
  <2>4. ChatInv'
    <3>1. \A i \in DOMAIN chat : chat[i].part <= tried'[chat[i].of]
      BY <1>1, <1>3, <1>6 DEF ChatInv, TypeOK
    <3>2. ASSUME NEW q \in Requests, stage[q] = "echoing", tried'[q] \in 1 .. Parts(q) - 1
          PROVE  \E i \in DOMAIN chat : chat[i] = [of |-> q, part |-> tried'[q]]
      <4>1. q # r
        BY <1>3, <1>7, <3>2, PartsPositive
      <4>. QED  BY <1>1, <1>3, <3>2, <4>1 DEF ChatInv
    <3>. QED  BY <1>1, <1>4, <2>1, <3>1, <3>2 DEF ChatInv
  <2>. QED  BY <2>2, <2>3, <2>4 DEF ClientsInv
<1>8. CASE Arrives(r) /\ k = tried[r] + 1
  <2>1. chat' = Append(chat, e) /\ broken' = broken
    BY <1>8 DEF Arrives, e
  <2>2. /\ chat' \in Seq(Entry)
        /\ DOMAIN chat' = 1 .. Len(chat) + 1
        /\ chat'[Len(chat) + 1] = e
        /\ \A i \in DOMAIN chat : chat'[i] = chat[i]
    BY <1>2, <2>1
  <2>3. \A i \in DOMAIN chat' : i \in DOMAIN chat \/ i = Len(chat) + 1
    BY <1>5, <2>2
  <2>4. TypeOK'
    BY <1>1, <1>3, <1>4, <2>1, <2>2, PartsPositive DEF TypeOK, Entry
  <2>5. StageInv' /\ WatchErrorIsFinal'
    BY <1>1, <1>3 DEF StageInv, WatchErrorIsFinal
  <2>6. e = [of |-> r, part |-> tried'[r]]
    BY <1>3, <1>8 DEF e
  <2>7. ChatInv'
    <3>1. \A i \in DOMAIN chat' : chat'[i].part <= tried'[chat'[i].of]
      <4>1. \A i \in DOMAIN chat : chat[i].part <= tried'[chat[i].of]
        BY <1>1, <1>3, <1>6 DEF ChatInv, TypeOK
      <4>. QED  BY <1>2, <1>3, <1>8, <2>2, <2>3, <4>1
    <3>2. ASSUME NEW q \in Requests, stage[q] = "echoing", tried'[q] \in 1 .. Parts(q) - 1
          PROVE  \E i \in DOMAIN chat' : chat'[i] = [of |-> q, part |-> tried'[q]]
      <4>1. CASE q = r
        BY <1>5, <2>2, <2>6, <4>1
      <4>2. CASE q # r
        <5>1. PICK i \in DOMAIN chat : chat[i] = [of |-> q, part |-> tried[q]]
          BY <1>1, <1>3, <3>2, <4>2 DEF ChatInv
        <5>2. i \in DOMAIN chat' /\ chat'[i] = [of |-> q, part |-> tried'[q]]
          BY <1>3, <1>5, <2>2, <4>2, <5>1
        <5>. QED  BY <5>2
      <4>. QED  BY <4>1, <4>2
    <3>. QED  BY <1>1, <1>4, <3>1, <3>2 DEF ChatInv
  <2>8. ChatIsReadable'
    <3>1. ASSUME NEW i \in DOMAIN chat', NEW j \in DOMAIN chat', i < j, chat'[i].of = chat'[j].of
          PROVE  chat'[i].part < chat'[j].part
      <4>1. i \in DOMAIN chat
        BY <1>5, <2>2, <3>1
      <4>2. CASE j \in DOMAIN chat
        BY <1>1, <2>2, <3>1, <4>1, <4>2 DEF ChatIsReadable
      <4>3. CASE j = Len(chat) + 1
        <5>1. chat[i].of = r /\ chat[i].part <= tried[r]
          BY <1>1, <1>2, <2>2, <3>1, <4>1, <4>3 DEF ChatInv
        <5>. QED  BY <1>2, <1>6, <2>2, <4>1, <4>3, <5>1
      <4>. QED  BY <2>3, <4>2, <4>3
    <3>2. ASSUME NEW j \in DOMAIN chat', client[chat'[j].of] # "telegram", chat'[j].part > 1
          PROVE  \E i \in 1 .. j - 1 :
                   chat'[i] = [of |-> chat'[j].of, part |-> chat'[j].part - 1]
      <4>1. CASE j \in DOMAIN chat
        <5>1. PICK i \in 1 .. j - 1 : chat[i] = [of |-> chat[j].of, part |-> chat[j].part - 1]
          BY <1>1, <2>2, <3>2, <4>1 DEF ChatIsReadable
        <5>2. i \in DOMAIN chat
          BY <1>5, <4>1
        <5>. QED  BY <2>2, <4>1, <5>1, <5>2
      <4>2. CASE j = Len(chat) + 1
        <5>1. stage[r] = "echoing" /\ tried[r] \in 1 .. Parts(r) - 1
          BY <1>1, <1>2, <1>8, <2>2, <3>2, <4>2, PartsPositive DEF StageInv
        <5>2. PICK i \in DOMAIN chat : chat[i] = [of |-> r, part |-> tried[r]]
          BY <1>1, <5>1 DEF ChatInv
        <5>3. i \in 1 .. j - 1 /\ chat'[i] = [of |-> r, part |-> tried[r]]
          BY <1>5, <2>2, <4>2, <5>2
        <5>4. chat'[j].of = r /\ chat'[j].part - 1 = tried[r]
          BY <1>2, <2>2, <4>2
        <5>5. [of |-> chat'[j].of, part |-> chat'[j].part - 1] = [of |-> r, part |-> tried[r]]
          BY <5>4
        <5>. QED  BY <5>3, <5>5
      <4>. QED  BY <2>3, <4>1, <4>2
    <3>. QED  BY <1>1, <3>1, <3>2 DEF ChatIsReadable
  <2>. QED  BY <2>4, <2>5, <2>7, <2>8 DEF ClientsInv
<1>. QED  BY <1>7, <1>8

(* Every step of a request keeps the invariant. *)
LEMMA WorkKeeps ==
  ASSUME ClientsInv, NEW r \in Requests, Receive(r) \/ Refuse(r) \/ Work(r)
  PROVE  ClientsInv'
<1>1. TypeOK /\ StageInv /\ Asides
  BY DEF ClientsInv, TypeOK, Asides
<1>2. /\ answer[r] \in {"none", "ok", "error", "lost"} /\ result[r] \in Results \cup {"none"}
      /\ answer = [answer EXCEPT ![r] = answer[r]] /\ result = [result EXCEPT ![r] = result[r]]
  BY <1>1 DEF TypeOK
<1>3. /\ tried[r] \in Nat /\ Parts(r) \in Nat /\ tried[r] <= Parts(r) /\ live[r] \in BOOLEAN
  BY <1>1, PartsPositive DEF TypeOK
<1>4. WatchErrorIsFinal
  BY DEF ClientsInv
<1>5. CASE Receive(r)
  <2>1. PICK s \in {"transcribing", "dispatching"} :
          stage' = [stage EXCEPT ![r] = s] /\ (s = "transcribing" => client[r] = "esp")
    BY <1>5 DEF Receive, To
  <2>2. /\ stage[r] = "new" /\ UNCHANGED <<client, result, tried, chat, answer>> /\ Asides'
    BY <1>1, <1>5 DEF Receive, process, Asides
  <2>. QED  BY <2>1, <2>2, StageMoves
<1>6. CASE Refuse(r)
  <2>1. /\ stage[r] = "new" /\ stage' = [stage EXCEPT ![r] = "done"]
        /\ UNCHANGED <<client, result, tried, chat>> /\ Asides'
    BY <1>1, <1>6 DEF Refuse, Respond, To, process, Asides
  <2>2. PICK a \in {"none", "ok", "error", "lost"} : answer' = [answer EXCEPT ![r] = a]
    BY <1>2, <1>6 DEF Refuse, Respond
  <2>3. result[r] \notin Stored
    BY <1>1, <2>1 DEF StageInv, Stored
  <2>. QED  BY <2>1, <2>2, <2>3, AnswerMoves
<1>7. CASE Transcribe(r)
  <2>1. PICK s \in {"dispatching", "done"}, a \in {"none", "ok", "error", "lost"} :
          /\ stage' = [stage EXCEPT ![r] = s] /\ answer' = [answer EXCEPT ![r] = a]
          /\ s = "dispatching" => a = answer[r]
    BY <1>2, <1>7 DEF Transcribe, Respond, To
  <2>2. /\ stage[r] = "transcribing" /\ UNCHANGED <<client, result, tried, chat>> /\ Asides'
    BY <1>1, <1>7 DEF Transcribe, process, Asides
  <2>. QED  BY <1>1, <1>2, <2>1, <2>2, RequestMoves DEF StageInv, Stored, InWork
<1>8. ASSUME NEW outcome \in Results, Dispatched(r, outcome) PROVE ClientsInv'
  <2>1. /\ stage[r] = "dispatching" /\ UNCHANGED <<client, tried, chat>> /\ Asides'
        /\ result' = [result EXCEPT ![r] = outcome]
        /\ tried[r] = 0 /\ answer[r] = "none"
    BY <1>1, <1>8 DEF Dispatched, process, Asides, StageInv
  <2>2. CASE client[r] = "telegram" /\ OnUpdate(r, outcome)
    <3>1. PICK s \in {"done", "sending"} : stage' = [stage EXCEPT ![r] = s]
      BY <2>2 DEF OnUpdate, To
    <3>2. UNCHANGED answer
      BY <2>2 DEF OnUpdate
    <3>. QED  BY <1>2, <2>1, <2>2, <3>1, <3>2, RequestMoves DEF InWork
  <2>3. CASE client[r] = "watch" /\ HandleMessage(r, outcome)
    <3>1. PICK s \in {"done", "echoing"}, a \in {"none", "ok", "error", "lost"} :
            /\ stage' = [stage EXCEPT ![r] = s] /\ answer' = [answer EXCEPT ![r] = a]
            /\ s = "echoing" => a = "none"
            /\ a = "error" => outcome \in {"denied", "cancelled"}
      BY <1>2, <2>1, <2>3 DEF HandleMessage, Respond, To
    <3>. QED  BY <1>2, <2>1, <2>3, <3>1, RequestMoves DEF InWork, Stored
  <2>4. CASE client[r] = "esp" /\ HandleTalk(r, outcome)
    <3>1. PICK s \in {"done", "echoing", "speech"}, a \in {"none", "ok", "error", "lost"} :
            /\ stage' = [stage EXCEPT ![r] = s] /\ answer' = [answer EXCEPT ![r] = a]
            /\ s = "echoing" => a = "none"
      BY <1>2, <2>1, <2>4 DEF HandleTalk, Respond, To
    <3>. QED  BY <1>2, <2>1, <2>4, <3>1, RequestMoves DEF InWork
  <2>5. CASE client[r] = "r1" /\ HandleSend(r)
    <3>1. stage' = [stage EXCEPT ![r] = "pushing"] /\ UNCHANGED answer
      BY <2>5 DEF HandleSend, To
    <3>. QED  BY <1>2, <2>1, <2>5, <3>1, RequestMoves DEF InWork
  <2>. QED  BY <1>8, <2>2, <2>3, <2>4, <2>5 DEF Dispatched
<1>9. CASE SendText(r)
  <2>1. tried[r] < tried[r] + 1 /\ tried[r] + 1 <= Parts(r)
    BY <1>3, <1>9 DEF SendText
  <2>2. /\ UNCHANGED <<process, stage, live, result, answer, notice>> /\ stage[r] = "sending"
        /\ tried' = [tried EXCEPT ![r] = tried[r] + 1] /\ (Arrives(r) \/ Breaks(r))
    BY <1>9 DEF SendText
  <2>3. \A k \in Nat : k = tried[r] + 1 => ClientsInv'
    <3>. SUFFICES ASSUME NEW k \in Nat, k = tried[r] + 1 PROVE ClientsInv'
      OBVIOUS
    <3>1. tried[r] < k /\ k <= Parts(r) /\ tried' = [tried EXCEPT ![r] = k]
      BY <2>1, <2>2
    <3>. QED  BY <2>2, <3>1, PartTried
  <2>. QED  BY <1>3, <2>3
<1>10. CASE SendToChat(r)
  <2>1. tried[r] < tried[r] + 1 /\ tried[r] + 1 <= Parts(r) /\ tried[r] < Parts(r)
    BY <1>3, <1>10 DEF SendToChat
  <2>2. UNCHANGED <<process, stage, live, result, answer, notice>> /\ stage[r] = "echoing"
    BY <1>10 DEF SendToChat, Echoing
  <2>3. CASE Arrives(r) /\ tried' = [tried EXCEPT ![r] = @ + 1]
    <3>. SUFFICES ASSUME NEW k \in Nat, k = tried[r] + 1 PROVE ClientsInv'
      BY <1>3
    <3>1. tried[r] < k /\ k <= Parts(r) /\ tried' = [tried EXCEPT ![r] = k] /\ Arrives(r)
      BY <2>1, <2>3
    <3>. QED  BY <2>2, <3>1, PartTried
  <2>4. CASE Breaks(r) /\ tried' = [tried EXCEPT ![r] = Parts(r)]
    <3>. SUFFICES ASSUME NEW k \in Nat, k = Parts(r) PROVE ClientsInv'
      BY <1>3
    <3>1. tried[r] < k /\ k <= Parts(r) /\ tried' = [tried EXCEPT ![r] = k] /\ Breaks(r)
      BY <1>3, <2>1, <2>4
    <3>. QED  BY <2>2, <3>1, PartTried
  <2>. QED  BY <1>10, <2>3, <2>4 DEF SendToChat
<1>11. CASE UpdateDone(r)
  <2>1. /\ stage' = [stage EXCEPT ![r] = "done"] /\ stage[r] = "sending"
        /\ UNCHANGED <<client, result, tried, chat, answer>> /\ Asides'
    BY <1>1, <1>11 DEF UpdateDone, Sent, To, process, Asides
  <2>. QED  BY <2>1, StageMoves
<1>12. CASE AnswerWatch(r)
  <2>1. /\ stage' = [stage EXCEPT ![r] = "done"]
        /\ UNCHANGED <<client, result, tried, chat>> /\ Asides'
    BY <1>1, <1>12 DEF AnswerWatch, Respond, To, process, Asides
  <2>2. PICK a \in {"ok", "lost"} : answer' = [answer EXCEPT ![r] = a]
    BY <1>12 DEF AnswerWatch, Respond
  <2>. QED  BY <2>1, <2>2, AnswerMoves
<1>13. CASE StartSpeech(r)
  <2>1. /\ stage' = [stage EXCEPT ![r] = "speech"] /\ client[r] = "esp"
        /\ UNCHANGED <<client, result, tried, chat, answer, main, grace, socket, live, broken>>
    BY <1>13 DEF StartSpeech, To, process
  <2>2. notice' \in [Requests -> {"none", "speaking", "over", "killed"}]
    BY <1>1, <1>13 DEF StartSpeech, Asides
  <2>3. Asides'
    BY <1>1, <2>1, <2>2 DEF Asides
  <2>. QED  BY <2>1, <2>3, StageMoves
<1>14. CASE Speak(r)
  <2>1. /\ stage' = [stage EXCEPT ![r] = "done"] /\ stage[r] = "speech"
        /\ UNCHANGED <<client, result, tried, chat>> /\ Asides'
    BY <1>1, <1>14 DEF Speak, Respond, To, process, Asides
  <2>2. PICK a \in {"none", "ok", "error", "lost"} : answer' = [answer EXCEPT ![r] = a]
    BY <1>14 DEF Speak, Respond
  <2>3. client[r] # "watch"
    BY <1>1, <2>1 DEF StageInv
  <2>. QED  BY <2>1, <2>2, <2>3, AnswerMoves
<1>15. CASE Pushed(r)
  <2>1. /\ stage' = [stage EXCEPT ![r] = "done"] /\ stage[r] = "pushing"
        /\ UNCHANGED <<client, result, tried, chat, answer>> /\ Asides'
    BY <1>1, <1>15 DEF Pushed, To, process, Asides
  <2>. QED  BY <2>1, StageMoves
<1>. QED  BY <1>5, <1>6, <1>7, <1>8, <1>9, <1>10, <1>11, <1>12, <1>13, <1>14, <1>15 DEF Work

(* Every step keeps the invariant. *)
LEMMA ClientsStep == ClientsInv /\ [Next]_vars => ClientsInv'
<1>. SUFFICES ASSUME ClientsInv, [Next]_vars PROVE ClientsInv'
  OBVIOUS
<1>1. Asides
  BY DEF ClientsInv, TypeOK, Asides
<1>2. ASSUME NEW r \in Requests, Receive(r) \/ Refuse(r) \/ Work(r) PROVE ClientsInv'
  BY <1>2, WorkKeeps
<1>3. ASSUME NEW r \in Requests, Notified(r) \/ HangUp(r) PROVE ClientsInv'
  <2>1. UNCHANGED <<stage, request>>
    BY <1>3 DEF Notified, HangUp, process, request
  <2>2. Asides'
    BY <1>1, <1>3 DEF Notified, HangUp, process, Asides
  <2>. QED  BY <2>1, <2>2, Beside
<1>4. CASE SocketCloses \/ Stop \/ GraceOver
  <2>1. UNCHANGED <<stage, request>>
    BY <1>4 DEF SocketCloses, Stop, GraceOver, request
  <2>2. Asides'
    BY <1>1, <1>4 DEF SocketCloses, Stop, GraceOver, request, Asides
  <2>. QED  BY <2>1, <2>2, Beside
<1>5. CASE Launch
  <2>1. CASE Exit
    BY <2>1, ExitKeeps
  <2>2. CASE main' = "serving" /\ UNCHANGED <<grace, socket, stage, live, notice, request>>
    <3>1. Asides'
      BY <1>1, <2>2 DEF Asides, request
    <3>. QED  BY <2>2, <3>1, Beside
  <2>. QED  BY <1>5, <2>1, <2>2 DEF Launch
<1>6. CASE Return
  BY <1>6, ExitKeeps DEF Return
<1>7. CASE Over \/ UNCHANGED vars
  <2>1. Asides' /\ UNCHANGED <<stage, request>>
    BY <1>1, <1>7 DEF Over, vars, process, request, Asides
  <2>. QED  BY <2>1, Beside
<1>. QED  BY <1>2, <1>3, <1>4, <1>5, <1>6, <1>7 DEF Next

(* What ClientsInv says holds of every behaviour. *)
LEMMA ClientsSound == Spec => []ClientsInv
BY ClientsInit, ClientsStep, PTL DEF Spec

(* Every variable keeps its type, and no more parts are tried than there are. *)
THEOREM ClientsTyped == Spec => []TypeOK
<1>1. ClientsInv => TypeOK
  BY DEF ClientsInv
<1>. QED  BY <1>1, ClientsSound, PTL

(* ChatIsReadable: however many replies and echoes mix in the chat, each is in *)
(* order, none is doubled, and an echo has no hole.                           *)
THEOREM ChatStaysReadable == Spec => []ChatIsReadable
<1>1. ClientsInv => ChatIsReadable
  BY DEF ClientsInv
<1>. QED  BY <1>1, ClientsSound, PTL

(* WatchErrorIsFinal: a watch that is answered with an error can repeat its    *)
(* request, whatever else is under way.                                       *)
THEOREM WatchMayRetry == Spec => []WatchErrorIsFinal
<1>1. ClientsInv => WatchErrorIsFinal
  BY DEF ClientsInv
<1>. QED  BY <1>1, ClientsSound, PTL
-----------------------------------------------------------------------------
(* What keeps a request from going on for ever.                            *)

\* How much of a request is still ahead: its parts, while it sends or echoes
\* them or might come to, and the stages after that.
Ahead(r) ==
  CASE stage[r] = "new" -> PartCount[r] + 5
    [] stage[r] = "transcribing" -> PartCount[r] + 4
    [] stage[r] = "dispatching" -> PartCount[r] + 3
    [] stage[r] \in {"sending", "echoing"} -> Parts(r) - tried[r] + 2
    [] stage[r] \in {"speech", "pushing"} -> 1
    [] OTHER -> 0

(* What is ahead is a number, and no more than for a new request. *)
LEMMA AheadTyped ==
  ASSUME TypeOK, NEW r \in Requests
  PROVE  /\ Ahead(r) \in Nat
         /\ stage[r] \in {"sending", "echoing"} => Ahead(r) \in 2 .. PartCount[r] + 2
<1>1. /\ PartCount[r] \in Nat /\ PartCount[r] >= 1 /\ Parts(r) \in Nat /\ Parts(r) <= PartCount[r]
      /\ tried[r] \in Nat /\ tried[r] <= Parts(r)
  BY ConstantsAssumption DEF TypeOK, Parts
<1>. QED  BY <1>1 DEF Ahead

(* The same after a step. *)
LEMMA AheadTypedNext ==
  TypeOK' => \A r \in Requests :
               /\ Ahead(r)' \in Nat
               /\ stage'[r] \in {"sending", "echoing"} => Ahead(r)' \in 2 .. PartCount[r] + 2
<1>1. TypeOK => \A r \in Requests :
        /\ Ahead(r) \in Nat
        /\ stage[r] \in {"sending", "echoing"} => Ahead(r) \in 2 .. PartCount[r] + 2
  BY AheadTyped
<1>2. TypeOK' => (\A r \in Requests :
        /\ Ahead(r) \in Nat
        /\ stage[r] \in {"sending", "echoing"} => Ahead(r) \in 2 .. PartCount[r] + 2)'
  BY <1>1, PTL
<1>. QED  BY <1>2

(* Each step of its own brings a request nearer to its end. *)
LEMMA WorkBringsNearer ==
  ASSUME TypeOK, TypeOK', NEW r \in Requests, Receive(r) \/ Refuse(r) \/ Work(r)
  PROVE  Ahead(r)' < Ahead(r)
<1>1. /\ PartCount[r] \in Nat /\ PartCount[r] >= 1
      /\ Parts(r) \in Nat /\ tried[r] \in Nat /\ tried[r] <= Parts(r)
  BY ConstantsAssumption DEF TypeOK, Parts
<1>2. Ahead(r) \in Nat /\ Ahead(r)' \in Nat
  BY AheadTyped, AheadTypedNext
<1>3. stage \in [Requests -> InWork \cup {"new", "done", "killed"}]
  BY DEF TypeOK
<1>4. CASE Receive(r) \/ Refuse(r) \/ Transcribe(r)
  <2>1. \/ stage[r] = "new" /\ stage'[r] \in {"transcribing", "dispatching", "done"}
        \/ stage[r] = "transcribing" /\ stage'[r] \in {"dispatching", "done"}
    BY <1>3, <1>4 DEF Receive, Refuse, Transcribe, Respond, To
  <2>. QED  BY <1>1, <2>1 DEF Ahead
<1>5. ASSUME NEW outcome \in Results, Dispatched(r, outcome) PROVE Ahead(r)' < Ahead(r)
  <2>1. /\ stage[r] = "dispatching" /\ tried' = tried
        /\ stage'[r] \in {"done", "sending", "echoing", "speech", "pushing"}
    BY <1>3, <1>5 DEF Dispatched, OnUpdate, HandleMessage, HandleTalk, HandleSend, Respond, To
  <2>2. Ahead(r) = PartCount[r] + 3
    BY <2>1 DEF Ahead
  <2>3. CASE stage'[r] \in {"sending", "echoing"}
    <3>1. Ahead(r)' \in 2 .. PartCount[r] + 2
      BY <2>3, AheadTypedNext
    <3>. QED  BY <1>1, <2>2, <3>1
  <2>4. CASE stage'[r] \in {"done", "speech", "pushing"}
    <3>1. Ahead(r)' <= 1
      BY <2>4 DEF Ahead
    <3>. QED  BY <1>1, <1>2, <2>2, <3>1
  <2>. QED  BY <2>1, <2>3, <2>4
<1>6. CASE SendText(r) \/ SendToChat(r)
  <2>1. /\ stage[r] \in {"sending", "echoing"} /\ stage' = stage /\ result' = result
        /\ tried[r] < Parts(r) /\ tried'[r] \in {tried[r] + 1, Parts(r)}
    BY <1>6 DEF SendText, SendToChat, Echoing, TypeOK
  <2>2. Parts(r)' = Parts(r)
    BY <2>1 DEF Parts
  <2>3. Ahead(r) = Parts(r) - tried[r] + 2 /\ Ahead(r)' = Parts(r) - tried'[r] + 2
    BY <2>1, <2>2 DEF Ahead
  <2>. QED  BY <1>1, <2>1, <2>3
<1>7. CASE UpdateDone(r) \/ AnswerWatch(r) \/ StartSpeech(r)
  <2>1. /\ stage[r] \in {"sending", "echoing"} /\ stage'[r] \in {"done", "speech"}
    BY <1>3, <1>7 DEF UpdateDone, AnswerWatch, StartSpeech, Sent, Echoed, Respond, To
  <2>2. Ahead(r) >= 2 /\ Ahead(r)' <= 1
    BY <1>1, <2>1, AheadTyped DEF Ahead
  <2>. QED  BY <1>2, <2>2
<1>8. CASE Speak(r) \/ Pushed(r)
  <2>1. stage[r] \in {"speech", "pushing"} /\ stage'[r] = "done"
    BY <1>3, <1>8 DEF Speak, Pushed, Respond, To
  <2>. QED  BY <2>1 DEF Ahead
<1>. QED  BY <1>4, <1>5, <1>6, <1>7, <1>8 DEF Work

(* Nobody else's step takes a request back. *)
LEMMA OthersLeaveAhead ==
  ASSUME TypeOK, NEW r \in Requests, UNCHANGED <<result[r], tried[r]>>,
         stage'[r] \in {stage[r], "killed"}
  PROVE  Ahead(r)' <= Ahead(r)
<1>1. Ahead(r) \in Nat
  BY AheadTyped
<1>2. CASE stage'[r] = stage[r]
  <2>1. Ahead(r)' = Ahead(r)
    BY <1>2 DEF Ahead, Parts
  <2>. QED  BY <1>1, <2>1
<1>3. CASE stage'[r] = "killed"
  <2>1. Ahead(r)' = 0
    BY <1>3 DEF Ahead
  <2>. QED  BY <1>1, <2>1
<1>. QED  BY <1>2, <1>3

(* A step of one request leaves what the others have done. *)
LEMMA OneMoves ==
  ASSUME TypeOK, NEW r \in Requests, Receive(r) \/ Refuse(r) \/ Work(r),
         NEW q \in Requests, q # r
  PROVE  stage'[q] = stage[q] /\ result'[q] = result[q] /\ tried'[q] = tried[q]
<1>1. \/ stage' = stage
      \/ \E s : stage' = [stage EXCEPT ![r] = s]
  BY DEF Work, Receive, Refuse, Transcribe, Dispatched, OnUpdate, HandleMessage, HandleTalk,
         HandleSend, SendText, SendToChat, UpdateDone, AnswerWatch, StartSpeech, Speak, Pushed,
         Respond, To
<1>2. \/ result' = result
      \/ \E o : result' = [result EXCEPT ![r] = o]
  BY DEF Work, Receive, Refuse, Transcribe, Dispatched, SendText, SendToChat, UpdateDone,
         AnswerWatch, StartSpeech, Speak, Pushed
<1>3. \/ tried' = tried
      \/ \E k : tried' = [tried EXCEPT ![r] = k]
  BY DEF Work, Receive, Refuse, Transcribe, Dispatched, SendText, SendToChat, UpdateDone,
         AnswerWatch, StartSpeech, Speak, Pushed
<1>. QED  BY <1>1, <1>2, <1>3 DEF TypeOK

(* What is ahead of a request only ever becomes less, with each step of its own  *)
(* by one at least, whatever other requests, clients and the shutdown do.  So no *)
(* request goes on for ever, and RequestsEnd asks no more of the scheduler than  *)
(* that it runs the goroutine.                                                   *)
THEOREM RequestsGetOn ==
  Spec => /\ [](\A r \in Requests : Ahead(r) \in Nat)
          /\ [][\A r \in Requests : /\ Ahead(r)' <= Ahead(r)
                                    /\ Work(r) => Ahead(r)' < Ahead(r)]_vars
<1>1. TypeOK => \A r \in Requests : Ahead(r) \in Nat
  BY AheadTyped
<1>2. ASSUME TypeOK, TypeOK', [Next]_vars
      PROVE  [\A r \in Requests : /\ Ahead(r)' <= Ahead(r)
                                  /\ Work(r) => Ahead(r)' < Ahead(r)]_vars
  <2>. SUFFICES ASSUME Next, NEW r \in Requests
                PROVE  Ahead(r)' <= Ahead(r) /\ (Work(r) => Ahead(r)' < Ahead(r))
    BY <1>2
  <2>1. Ahead(r) \in Nat /\ Ahead(r)' \in Nat
    BY <1>2, AheadTyped, AheadTypedNext
  <2>2. Receive(r) \/ Refuse(r) \/ Work(r) => Ahead(r)' < Ahead(r)
    BY <1>2, WorkBringsNearer
  <2>3. Ahead(r)' <= Ahead(r)
    <3>1. CASE Receive(r) \/ Refuse(r) \/ Work(r)
      BY <2>1, <2>2, <3>1
    <3>2. ASSUME NEW q \in Requests, q # r, Receive(q) \/ Refuse(q) \/ Work(q)
          PROVE  Ahead(r)' <= Ahead(r)
      BY <1>2, <3>2, OneMoves, OthersLeaveAhead
    <3>3. ASSUME NEW q \in Requests, Notified(q) \/ HangUp(q)
          PROVE  UNCHANGED <<stage, result, tried>>
      BY <3>3 DEF Notified, HangUp
    <3>4. CASE SocketCloses \/ Stop \/ GraceOver \/ Over
      BY <1>2, <3>4, OthersLeaveAhead DEF SocketCloses, Stop, GraceOver, Over, request, vars
    <3>5. CASE Launch \/ Return
      <4>1. stage'[r] \in {stage[r], "killed"} /\ UNCHANGED <<result, tried>>
        BY <3>5 DEF Launch, Return, Exit, request
      <4>. QED  BY <1>2, <4>1, OthersLeaveAhead
    <3>6. CASE UNCHANGED <<stage, result, tried>>
      BY <1>2, <3>6, OthersLeaveAhead
    <3>. QED  BY <3>1, <3>2, <3>3, <3>4, <3>5, <3>6 DEF Next
  <2>. QED  BY <2>2, <2>3
<1>. QED  BY <1>1, <1>2, ClientsTyped, PTL DEF Spec

=============================================================================
