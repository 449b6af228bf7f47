--------------------------- MODULE FastmailProofs ---------------------------
(***************************************************************************)
(* Theorems about Fastmail, for any calls, calendars and names.            *)
(***************************************************************************)
EXTENDS Fastmail, TLAPS

(* The start has the types. *)
LEMMA MailTypeInit == MailInit => MailTypeOK
<1>. SUFFICES ASSUME MailInit PROVE MailTypeOK
  OBVIOUS
<1>1. known \in [{} -> Paths] /\ {} \in SUBSET Strings
  BY DEF MailInit, NoCalendars
<1>2. renames \in 0 .. MaxRenames
  <2>1. MaxRenames \in Nat
    BY MailAssumption
  <2>2. renames = 0
    BY DEF MailInit
  <2>. QED  BY <2>1, <2>2
<1>3. target \in [Calls -> Strings \cup {"primary", RealAccount}]
  BY MailAssumption DEF MailInit
<1>. QED  BY <1>1, <1>2, <1>3 DEF MailInit, MailTypeOK, Stages, Requests, Outcomes

(* The calendar of an event that is asked for is a name or "Default". *)
LEMMA ResolveType ==
  ASSUME MailTypeOK, NEW in \in Inputs, in.tool = "create_event"
  PROVE  Resolve(Wanted(in)) \in Strings
<1>1. in.calendar \in Strings
  BY MailAssumption DEF Inputs, Tools
<1>2. Wanted(in) \in Strings
  BY <1>1, MailAssumption DEF Wanted
<1>3. Paths \subseteq Strings
  BY MailAssumption
<1>. QED  BY <1>2, <1>3 DEF MailTypeOK, Resolve

(* What the listing yields maps names to paths. *)
LEMMA ListingType ==
  ASSUME MailTypeOK, NEW f \in Listing(displayed) \cup {NoCalendars}
  PROVE  \E names \in SUBSET Strings : f \in [names -> Paths]
<1>1. CASE f = NoCalendars
  BY <1>1 DEF NoCalendars
<1>2. CASE f \in Listing(displayed)
  <2>. DEFINE names == {Lower[displayed[path]] : path \in Paths} \ {""}
  <2>1. names \subseteq Strings
    BY MailAssumption DEF MailTypeOK
  <2>2. f \in [names -> Paths]
    BY <1>2 DEF Listing
  <2>. QED  BY <2>1, <2>2
<1>. QED  BY <1>1, <1>2

(* No step leaves the types. *)
LEMMA MailTypeStep == MailTypeOK /\ [MailNext]_mailVars => MailTypeOK'
<1>. SUFFICES ASSUME MailTypeOK, [MailNext]_mailVars PROVE MailTypeOK'
  OBVIOUS
<1>1. CASE DiscoverCalendars
  <2>1. \E names \in SUBSET Strings : known' \in [names -> Paths]
    BY <1>1, ListingType DEF DiscoverCalendars
  <2>. QED  BY <1>1, <2>1 DEF DiscoverCalendars, MailTypeOK, calls
<1>2. CASE DiscoverAccount
  BY <1>2 DEF DiscoverAccount, MailTypeOK, server, calls
<1>3. CASE Die
  <2>1. known' \in [{} -> Paths] /\ {} \in SUBSET Strings
    BY <1>3 DEF Die, NoCalendars
  <2>2. stage' \in [Calls -> Stages]
    BY <1>3 DEF Die, MailTypeOK, Stages
  <2>. QED  BY <1>3, <2>1, <2>2 DEF Die, MailTypeOK, server
<1>4. ASSUME NEW c \in Calls, NEW in \in Inputs, Begin(c, in) PROVE MailTypeOK'
  <2>1. Target(in) \in Strings \cup {"primary", RealAccount}
    BY ResolveType, MailAssumption DEF MailTypeOK, Target
  <2>2. target' \in [Calls -> Strings \cup {"primary", RealAccount}]
    BY <1>4, <2>1 DEF Begin, MailTypeOK
  <2>. QED  BY <1>4, <2>2 DEF Begin, MailTypeOK, server, found, Stages, Requests
<1>5. ASSUME NEW c \in Calls, Reject(c) PROVE MailTypeOK'
  BY <1>5 DEF Reject, MailTypeOK, server, found, Stages
<1>6. ASSUME NEW c \in Calls, Handle(c) PROVE MailTypeOK'
  <2>1. target[c] \in Paths => Event(c) \in [uid : Calls, path : Paths, of : Calls]
    BY DEF Event, UidOf
  <2>3. events' \subseteq [uid : Calls, path : Paths, of : Calls]
    BY <1>6, <2>1 DEF Handle, MailTypeOK
  <2>2. contacts' \subseteq Calls
    BY <1>6 DEF Handle, MailTypeOK
  <2>. QED  BY <1>6, <2>2, <2>3 DEF Handle, MailTypeOK, found, Requests, Outcomes
<1>7. ASSUME NEW c \in Calls, Refuse(c) PROVE MailTypeOK'
  BY <1>7 DEF Refuse, MailTypeOK, server, found, Requests, Outcomes
<1>8. ASSUME NEW c \in Calls, Answer(c) PROVE MailTypeOK'
  BY <1>8 DEF Answer, Read, MailTypeOK, server, found, Stages
<1>9. ASSUME NEW c \in Calls, GiveUp(c) PROVE MailTypeOK'
  BY <1>9 DEF GiveUp, MailTypeOK, server, found, Stages
<1>10. ASSUME NEW path \in Paths, NEW name \in Names, Rename(path, name) PROVE MailTypeOK'
  <2>1. renames' \in 0 .. MaxRenames
    <3>1. MaxRenames \in Nat
      BY MailAssumption
    <3>2. renames \in 0 .. MaxRenames /\ renames < MaxRenames /\ renames' = renames + 1
      BY <1>10 DEF Rename, MailTypeOK
    <3>. QED  BY <3>1, <3>2
  <2>2. displayed' \in [Paths -> Names]
    BY <1>10 DEF Rename, MailTypeOK
  <2>. QED  BY <1>10, <2>1, <2>2 DEF Rename, MailTypeOK, found, calls
<1>11. CASE UNCHANGED mailVars
  BY <1>11 DEF MailTypeOK, mailVars, server, found, calls
<1>. QED  BY <1>1, <1>2, <1>3, <1>4, <1>5, <1>6, <1>7, <1>8, <1>9, <1>10, <1>11 DEF MailNext

(* The types hold, whatever the servers and the network do. *)
THEOREM MailTyped == MailSpec => []MailTypeOK
BY MailTypeInit, MailTypeStep, PTL DEF MailSpec
-----------------------------------------------------------------------------
\* What keeps CreatedEventExists: an event is on the server exactly for each
\* call that was handled, and "created" is only said of such a call.
EventsInv ==
  /\ MailTypeOK
  /\ \A c \in Calls : stage[c] = "new" => request[c] = "none" /\ answer[c] = "none"
  /\ \A c \in Calls : request[c] = "refused in body" => input[c].tool # "create_event"
  /\ \A c \in Calls : answer[c] = "created" /\ input[c].tool = "create_event"
                       => request[c] = "handled"
  /\ \A c \in Calls : request[c] = "handled" /\ input[c].tool = "create_event"
                       => Event(c) \in events
  /\ \A e \in events : e.of \in Calls /\ e = Event(e.of) /\ request[e.of] = "handled"

(* At the start there is no call and no event. *)
LEMMA EventsInit == MailInit => EventsInv
<1>. SUFFICES ASSUME MailInit PROVE EventsInv
  OBVIOUS
<1>1. MailTypeOK
  BY MailTypeInit
<1>. QED  BY <1>1 DEF MailInit, EventsInv

(* A handler or a server that takes a step keeps the two in accord. *)
LEMMA EventsStep == EventsInv /\ [MailNext]_mailVars => EventsInv'
<1>. SUFFICES ASSUME EventsInv, [MailNext]_mailVars PROVE EventsInv'
  OBVIOUS
<1>. USE DEF EventsInv
<1>0. MailTypeOK'
  BY MailTypeStep
<1>1. CASE DiscoverCalendars
  BY <1>0, <1>1 DEF DiscoverCalendars, calls, Event, UidOf
<1>2. CASE DiscoverAccount
  BY <1>0, <1>2 DEF DiscoverAccount, server, calls, Event, UidOf
<1>3. CASE Die
  BY <1>0, <1>3 DEF Die, server, MailTypeOK, Event, UidOf
<1>4. ASSUME NEW c \in Calls, NEW in \in Inputs, Begin(c, in) PROVE EventsInv'
  <2>1. \A e \in events : e.of # c /\ e.of \in Calls
    BY <1>4 DEF Begin, MailTypeOK
  <2>. QED  BY <1>0, <1>4, <2>1 DEF Begin, MailTypeOK, server, found, Event, UidOf
<1>5. ASSUME NEW c \in Calls, Reject(c) PROVE EventsInv'
  BY <1>0, <1>5 DEF Reject, MailTypeOK, server, found, Event, UidOf
<1>6. ASSUME NEW c \in Calls, Handle(c) PROVE EventsInv'
  <2>1. \A e \in events : e.of # c
    BY <1>6 DEF Handle
  <2>2. ASSUME NEW e \in events PROVE e.uid = e.of
    <3>1. e = Event(e.of)
      OBVIOUS
    <3>2. Event(e.of).uid = e.of
      BY DEF Event, UidOf
    <3>. QED  BY <3>1, <3>2
  <2>3. UNCHANGED <<input, target, stage, answer>>
    BY <1>6 DEF Handle
  <2>4. Event(c).of = c
    BY DEF Event
  <2>5. request'[c] = "handled" /\ \A d \in Calls \ {c} : request'[d] = request[d]
    BY <1>6 DEF Handle, MailTypeOK
  <2>6. /\ events \subseteq events' /\ events' \subseteq events \cup {Event(c)}
        /\ input[c].tool = "create_event" => Event(c) \in events'
    <3>1. CASE input[c].tool = "create_event"
      <4>1. events' = {e \in events : e.uid # UidOf(c) \/ e.path # target[c]} \cup {Event(c)}
        BY <1>6, <3>1 DEF Handle
      <4>2. \A e \in events : e.uid # UidOf(c)
        BY <2>1, <2>2 DEF UidOf
      <4>. QED  BY <4>1, <4>2
    <3>2. CASE input[c].tool # "create_event"
      BY <1>6, <3>2 DEF Handle
    <3>. QED  BY <3>1, <3>2
  <2>7. (\A e \in events : e.of \in Calls /\ e = Event(e.of) /\ request[e.of] = "handled")'
    <3>1. \A e \in events : e.of \in Calls /\ e = Event(e.of) /\ request'[e.of] = "handled"
      BY <2>1, <2>5
    <3>2. \A e \in events' : e.of \in Calls /\ e = Event(e.of) /\ request'[e.of] = "handled"
      BY <2>4, <2>5, <2>6, <3>1
    <3>. QED  BY <2>3, <3>2 DEF Event, UidOf
  <2>8. (\A d \in Calls : request[d] = "handled" /\ input[d].tool = "create_event"
                        => Event(d) \in events)'
    <3>1. \A d \in Calls : request'[d] = "handled" /\ input[d].tool = "create_event"
                          => Event(d) \in events'
      BY <2>5, <2>6
    <3>. QED  BY <2>3, <3>1 DEF Event, UidOf
  <2>9. (\A d \in Calls : stage[d] = "new" => request[d] = "none" /\ answer[d] = "none")'
    BY <1>6, <2>3, <2>5 DEF Handle
  <2>10. (\A d \in Calls : request[d] = "refused in body" => input[d].tool # "create_event")'
    BY <1>6, <2>3, <2>5 DEF Handle
  <2>11. (\A d \in Calls : answer[d] = "created" /\ input[d].tool = "create_event"
                         => request[d] = "handled")'
    BY <1>6, <2>3, <2>5 DEF Handle
  <2>. QED  BY <1>0, <2>7, <2>8, <2>9, <2>10, <2>11
<1>7. ASSUME NEW c \in Calls, Refuse(c) PROVE EventsInv'
  BY <1>0, <1>7 DEF Refuse, MailTypeOK, server, found, Event, UidOf
<1>8. ASSUME NEW c \in Calls, Answer(c) PROVE EventsInv'
  <2>1. /\ request[c] \in Outcomes
        /\ stage'[c] = "answered" /\ answer'[c] = Read(c)
        /\ \A d \in Calls \ {c} : stage'[d] = stage[d] /\ answer'[d] = answer[d]
    BY <1>8 DEF Answer, MailTypeOK
  <2>2. UNCHANGED <<input, target, request, events>>
    BY <1>8 DEF Answer, server
  <2>3. Read(c) = "created" /\ input[c].tool = "create_event" => request[c] = "handled"
    BY <2>1 DEF Read, Outcomes
  <2>. QED  BY <1>0, <2>1, <2>2, <2>3 DEF Event, UidOf
<1>9. ASSUME NEW c \in Calls, GiveUp(c) PROVE EventsInv'
  BY <1>0, <1>9 DEF GiveUp, MailTypeOK, server, found, Event, UidOf
<1>10. ASSUME NEW path \in Paths, NEW name \in Names, Rename(path, name) PROVE EventsInv'
  BY <1>0, <1>10 DEF Rename, found, calls, Event, UidOf
<1>11. CASE UNCHANGED mailVars
  BY <1>0, <1>11 DEF mailVars, server, found, calls, Event, UidOf
<1>. QED  BY <1>1, <1>2, <1>3, <1>4, <1>5, <1>6, <1>7, <1>8, <1>9, <1>10, <1>11 DEF MailNext

(* The event of a call that was told "created" is the only one of that call. *)
LEMMA EventsImply == EventsInv => CreatedEventExists
<1>. SUFFICES ASSUME EventsInv, NEW c \in Calls,
                     input[c].tool = "create_event", answer[c] = "created"
              PROVE  {e \in events : e.of = c} = {Event(c)}
  BY DEF CreatedEventExists
<1>1. Event(c) \in events /\ Event(c).of = c
  BY DEF EventsInv, Event
<1>2. \A e \in events : e.of = c => e = Event(c)
  BY DEF EventsInv
<1>. QED  BY <1>1, <1>2

(* "Event created" is true and stays true, whatever other calls do, however    *)
(* late their requests are handled, and whenever the process dies.             *)
THEOREM CreatedIsTrue == MailSpec => []CreatedEventExists
BY EventsInit, EventsStep, EventsImply, PTL DEF MailSpec
-----------------------------------------------------------------------------
\* A call that was answered has no request under way any more, and one that was
\* to create an event was told what became of it; one that gave up, an error.
SettledInv ==
  /\ EventsInv
  /\ \A c \in Calls : stage[c] = "new" => input[c] = NoInput
  /\ \A c \in Calls : stage[c] = "answered" => request[c] # "travelling"
  /\ \A c \in Calls : stage[c] = "answered" /\ input[c].tool = "create_event" =>
       answer[c] = IF request[c] = "handled" THEN "created" ELSE "error"
  /\ \A c \in Calls : stage[c] = "given up" => answer[c] = "error"

(* At the start no call was answered. *)
LEMMA SettledInit == MailInit => SettledInv
BY EventsInit DEF MailInit, SettledInv

(* No step revives a request that was answered. *)
LEMMA SettledStep == SettledInv /\ [MailNext]_mailVars => SettledInv'
<1>. SUFFICES ASSUME SettledInv, [MailNext]_mailVars PROVE SettledInv'
  OBVIOUS
<1>. USE DEF SettledInv
<1>0. EventsInv' /\ MailTypeOK
  BY EventsStep DEF EventsInv
<1>1. CASE DiscoverCalendars \/ DiscoverAccount
  BY <1>0, <1>1 DEF DiscoverCalendars, DiscoverAccount, calls
<1>3. CASE Die
  BY <1>0, <1>3 DEF Die, MailTypeOK
<1>4. ASSUME NEW c \in Calls, NEW in \in Inputs, Begin(c, in) PROVE SettledInv'
  BY <1>0, <1>4 DEF Begin, MailTypeOK
<1>5. ASSUME NEW c \in Calls, Reject(c) PROVE SettledInv'
  <2>1. request[c] = "none" /\ input[c].tool = "none"
    <3>1. stage[c] = "new" /\ NoInput.tool = "none"
      BY <1>5 DEF Reject, NoInput
    <3>. QED  BY <3>1 DEF EventsInv
  <2>2. /\ stage' = [stage EXCEPT ![c] = "answered"] /\ UNCHANGED <<input, request>>
        /\ stage'[c] = "answered"
        /\ \A d \in Calls \ {c} : answer'[d] = answer[d] /\ stage'[d] = stage[d]
    BY <1>0, <1>5 DEF Reject, MailTypeOK
  <2>. QED  BY <1>0, <2>1, <2>2
<1>6. ASSUME NEW c \in Calls, Handle(c) PROVE SettledInv'
  BY <1>0, <1>6 DEF Handle, MailTypeOK
<1>7. ASSUME NEW c \in Calls, Refuse(c) PROVE SettledInv'
  BY <1>0, <1>7 DEF Refuse, MailTypeOK
<1>8. ASSUME NEW c \in Calls, Answer(c) PROVE SettledInv'
  <2>1. /\ stage[c] = "waiting" /\ request[c] \in Outcomes /\ UNCHANGED <<input, request>>
        /\ stage'[c] = "answered" /\ answer'[c] = Read(c)
        /\ \A d \in Calls \ {c} : answer'[d] = answer[d] /\ stage'[d] = stage[d]
    BY <1>0, <1>8 DEF Answer, MailTypeOK
  <2>2. input[c].tool = "create_event" =>
          Read(c) = IF request[c] = "handled" THEN "created" ELSE "error"
    BY <2>1 DEF Read, Outcomes, EventsInv
  <2>3. request[c] # "travelling"
    BY <2>1 DEF Outcomes
  <2>. QED  BY <1>0, <2>1, <2>2, <2>3
<1>9. ASSUME NEW c \in Calls, GiveUp(c) PROVE SettledInv'
  BY <1>0, <1>9 DEF GiveUp, MailTypeOK
<1>10. ASSUME NEW path \in Paths, NEW name \in Names, Rename(path, name) PROVE SettledInv'
  BY <1>0, <1>10 DEF Rename, calls
<1>11. CASE UNCHANGED mailVars
  BY <1>0, <1>11 DEF mailVars, calls
<1>. QED  BY <1>1, <1>3, <1>4, <1>5, <1>6, <1>7, <1>8, <1>9, <1>10, <1>11 DEF MailNext

(* What a call is stays as it is once it was made, and what became of it once   *)
(* it was answered.                                                            *)
LEMMA SettledStays ==
  ASSUME SettledInv, [MailNext]_mailVars, NEW c \in Calls, stage[c] # "new"
  PROVE  /\ input'[c] = input[c]
         /\ stage[c] \in {"answered", "given up"} => stage'[c] = stage[c]
         /\ stage[c] = "answered" => request'[c] = request[c]
         /\ stage'[c] # "new"
<1>. USE DEF SettledInv, EventsInv
<1>1. CASE DiscoverCalendars \/ DiscoverAccount
  BY <1>1 DEF DiscoverCalendars, DiscoverAccount, calls
<1>3. CASE Die
  BY <1>3 DEF Die, MailTypeOK
<1>4. ASSUME NEW d \in Calls, NEW in \in Inputs, Begin(d, in)
      PROVE  UNCHANGED <<input[c], stage[c], request[c]>>
  BY <1>4 DEF Begin, MailTypeOK
<1>5. ASSUME NEW d \in Calls, Reject(d) PROVE UNCHANGED <<input[c], stage[c], request[c]>>
  BY <1>5 DEF Reject, MailTypeOK
<1>6. ASSUME NEW d \in Calls, Handle(d) \/ Refuse(d)
      PROVE  UNCHANGED <<input[c], stage[c]>> /\ (stage[c] = "answered" => UNCHANGED request[c])
  BY <1>6 DEF Handle, Refuse, MailTypeOK
<1>8. ASSUME NEW d \in Calls, Answer(d) \/ GiveUp(d)
      PROVE  /\ UNCHANGED <<input[c], request[c]>>
             /\ \/ stage'[c] = stage[c]
                \/ stage[c] = "waiting" /\ stage'[c] \in {"answered", "given up"}
  <2>1. stage[d] = "waiting" /\ UNCHANGED <<input, request>>
    BY <1>8 DEF Answer, GiveUp
  <2>2. \E to \in {"answered", "given up"} : stage' = [stage EXCEPT ![d] = to]
    BY <1>8 DEF Answer, GiveUp
  <2>3. stage \in [Calls -> Stages]
    BY DEF MailTypeOK
  <2>4. stage'[c] = stage[c] \/ (stage[c] = "waiting" /\ stage'[c] \in {"answered", "given up"})
    BY <2>1, <2>2, <2>3
  <2>. QED  BY <2>1, <2>4
<1>10. ASSUME NEW path \in Paths, NEW name \in Names, Rename(path, name)
       PROVE  UNCHANGED <<input[c], stage[c], request[c]>>
  BY <1>10 DEF Rename, calls
<1>11. CASE UNCHANGED mailVars
  BY <1>11 DEF mailVars, calls
<1>. QED  BY <1>1, <1>3, <1>4, <1>5, <1>6, <1>8, <1>10, <1>11 DEF MailNext
-----------------------------------------------------------------------------
\* What keeps NamedCalendarIsUsed: unless a calendar was renamed since, what was
\* found out is what the listing yields now.
FoundInv == ~stale /\ known # NoCalendars => known \in Listing(displayed)

(* At the start nothing is known. *)
LEMMA FoundInit == MailInit => FoundInv
BY DEF MailInit, FoundInv

(* Only a discovery changes what is known, and only a renaming what is true. *)
LEMMA FoundStep == FoundInv /\ [MailNext]_mailVars => FoundInv'
<1>. SUFFICES ASSUME FoundInv, [MailNext]_mailVars PROVE FoundInv'
  OBVIOUS
<1>1. CASE DiscoverCalendars
  BY <1>1 DEF DiscoverCalendars, FoundInv
<1>2. CASE Die
  BY <1>2 DEF Die, FoundInv
<1>3. ASSUME NEW path \in Paths, NEW name \in Names, Rename(path, name) PROVE FoundInv'
  BY <1>3 DEF Rename, FoundInv
<1>4. ASSUME UNCHANGED <<displayed, known, stale>> PROVE FoundInv'
  BY <1>4 DEF FoundInv
<1>. QED  BY <1>1, <1>2, <1>3, <1>4
          DEF MailNext, DiscoverAccount, Begin, Reject, Handle, Refuse, Answer, GiveUp,
              mailVars, server, found, calls

(* A request that goes out names the path that the listing gives for its name. *)
LEMMA FoundIsUsed ==
  ASSUME MailTypeOK, FoundInv, ~stale, known # NoCalendars,
         NEW in \in Inputs, NEW path \in Paths, Lower[displayed[path]] = Lower[Wanted(in)]
  PROVE  /\ Resolve(Wanted(in)) \in Paths
         /\ Lower[displayed[Resolve(Wanted(in))]] = Lower[Wanted(in)]
<1>. DEFINE names == {Lower[displayed[p]] : p \in Paths} \ {""}
            want == Lower[Wanted(in)]
<1>1. Wanted(in) \in Strings /\ Wanted(in) # ""
  BY MailAssumption DEF Wanted, Inputs, Tools
<1>2. want \in names
  BY <1>1, MailAssumption
<1>3. known \in [names -> Paths] /\ \A n \in names : Lower[displayed[known[n]]] = n
  BY DEF FoundInv, Listing
<1>4. DOMAIN known = names
  BY <1>3
<1>5. Resolve(Wanted(in)) = known[want]
  BY <1>2, <1>4 DEF Resolve
<1>6. known[want] \in Paths
  BY <1>2, <1>3
<1>7. Lower[displayed[known[want]]] = want
  BY <1>2, <1>3
<1>. QED  BY <1>5, <1>6, <1>7

(* A call that names a calendar goes to a calendar displayed under that name.  *)
THEOREM NamesAreResolved == MailSpec => NamedCalendarIsUsed
<1>1. MailTypeOK /\ FoundInv /\ [MailNext]_mailVars
      => [\A c \in Calls :
            LET want == Lower[Wanted(input'[c])]
            IN  /\ stage[c] = "new" /\ stage'[c] = "waiting"
                /\ input'[c].tool = "create_event"
                /\ ~stale /\ known # NoCalendars
                /\ \E path \in Paths : Lower[displayed[path]] = want
                => target'[c] \in Paths /\ Lower[displayed[target'[c]]] = want]_mailVars
  <2>. SUFFICES ASSUME MailTypeOK, FoundInv, MailNext, NEW c \in Calls,
                       stage[c] = "new", stage'[c] = "waiting",
                       input'[c].tool = "create_event", ~stale, known # NoCalendars,
                       NEW path \in Paths, Lower[displayed[path]] = Lower[Wanted(input'[c])]
                PROVE  /\ target'[c] \in Paths
                       /\ Lower[displayed[target'[c]]] = Lower[Wanted(input'[c])]
    OBVIOUS
  <2>1. \E in \in Inputs : Begin(c, in)
    BY DEF MailNext, DiscoverCalendars, DiscoverAccount, Die, Begin, Reject, Handle, Refuse,
           Answer, GiveUp, Rename, calls, MailTypeOK
  <2>2. PICK in \in Inputs : Begin(c, in)
    BY <2>1
  <2>3. input'[c] = in /\ in.tool = "create_event" /\ target'[c] = Resolve(Wanted(in))
    BY <2>2 DEF Begin, MailTypeOK, Target
  <2>. QED  BY <2>3, FoundIsUsed
<1>. QED  BY <1>1, MailTypeInit, MailTypeStep, FoundInit, FoundStep, PTL
          DEF MailSpec, NamedCalendarIsUsed

=============================================================================
