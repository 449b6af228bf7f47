------------------------------- MODULE Fastmail -------------------------------
(***************************************************************************)
(* internal/tools/fastmail.go: the three Fastmail tools, with what         *)
(* main.go finds out about the account when the process starts.            *)
(*                                                                         *)
(* A call of a tool is one request to Fastmail's servers, which are        *)
(* external: they may handle a request, refuse it, or handle it when its   *)
(* caller has long given up.  Handlers report failures as results, so a    *)
(* call is answered "created", "error" or, for a search, "body".           *)
(***************************************************************************)
EXTENDS Integers, FiniteSets

CONSTANTS
  Calls,      \* calls of the tools, in this life of the process and later ones
  Paths,      \* path segments of the user's calendars on the server
  Lower,      \* strings.ToLower on all names that occur
  Names,      \* what calendars are called, by the user and by the model
  RealAccount,  \* the account that JMAP accepts for contacts
  MaxRenames  \* bound on renamings of calendars by the user

Strings == DOMAIN Lower

ASSUME MailAssumption ==
  /\ Lower \in [Strings -> Strings]
  /\ {"", "Default"} \cup Paths \cup Names \subseteq Strings
  /\ \A s \in Strings : Lower[s] = "" <=> s = ""
  /\ RealAccount \notin {"", "primary"}
  /\ MaxRenames \in Nat

VARIABLES
  displayed,  \* per calendar: its display name, or ""
  known,      \* calendarPaths: the path found for each display name
  account,    \* contactAccountID
  input,      \* per call: tool and calendar name it was called with
  target,     \* per call: the path or the account that its request names
  stage,      \* per call: "new", "waiting" for the response, and how that ended
  request,    \* per call: where its request is and what became of it
  answer,     \* per call: the result that the model is given
  events,     \* the events on the server
  contacts,   \* the calls whose contact is on the server
  renames,    \* renamings so far
  stale       \* has a calendar been renamed since the calendars were discovered?

server == <<displayed, events, contacts, renames, stale>>
found == <<known, account>>
calls == <<input, target, stage, request, answer>>
mailVars == <<server, found, calls>>

Stages == {"new", "waiting", "answered", "given up", "dead"}
Tools == {"create_event", "create_contact", "search_contacts"}
Inputs == [tool : {"create_event"}, calendar : Names \cup {""}]
            \cup [tool : Tools \ {"create_event"}, calendar : {""}]
NoInput == [tool |-> "none", calendar |-> ""]
NoCalendars == [name \in {} |-> ""]

\* What becomes of a request: handled; refused with a status that says so; or
\* refused by JMAP in the body of a response with status 200.
Outcomes == {"handled", "refused", "refused in body"}

MailInit ==
  /\ displayed \in [Paths -> Names]
  /\ known = NoCalendars /\ account = ""
  /\ input = [c \in Calls |-> NoInput]
  /\ target = [c \in Calls |-> ""]
  /\ stage = [c \in Calls |-> "new"]
  /\ request = [c \in Calls |-> "none"]
  /\ answer = [c \in Calls |-> "none"]
  /\ events = {} /\ contacts = {}
  /\ renames = 0 /\ stale = FALSE
-----------------------------------------------------------------------------
(* The start of the process.                                               *)

\* Slip: the names are not brought to lower case.
ListingAsWritten(shown) ==
  LET names == {shown[path] : path \in Paths} \ {""}
  IN  {f \in [names -> Paths] : \A n \in names : shown[f[n]] = n}

\* What the listing of the calendars can yield: a path for each display name
\* in lower case; if two calendars share one, the last in the listing.
Listing(shown) ==
  LET names == {Lower[shown[path]] : path \in Paths} \ {""}
  IN  {f \in [names -> Paths] : \A n \in names : Lower[shown[f[n]]] = n}

\* DiscoverCalendars within ten seconds; on failure the map stays nil.
DiscoverCalendars ==
  /\ known' \in Listing(displayed) \cup {NoCalendars}
  /\ stale' = FALSE
  /\ UNCHANGED <<displayed, events, contacts, renames, account, calls>>

\* Slip: an account that is not found is not replaced.
DiscoverAccountOrNone ==
  /\ account' \in {RealAccount, ""}
  /\ UNCHANGED <<server, known, calls>>

\* DiscoverJMAPContactAccount; on failure the tools fall back to "primary".
DiscoverAccount ==
  /\ account' \in {RealAccount, "primary"}
  /\ UNCHANGED <<server, known, calls>>
-----------------------------------------------------------------------------
(* A call.                                                                 *)

Wanted(in) == IF in.calendar = "" THEN "Default" ELSE in.calendar

\* resolveCalendarPath.
Resolve(requested) ==
  IF Lower[requested] \in DOMAIN known THEN known[Lower[requested]] ELSE requested

\* Whom a request names: an event its calendar, a contact the account.
Target(in) == IF in.tool = "create_event" THEN Resolve(Wanted(in)) ELSE account

\* A request goes out.
Begin(c, in) ==
  /\ stage[c] = "new"
  /\ stage' = [stage EXCEPT ![c] = "waiting"]
  /\ input' = [input EXCEPT ![c] = in]
  /\ target' = [target EXCEPT ![c] = Target(in)]
  /\ request' = [request EXCEPT ![c] = "travelling"]
  /\ UNCHANGED <<server, found, answer>>

\* The input is no JSON, or an event's time zone or start cannot be read.
Reject(c) ==
  /\ stage[c] = "new"
  /\ stage' = [stage EXCEPT ![c] = "answered"]
  /\ answer' = [answer EXCEPT ![c] = "error"]
  /\ UNCHANGED <<server, found, input, target, request>>

\* Slip: the uid is drawn once, and not for each call.
UidOfFirst(c) == CHOOSE d \in Calls : c \in Calls

\* newUUID: no two calls have the same.
UidOf(c) == c

Event(c) == [uid |-> UidOf(c), path |-> target[c], of |-> c]

\* The servers take a request in.  PUT replaces what has the same uid, and
\* needs a calendar to exist; a contact needs the real account.
Handle(c) ==
  /\ request[c] = "travelling"
  /\ \/ /\ input[c].tool = "create_event" /\ target[c] \in Paths
        /\ events' = {e \in events : e.uid # UidOf(c) \/ e.path # target[c]} \cup {Event(c)}
        /\ UNCHANGED contacts
     \/ /\ input[c].tool = "create_contact" /\ target[c] = RealAccount
        /\ contacts' = contacts \cup {c}
        /\ UNCHANGED events
     \/ /\ input[c].tool = "search_contacts" /\ target[c] = RealAccount
        /\ UNCHANGED <<events, contacts>>
  /\ request' = [request EXCEPT ![c] = "handled"]
  /\ UNCHANGED <<displayed, renames, stale, found, input, target, stage, answer>>

\* They do not: wrong credentials, no such calendar, a limit.  JMAP refuses an
\* account or a card in the body of a response with status 200.
Refuse(c) ==
  /\ request[c] = "travelling"
  /\ \E outcome \in {"refused", "refused in body"} :
       /\ outcome = "refused in body" => input[c].tool # "create_event"
       /\ request' = [request EXCEPT ![c] = outcome]
  /\ UNCHANGED <<server, found, input, target, stage, answer>>

\* What a handler makes of a response: for an event 201 or 204 is success, for
\* JMAP (doJMAP) status 200 is, whatever the body says.
Read(c) ==
  IF request[c] = "refused" THEN "error"
  ELSE IF input[c].tool = "search_contacts" THEN "body"
  ELSE "created"

\* The response arrives.
Answer(c) ==
  /\ stage[c] = "waiting" /\ request[c] \in Outcomes
  /\ stage' = [stage EXCEPT ![c] = "answered"]
  /\ answer' = [answer EXCEPT ![c] = Read(c)]
  /\ UNCHANGED <<server, found, input, target, request>>

\* A transport error, the thirty seconds of fastmailHTTPClient, or the end of
\* the dispatch context.  The request may be handled all the same, even later.
GiveUp(c) ==
  /\ stage[c] = "waiting"
  /\ stage' = [stage EXCEPT ![c] = "given up"]
  /\ answer' = [answer EXCEPT ![c] = "error"]
  /\ UNCHANGED <<server, found, input, target, request>>

\* The process dies, and what it found out with it.
Die ==
  /\ stage' = [c \in Calls |-> IF stage[c] = "waiting" THEN "dead" ELSE stage[c]]
  /\ known' = NoCalendars /\ account' = ""
  /\ UNCHANGED <<server, input, target, request, answer>>

\* The user renames a calendar.
Rename(path, name) ==
  /\ renames < MaxRenames /\ displayed[path] # name
  /\ renames' = renames + 1
  /\ displayed' = [displayed EXCEPT ![path] = name]
  /\ stale' = TRUE
  /\ UNCHANGED <<events, contacts, found, calls>>

MailNext ==
  \/ DiscoverCalendars \/ DiscoverAccount \/ Die
  \/ \E c \in Calls, in \in Inputs : Begin(c, in)
  \/ \E c \in Calls : Reject(c) \/ Handle(c) \/ Refuse(c) \/ Answer(c) \/ GiveUp(c)
  \/ \E path \in Paths, name \in Names : Rename(path, name)

MailSpec == MailInit /\ [][MailNext]_mailVars
-----------------------------------------------------------------------------
(* Properties.                                                             *)

Requests == {"none", "travelling"} \cup Outcomes

\* Every variable of the tools and of Fastmail has its type.
MailTypeOK ==
  /\ displayed \in [Paths -> Names]
  /\ \E names \in SUBSET Strings : known \in [names -> Paths]
  /\ account \in {"", "primary", RealAccount}
  /\ input \in [Calls -> Inputs \cup {NoInput}]
  /\ target \in [Calls -> Strings \cup {"primary", RealAccount}]
  /\ stage \in [Calls -> Stages]
  /\ request \in [Calls -> Requests]
  /\ answer \in [Calls -> {"none", "created", "error", "body"}]
  /\ events \subseteq [uid : Calls, path : Paths, of : Calls]
  /\ contacts \subseteq Calls
  /\ renames \in 0 .. MaxRenames /\ stale \in BOOLEAN

\* "Event created" is true, and stays true: the event of that call is on the
\* calendar it was sent to, no call has two, and no later call, repeated or
\* delayed, replaces it.
CreatedEventExists ==
  \A c \in Calls : input[c].tool = "create_event" /\ answer[c] = "created" =>
    {e \in events : e.of = c} = {Event(c)}

\* A call that names a calendar uses the one that is displayed under that name,
\* however it is spelled, unless the calendars could not be listed when the
\* process started, or have been renamed since.
NamedCalendarIsUsed ==
  [][\A c \in Calls :
       LET want == Lower[Wanted(input'[c])]
       IN  /\ stage[c] = "new" /\ stage'[c] = "waiting"
           /\ input'[c].tool = "create_event"
           /\ ~stale /\ known # NoCalendars
           /\ \E path \in Paths : Lower[displayed[path]] = want
           => target'[c] \in Paths /\ Lower[displayed[target'[c]]] = want]_mailVars

=============================================================================
