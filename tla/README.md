# A TLA+ model of obi-wan-core

obi-wan-core is a small Go service that lets one user talk to one assistant
through several channels (Telegram, a watch webhook, a Rabbit R1, an ESP32 voice
box, a command line). This directory holds TLA+ modules translated from its
source, TLC configurations that model-check them on small instances, and TLAPS
proofs of the properties that matter most.

All paths below are relative to the repository's root, `src/`.

## The system

| Part | State | Operations | Talks to |
|---|---|---|---|
| Dispatcher (`internal/core/dispatcher.go`) | the semaphore channel; per call the local history slice | `Dispatch` | access, memory, history, fallback runner |
| History (`internal/core/history.go`) | the file `history.json` | `Load`, `Append`, `Prune`, `Save` | the file system, and so every process on the state directory |
| API client, fallback chain (`internal/core/api.go`, `fallback.go`) | per call: messages, iteration, tier | `Send`, `Run` | the Messages API, tool executor |
| Access, config (`internal/core/access.go`, `internal/config/config.go`) | none after start | `Allowed`, `Load` | – |
| Memory, system prompt (`internal/memory/memory.go`, `dispatcher.go`) | none (files read afresh) | `Load` | – |
| R1 gateway (`internal/clients/r1/server.go`, `methods.go`) | `Server.active`; per connection a request loop; per chat a goroutine | `handleUpgrade`, `serveConnection`, `Handle`, `handleSend` | the device over a WebSocket, dispatcher |
| R1 pairing (`internal/clients/r1/handshake.go`, `device.go`) | `DeviceStore.dev` and its file | `Handle`, `Pair`, `LookupByToken`, `OpenDeviceStore` | request loop, file system |
| R1 payloads (`sign.go`, `frame.go`, `protocol.go`) | none | signature payloads, frame types | – |
| Telegram (`internal/clients/telegram`) | typing loop per update | `onUpdate`, `SendToChat`, `Chunk` | dispatcher, Telegram API |
| Watch, ESP (`internal/clients/watch`, `esp`) | none beyond a request | `handleMessage`, `handleTalk` | dispatcher, Telegram echo, speech services |
| Tools (`internal/tools`) | the vault's notes, Fastmail, spawned processes | `Execute` and a handler per tool | called from the API client's loop |
| Wiring (`cmd/obi-wan-core/main.go`) | wait group, signal context | `serve`, `dispatch` | everything |

The clients run concurrently and share one dispatcher; the `dispatch` command is
a second process with a dispatcher of its own over the same state directory. The
hard behaviours are:

* turns that overlap between loading the history and saving it, in one process
  (two slots by default) or in two;
* `os.WriteFile`, which truncates and then writes, against loads, other saves and
  crashes;
* tools, which act on the world, followed by a failure of the request that asked
  for them;
* one deadline shared by all rounds of all tiers;
* three kinds of goroutine that write to one WebSocket, and replies that outlive
  their connection;
* a pairing that is written to disk before the device knows its token;
* notes that several dispatches read, change and write as a whole;
* requests to Fastmail that are carried out after their caller gave up, and names
  of calendars that were read once, at the start;
* requests whose client hangs up, and a shutdown that waits for some of them.

What makes each part correct:

* dispatcher and history: no slot is lost; the file is always a conversation that
  took place; what failed is not remembered; with one slot, nothing that was
  answered is lost before something breaks;
* fallback runner: requests the API accepts, an answer that knows what the tools
  did, tools executed once and by the primary only, tiers in order, an end;
* gateway: one connection at a time, each frame answered once and where it came
  from, a gateway that becomes free again;
* pairing: the first pairing stays, memory, disk and device agree, a lockout only
  after a fault;
* assistant and Fastmail tools: only the users a channel lists make it act, an
  event goes to the calendar that was named, "Event created" is true, and whoever
  acts, or answers as the primary, knows what was booked;
* notes: a patch changes its section only, and appends that race never cost the
  note;
* clients: a chat that stays readable, errors that mean what they say, requests
  that end.

`PROJECT.json` lists the hazards one by one, at their lines, with the property
that would catch each.

## Modules

| Module | Models | Rests on |
|---|---|---|
| `HistoryLog` | the abstract specification: one log, appended to and pruned in one step | – |
| `Dispatcher` | `Dispatch` and `History` for all turns and processes | `HistoryLog` as `Abstract`, by a refinement mapping |
| `FallbackRunner` | one call of `Run`: tiers, tool loop, time | – |
| `R1Gateway` | connections, request loop, ticks, chat goroutines | – |
| `R1Pairing` | handshake and device store | – |
| `ObsidianNote` | the abstract specification of a note: calls in one step, sections by what they are | – |
| `ObsidianVault` | writing and patching a note from several slots | `ObsidianNote` as `Abstract`, by a refinement mapping |
| `Clients` | requests of all clients around a dispatch; launch, shutdown and exit | – |
| `Config` | operators: what `Load` makes of a file, whom `Allowed` lets in | – |
| `Fastmail` | discovery, the three Fastmail tools, Fastmail's servers | – |
| `Assistant` | the composition: a process that starts, a turn that is let in, its tiers and its tool calls | `Fastmail` and `Config` extended, `FallbackRunner` as `Runner` |
| `DispatcherProofs`, `FallbackProofs`, `R1GatewayProofs`, `R1PairingProofs`, `ObsidianVaultProofs`, `ClientsProofs`, `FastmailProofs`, `AssistantProofs` | theorems | the modules they extend, TLAPS |
| `MC*` | constants for TLC | the modules they extend |

In each module, the operators whose comment begins with "Slip:" are plausible
mistakes in the definition that follows them. They are not part of the
specification; replacing the definition by its slip must make TLC find a
violation of the property that `PROJECT.json` names under `mutants`.

### Dispatcher

A turn is at one of the places `idle`, `wait` (the select), `admitted`, `calling`
(the model), `saving`, `writing`, `leaving`, `done`, `killed`. An action ends
where another goroutine, another process or a crash can come between: at the
semaphore, at each system call on the file, at the call of the model.

| Variable | Code |
|---|---|
| `pc`, `view`, `reply` | a call of `Dispatch`: where it is, its local `history`, what it returns |
| `sem[p]` | number of elements in the channel `d.sem` of process `p` |
| `file` | `history.json`: absent, just truncated ("torn"), bytes that do not parse ("mixed"), or whole |
| `up`, `faults` | whether a process runs; crashes and failing file accesses so far |
| `overlapped` | history: has a turn loaded the history while another one worked on it (`Working`)? No guard reads it |

A message pair is one turn, because `Append` adds both messages at once and
`Prune` drops them two by two; so a history is a sequence of turns. `Prune` is
given in closed form: the longest suffix that fits the budget, or nothing when
nothing fits (a negative budget, which `config.Load` lets through). Two saves on
top of each other may leave the tail of the longer content behind; which content
is longer in bytes is left open, so `Overwrite` allows both outcomes.

`HistoryLog` is what a client may rely on: an answered turn joins one log, pruned, in
one step. It has two excuses, which the mapping ties to `faults` and `overlapped`:
after a fault a turn may be missing or the log be forgotten, and from the first turns
that overlap on, nothing is said of the log. So `ImplementsLog` holds with any number
of slots and processes, and says everything up to the point where the finding
`dispatcher_lost` begins; `Serialized` says that one slot and one process never get
there.

### FallbackRunner

The state is that of `Send` for the tier that is running, and of the loop of
`Run`. Tool calls are numbered in the order the model asks for them, which makes
"executed twice" and "not reported" visible. `elapsed` counts units of time up to
the deadline of the context: a request that would end at the deadline or later
fails, a tool may still end. Only the primary has an executor, as `main.go`
wires it.

### R1Gateway

`stage[c]` is where `handleUpgrade` is for connection `c`, `owed[c]` the response
that the request loop has read the request for and not written yet, `run[f]` the
goroutine that `handleSend` started for frame `f`, `out[c]` what the device was
sent. `link[c]` becomes false when the network or the device goes away, or when
the handler closes the connection. `ticker[c]` is the goroutine that writes the
ticks: it waits for the next one, hangs in a write, or has closed `tickDone`,
which the handler waits for before it gives the gateway back (`Close`). The ticks
themselves are left out of `out`: nothing depends on how many there are. So is the
health check without an `Upgrade` header, which touches no state.

### R1Pairing

One connection is served at a time (`SingleConnection` of `R1Gateway` shows it),
so one handshake is under way at most, and its stage is one variable. The two
steps of `Pair`, the rename of the new file and the assignment to `s.dev`, are
two actions, and so is the hello that carries the token, which may be lost.
A device that fails protocol, role, nonce or signature takes `HandshakeFails`.

### ObsidianVault

One note and the slots that work on it. `there` and `note` are the file, `text[s]`
the lines that the call of slot `s` is going to write, `pc[s]` whether it is
before or after the truncation of the file. Sections are found by indices, as
the code does; `ObsidianNote` says what a section is without them, and the
refinement compares the two. Two truncations in a row followed by two writes
leave the end of the longer text behind; which one that is, and how the line at
the seam reads, is left open (`Overwritten`). Four history variables say where
the note came from and whether changes have overlapped; no action reads them.

### Clients

`stage[r]` is where the goroutine of request `r` is, `result[r]` what `Dispatch`
returned (an exhausted fallback chain is a reply, "failed", and no error),
`tried[r]` how many chunks `SendMessage` was called with, `chat` what arrived,
`live[r]` whether the request's context is still alive, `main` where `runServe` is.
The client of each request is chosen in `Init`, so that a run with two requests
covers every pair of clients. What `net/http` and the Telegram library do
(`Shutdown` waits for requests and cancels none; handlers of updates are not
waited for) is taken from their documentation.

### Config, Fastmail, Assistant

`Config` has no state: `Load` maps a configuration file, as a record of the fields
that decide something, to what the process works with, or to `Refused`; `Allowed`
is the function of the same name.

A call of a Fastmail tool goes through `stage[c]` (from "new" over "waiting" to how
it ended), while `request[c]` says where its one HTTP request is and what Fastmail
made of it. The two are separate because they come apart: a request may be
carried out after its caller has given up (`GiveUp`, then `Handle`) or died.
`target[c]` is the calendar or the account that the request names, `answer[c]` what
the model is told. `known` and `account` are what discovery found when the process
started, `displayed` how the user has named the calendars since. Fastmail's
servers are external. They keep one event per uid and path, refuse what has no
calendar or a wrong account, and refuse JMAP requests in the body of a response
with status 200, which `doJMAP` does not read.

`Assistant` puts them together with `FallbackRunner`, as an instance without
time (`TiersAssumption` is what that instance asks of its constants): `LoadConfig`,
`FindCalendars` and `FindAccount` are the parts of `buildDispatcherWithConfig`, `Ask` is `Dispatch` up to the access check, `Think` a
step of `Run` that calls no tool, `CallTool` and `ToolReturns` the two ends of a
call of `registry.Execute`. `asker` is the turn that runs, `made` its calls. Nothing
is assumed of the model: it may ask for several tools in one response, for the same
event twice, in one round or in the next, as long as there are calls left (`Askable`,
`MaxUses`). A response that wants tools and names none is left to `FallbackRunner`;
it changes only the count of rounds. The process may be killed at any point, which
drops the turn and what was discovered, not the calls.

## Runs

| Run | Instance | Shows |
|---|---|---|
| `dispatcher_serial` | 4 turns (sizes 1, 1, 2, 9; budget 3), 1 slot, 1 process, 2 faults | `Serialized`, `EveryTurnEnds` |
| `dispatcher_default` | the same turns, one not admitted, 2 slots, server and command, 1 fault | type, `SemaphoreExact`, `StoredIsConversation`, `OnlyAnsweredIsRemembered`, `StoredFitsBudget`, `ImplementsLog` |
| `dispatcher_lost` | 2 turns, 2 slots, no fault | violation of `NoLostTurn` |
| `fallback_tools` | 2 fallback tiers, 2 rounds, 2 tools per response, units of 30 s | type, `RequestsWellFormed`, `PrimaryKnowsItsEffects`, `ToolsRunOnce`, `TiersTriedInOrder`, `OnlyPrimaryActs`, `RunReturns` |
| `fallback_deadline` | 1 fallback tier, units of 30 s: deadline 4, request 3 | violation of `FallbackHasRoom` |
| `r1_gateway` | 2 connections, 4 frames of all kinds, ticks | type, `SingleConnection`, `AnsweredOnce`, `ResponsesInOrder`, `NothingForgotten`, `EveryChatEnds`, `GatewayComesBack` |
| `r1_ack` | 1 connection, 1 chat | violation of `AckBeforeEvent` |
| `r1_pairing` | 2 devices, 3 faults | type, `MemoryIsDisk`, `HeldTokensAreGood`, `LockoutNeedsFault`, `PairedForEver`, `HandshakeEnds` |
| `obsidian_vault` | 2 slots, 3 calls of 6 kinds, 4 notes or none, 1 fault | type, `AppendsKeepTheNote`, `ImplementsNote` |
| `clients` | 2 requests of any clients, 3 and 2 chunks | type, `ChatIsReadable`, `WatchErrorIsFinal`, `RequestsEnd` |
| `clients_hijacked` | 1 request | violation of `R1HandlerReturns` |
| `assistant` | 2 calls, 2 tools per response, 2 calendars, 4 configuration files, 2 users, 1 fallback tier, 2 rounds, 1 renaming | type, `CreatedEventExists`, `OnlyEntitledAct`, `BookingsAreKnown`, `NamedCalendarIsUsed` |

The bounds, and why they are enough:

* Three turns are what it takes for one turn to load what a second one saved
  while a third one is between truncation and write; the fourth is larger than
  any budget (serial) or not admitted (default). Two turns of size 1 and one of
  size 2 under a budget of 3 make `Prune` keep everything, something or nothing.
* Two faults allow a crash and a failing write, or two crashes; the systemd unit
  starts the service three times an hour, so two restarts are what it grants.
* Two rounds and two tools show a second round with the results of the first, a
  list of results with an error in it, and the end of the loop; two fallback
  tiers show one that fails between two others.
* Two connections and two chats let a reply outlive its connection and meet the
  next one.
* Two devices let one come too late; three faults allow a failing write, a crash
  and a lost hello in one behaviour.
* Three calls in two slots let a patch read a note that another one has emptied,
  two writes fall on each other, and a third call work on the result. The notes
  hold a section within a section, two headings of a kind, headings in rising
  order, a note without headings; the calls name a heading, an inner heading, a
  line of text and a blank line.
* Two calls, in one response or one in each of two rounds, let one be repeated by
  the primary, meet what was reported of the other, or be carried out late, in the
  same turn or after a restart. Two calendars may share a
  name, in one of two spellings, or have none; one renaming makes what was
  discovered stale, which ends what `NamedCalendarIsUsed` claims until the next
  start. The four files are one with a list, one with a list and open access, which
  is refused, one with a negative concurrency, refused too, and one whose channel
  is switched off.
* Two requests let their chunks mix in every way; three chunks leave one before
  and one after a chunk that fails.

The four violations are findings: a document or a comment says more than the
code does.

1. `dispatcher_lost`: the design document says that the semaphore "serializes all
   dispatches, so no file locking needed". It has two slots by default; two turns
   that overlap load the same history, and the later save drops the turn of the
   earlier one.
2. `fallback_deadline`: the comment on `apiHTTPTimeout` wants to leave the
   fallback chain room within the dispatch deadline. The limit is per request and
   a tool loop makes several.
3. `r1_ack`: README and `methods.go` promise the ACK before the chat event. The
   goroutine starts first and nothing orders the two writes.
4. `clients_hijacked`: a comment in the R1 server relies on `Shutdown` to cancel the
   context of the hijacked connection. It does not, and the process exits under
   the connection's handler and its chats.

More things that came up while modelling, and that no run is about:

* A reply that was stored, echoed and announced still ends in an error when speech
  synthesis fails, so that an ESP box that asks again asks a second time (`Speak`).
* A patch keeps neither the newline at the end of a note, when it changes the last
  section, nor subsections, when it replaces a section (`PatchedLines`).
* `doJMAP` takes any status 200 for success. When discovery failed, Fastmail refuses
  the account "primary" in the body of such a response, and the model is told
  "Contact created"; the comment at `main.go:326` expects "a clear JMAP error in the
  logs rather than a silent success". `CreatedEventExists` is about events only,
  because of this.
* The descriptions of the calendar tool (`fastmail.go:24`, `:352`) say that an event
  goes to "Personal" when no calendar is given; the code takes "Default"
  (`fastmail.go:171`, `Wanted`).
* Nothing refuses a second booking. Two equal `create_event` blocks in one response
  are both executed (`api.go:156-174`), each with a uid of its own; so is a block
  that the model repeats in a later round although it knows, or because the call
  before was given up while its request was under way. The model is told the truth as
  far as it is known (`BookingsAreKnown`); the rest is up to the model.
* When the primary fails after its tools were executed, the fallback tier answers the
  same question and is told nothing of what was done. It cannot act
  (`OnlyPrimaryActs`), but its answer may deny what happened.
* Two calendars that are displayed under the same name become one entry of the map,
  the last in the listing (`Listing`).
* A model whose text is blank ends a turn with an empty reply, which is stored as
  such (`dispatcher.go:124`).

## Fairness

* `Dispatcher`: weak fairness of each turn's own steps. The Go scheduler runs a
  runnable goroutine; the call of the model ends because its HTTP client has a
  time limit and its loop a bound (`RunReturns`). Nothing is assumed of
  cancellation, faults or restarts. Several turns may wait for one slot; each gets
  it because there are finitely many and each one leaves. (Go's channels are
  first in, first out, so that an endless supply of turns would not starve one
  either; this is not used.)
* `FallbackRunner`: weak fairness of the whole step, for the same reasons.
* `R1Gateway`: weak fairness of each connection's handler and of each chat's
  goroutine: the handshake has ten seconds, a dispatch two minutes, a read from a
  dead connection fails when TCP gives it up. Weak fairness of `TickStops`: its
  context is cancelled before the handler waits for it, and ends its write. The device and the network are
  under no obligation.
* `R1Pairing`: weak fairness of the handshake's steps; nothing of devices, faults
  or restarts.
* `Clients`: weak fairness of each request's own steps while the process lives,
  because every call in them has a time limit, and of the end of a shutdown.
  Nothing is assumed of clients, of sends that succeed, or of SIGTERM.
* `Assistant`, `Fastmail` and `ObsidianVault`: none; their properties are safety
  properties. That a turn ends is `EveryTurnEnds` and `RunReturns`.

## Proofs

For every value of the constants that satisfies the assumptions of the module
(`ConstantsAssumption`, and so on):

| Module | Theorem | Statement |
|---|---|---|
| `DispatcherProofs` | `TypeCorrect` | `Spec => []TypeOK` |
| | `SemaphoreIsExact` | `Spec => []SemaphoreExact` |
| | `UnansweredIsNotRemembered` | `Spec => []OnlyAnsweredIsRemembered` |
| | `StoredHistoryIsConversation` | `Spec => []StoredIsConversation` |
| | `BudgetHolds` | `Spec => []StoredFitsBudget` |
| | `SerialDispatch` | `Spec => []Serialized` |
| | `DispatchImplementsLog` | `Spec => ImplementsLog` |
| | `PruneIsTheLoop` | the closed form of `Prune` is the loop of `history.go` |
| | `NobodyWaitsInVain` | a turn waits only for a turn of its own process |
| | `TurnsMoveOn` | no turn goes back; each step moves one on, but for deaths and restarts |
| `FallbackProofs` | `RunTyped` | `Spec => []TypeOK` |
| | `OnlyPrimaryExecutes` | `Spec => OnlyPrimaryActs` |
| | `RunTriesTiersInOrder` | `Spec => []TiersTriedInOrder` |
| | `ToolsAreRunOnce` | `Spec => []ToolsRunOnce` |
| | `RequestsAreWellFormed` | `Spec => []RequestsWellFormed` |
| | `PrimaryKnows` | `Spec => []PrimaryKnowsItsEffects` |
| | `NobodyActsUnaware` | when a tool is executed, the request that was answered by asking for it reported every tool call of earlier rounds |
| | `RunIsBounded` | each step lowers a measure in `Nat` |
| `R1GatewayProofs` | `GatewayTyped` | `Spec => []TypeOK` |
| | `OneConnectionAtATime` | `Spec => []SingleConnection` |
| | `ResponsesKeepOrder` | `Spec => []ResponsesInOrder` |
| | `OneAnswerEach` | `Spec => []AnsweredOnce` |
| | `NoFrameIsForgotten` | `Spec => []NothingForgotten` |
| `R1PairingProofs` | `PairingTyped` | `Spec => []TypeOK` |
| | `TokensStayGood` | `Spec => []HeldTokensAreGood` |
| | `MemoryFollowsDisk` | `Spec => []MemoryIsDisk` |
| | `NoLockoutByDesign` | `Spec => []LockoutNeedsFault` |
| | `PairingIsForEver` | `Spec => PairedForEver` |
| | `LockoutIsForEver` | a device that is locked out stays so |
| `ObsidianVaultProofs` | `VaultTyped` | `Spec => []TypeOK` |
| | `PatchIsAbstract` | for every text, the patch of the code is that of `ObsidianNote` |
| | `VaultImplementsNote` | `Spec => ImplementsNote` |
| | `AppendsAreSafe` | `Spec => []AppendsKeepTheNote` |
| `ClientsProofs` | `ClientsTyped` | `Spec => []TypeOK` |
| | `ChatStaysReadable` | `Spec => []ChatIsReadable` |
| | `WatchMayRetry` | `Spec => []WatchErrorIsFinal` |
| | `RequestsGetOn` | what is ahead of a request becomes less with each of its steps, and never more |
| `FastmailProofs` | `MailTyped` | `MailSpec => []MailTypeOK` |
| | `CreatedIsTrue` | `MailSpec => []CreatedEventExists` |
| | `NamesAreResolved` | `MailSpec => NamedCalendarIsUsed` |
| `AssistantProofs` | `AssistantUsesMail` | `Spec => MailSpec` |
| | `AssistantTellsTruth` | `Spec => []CreatedEventExists` |
| | `AssistantFindsCalendar` | `Spec => NamedCalendarIsUsed` |
| | `EntitledOnly` | `Spec => []OnlyEntitledAct` |
| | `BookingsAreAlwaysKnown` | `Spec => []BookingsAreKnown` |
| | `AssistantTyped` | `Spec => []TypeOK` |
| | `TurnsRunAsProved` | in every turn, what was proved of `FallbackRunner` holds |
| | `ConfigFits` | a process that runs has a configuration as `Dispatcher` assumes it |

The arguments:

* `SemaphoreExact` is inductive together with the finiteness of the set of
  holders (`SemInv`), which is what makes its cardinality count one up or down.
* `OnlyAnsweredIsRemembered` needs two facts more (`MemoryInv`): a turn whose
  reply is decided never saves again, and what a turn will save is among what it
  loaded and itself. The second one is about `Prune` and follows from
  `PruneIsTail`: pruning returns a suffix.
* `StoredIsConversation` is proved from the stronger `ConversationInv`: each
  turn's loaded view is a conversation too. A turn's view is fixed once it is
  loaded, and nobody has been given the turn before it is saved, so appending it
  keeps the property, and so does dropping the oldest turns.
* `ImplementsLog` maps the abstract log to the file, or, while a turn rewrites
  the file, to what that turn loaded. It needs `AloneInv`: until turns overlap, one
  turn at most works on the history; what it loaded is what is stored, unless reading
  failed, and the file is torn when it is about to write. Every action then maps to
  `Record`, `Close` or a stutter, whatever the number of slots and processes.
  `SerialDispatch` adds that one slot keeps turns apart: whoever works on the history
  holds a slot, and `SemaphoreExact` leaves room for one holder (`SlotExcludes`).
* The model's `Prune` chooses the least number of turns to drop. `PruneIsTheLoop` says
  that this is the loop of the code: it unfolds `Prune` by one turn, because what
  remains after k + 1 turns of a history is what remains after k of its tail
  (`RestOfTail`).
* `StoredFitsBudget`, for a negative budget too, which no run has, follows from what
  `Prune` returns and from `TypeOK`: each
  turn saves a pruned list, and what two saves leave on top of each other is one
  of them or does not parse.
* `PairingInv` says for each stage of a handshake what the file and the tokens
  are.
* `GatewayInv` adds nothing to `SingleConnection` but its type facts. `FrameInv` is
  what the frames need: a frame was sent on one connection and is unread, owed a
  response or answered there, in the order it was sent (`UnreadInv`, `Written`); a
  chat has one goroutine, and what it wrote, it wrote as it ended. From it follow
  `ResponsesInOrder` and `AnsweredOnce`. The other half, that none is left without its
  answer, is `NothingForgotten`: inductive by itself, because a link never comes back
  and each step that takes a frame from one place puts it into the next.
* `LockoutIsForEver` rests on `PairingInv`: a device that is paired and without its
  token can present neither, since the bootstrap secret is refused from then on, and a
  token that some device does hold is the one on disk (`HeldTokensAreGood`).
* `OnlyPrimaryActs` holds because a tier without an executor never has a tool
  call to execute (`ActsInv`); `TiersTriedInOrder` because the list of failures is
  exactly as long as the number of tiers given up (`TierInv`).

* `ToolsRunOnce` because tool calls are numbered as they are asked for and executed
  in that order (`IdsInv`). `RequestsWellFormed` because the messages are whole
  rounds before a request, and lack the last results while tools are executed
  (`RoundsInv`). `PrimaryKnowsItsEffects` because what the messages report, and
  the results that wait to join them, are what was executed (`KnowsInv`).
* `ImplementsNote` maps the note's content to the file, or, while a call rewrites it,
  to what it was before. `VaultInv` adds that, until calls overlap, one slot at most
  is at work, and that what it will write is what `ObsidianNote` says of some call.
  The heart is a comparison of the two definitions of a section: the indices that
  the code computes (`HeadingIdx`, `SectionEnd`) cut out exactly the lines that the
  abstract note calls the section (`HeadingFound`, `SectionCut`, `PatchIsAbstract`).
* `AppendsKeepTheNote` needs `KeepInv`: as long as all changes are appends that do not
  break off, not only the file but every text that a slot is about to write has kept
  the first note's lines, the last one aside (`Kept`). An append keeps them
  (`AppendKeeps`); of two writes on top of each other one is whole up to its last line,
  which is all `Kept` asks for (`OverwriteKeeps`).
* `ChatIsReadable` and `WatchErrorIsFinal` need to know what a request has done by
  the stage it has reached (`StageInv`), and that an echo which goes on has had no
  part fail (`ChatInv`).
* `CreatedEventExists` needs `EventsInv`: the events on the server are exactly those
  of the calls that were handled, one for each, because uids differ.
  `NamedCalendarIsUsed` needs `FoundInv`: until a renaming, what was discovered is
  what the listing would yield now.
* `AssistantUsesMail` shows that each step of `Assistant` is a step of `Fastmail` or
  leaves it alone, so that the two properties carry over. `OnlyEntitledAct` needs
  `EntitledInv`: a configuration in use was accepted, and no turn outlives it.
* `BookingsAreKnown` joins two facts. `TurnInv`: the result of a call that was to book
  an event says whether it did (`SettledInv`, `BookingInv`), unless the call was given
  up. And `NobodyActsUnaware`, of `FallbackRunner`: while tools are executed, the
  request that was answered by asking for them reported what the messages report, and
  the results of this round are exactly the last calls (`AskedInv`); so whatever is
  not among them was reported, with its outcome and no other (`KnowsInv`).
* `TurnsRunAsProved` takes over what `FallbackProofs` shows, through an instance of it
  (`Run`): each step of a turn is a step of `Run` or leaves it alone (`RunInv`), and
  each turn starts it anew.
* Liveness itself is out of reach, but not what stands in its way. `RunIsBounded` and
  `RequestsGetOn` give a measure in the natural numbers that each step lowers, and
  `TurnsMoveOn` a place that each step moves on from; `NobodyWaitsInVain` excludes
  that turns wait for nobody. What is left for the scheduler is to run the goroutines.

Every invariant and action property of the passing runs is proved. Only model-checked are the
liveness properties: `EveryTurnEnds`, `RunReturns`, `EveryChatEnds`, `GatewayComesBack`,
`HandshakeEnds` and `RequestsEnd`. Liveness under fairness is out of the prover's
reach; so is induction over data, which is why `Prune` is given in closed form and
`PruneIsTheLoop` unfolds it once.

## Not modelled

Texts: prompts, time stamps, JSON, frames, signatures, chunks, vCards. Memory and
system prompt files, which are read afresh and never written. The tool that spawns
a Claude process, which keeps no state and does not wait. Reading and searching
notes, which change nothing. A second turn beside the one of `Assistant`: turns that
overlap are the subject of `Dispatcher`, and share nothing of Fastmail but the
account. In `Clients`, a part whose `SendMessage` failed never arrives; one that timed
out may in fact arrive late, after parts that were sent later, and `ChatIsReadable`
says nothing of that. A process without any tool configured, whose primary has no
executor either. See `components` in `PROJECT.json` for the reason in each case.

## How the modules were ordered

The shared history came first, because it is the heart of the system: `HistoryLog`,
`Dispatcher` and its proofs; then what a turn does (`FallbackRunner`), the two halves
of the R1 gateway (`R1Gateway`, `R1Pairing`), the notes (`ObsidianVault` against
`ObsidianNote`), what surrounds a turn (`Clients`), and last the composition that goes
from a configuration file to an event on a calendar (`Config`, `Fastmail`,
`Assistant`). A loop of `Prune` message by message was planned once and dropped: it
drops pairs from the front until the rest fits, which is what the closed form says, and
what `PruneIsTheLoop` proves.

What would come next: measures for the handlers and chats of `R1Gateway` and for the
handshakes of `R1Pairing`, as the other components have them; a composition of
`R1Gateway` and `Dispatcher`, for a device that repeats a `chat.send`; two turns at
once in `Assistant`.
