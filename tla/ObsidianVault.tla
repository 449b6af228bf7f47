--------------------------- MODULE ObsidianVault ----------------------------
(***************************************************************************)
(* internal/tools/obsidian.go: the tools that write and patch a note, as   *)
(* the dispatches that hold the slots of the semaphore call them.  Each    *)
(* dispatch makes one call after the other; nothing orders the calls of    *)
(* two.  A note is a file read with one ReadFile and written with one      *)
(* WriteFile: truncated on opening, then filled.  obsidian_read_note       *)
(* changes nothing and is left out, and so are the paths: one note is      *)
(* modelled, and calls with a path outside the vault fail before they      *)
(* touch it.                                                               *)
(***************************************************************************)
EXTENDS Integers, Sequences, FiniteSetsExt, SequencesExt

CONSTANTS
  Slots,      \* dispatches that run at a time
  Lines,      \* lines of a note, up to white space at their ends
  Blank,      \* the line with nothing in it
  LevelOf,    \* [Lines -> Nat]: countLeadingHashes
  Calls,      \* [op : "write", lines] and [op : "append" | "replace", heading, lines]
  Starts,     \* what the note may hold at first
  MaxCalls,   \* bound on the calls made
  MaxFaults   \* bound on crashes and failing writes

ASSUME ConstantsAssumption ==
  /\ Blank \in Lines /\ LevelOf \in [Lines -> Nat] /\ LevelOf[Blank] = 0
  /\ Starts \subseteq Seq(Lines) \ {<<>>}
  /\ \A c \in Calls : /\ c.op \in {"write", "append", "replace"}
                      /\ c.lines \in Seq(Lines) \ {<<>>}
                      /\ c.op # "write" => c.heading \in Lines
  /\ MaxCalls \in Nat /\ MaxFaults \in Nat

VARIABLES
  there,    \* does the file exist?
  note,     \* its lines, as strings.Split gives them
  pc,       \* per slot: "idle", "ready" to write, file "truncated"
  text,     \* per slot: the lines it is going to write
  made,     \* number of calls made
  faults,   \* number of faults that have happened
  start,    \* history: the first note
  before,   \* history: the note when it was last truncated
  raced,    \* history: have two changes overlapped?
  rewritten \* history: has anything but an append to a heading begun?

vars == <<there, note, pc, text, made, faults, start, before, raced, rewritten>>

\* An empty file has one line, the blank one.
Empty == <<Blank>>

Note == [there |-> there, lines |-> note]
Quiet == \A s \in Slots : pc[s] = "idle"

Init ==
  /\ start \in Starts
  /\ \/ there = TRUE /\ note = start
     \/ there = FALSE /\ note = Empty
  /\ pc = [s \in Slots |-> "idle"]
  /\ text = [s \in Slots |-> Empty]
  /\ made = 0 /\ faults = 0
  /\ before = Note /\ raced = FALSE /\ rewritten = FALSE
-----------------------------------------------------------------------------
(* The patch, by indices into the lines.                                   *)

\* First line that reads like the heading; 0 when there is none.
HeadingIdx(lines, h) == SelectInSeq(lines, LAMBDA line : line = h)

\* Slip: a heading of the same level does not end the section.
SectionEndDeeper(lines, head) ==
  Min({Len(lines) + 1} \cup
      {k \in head + 1 .. Len(lines) : LevelOf[lines[k]] \in 1 .. LevelOf[lines[head]] - 1})

\* The first line after the section.
SectionEnd(lines, head) ==
  Min({Len(lines) + 1} \cup
      {k \in head + 1 .. Len(lines) : LevelOf[lines[k]] \in 1 .. LevelOf[lines[head]]})

PatchedLines(lines, c) ==
  LET head == HeadingIdx(lines, c.heading)
      end == SectionEnd(lines, head)
  IN  SubSeq(lines, 1, IF c.op = "replace" THEN head ELSE end - 1)
        \o c.lines \o SubSeq(lines, end, Len(lines))
-----------------------------------------------------------------------------
(* The handlers.                                                           *)

\* Slot s has the lines to write; other changes may be under way.
Prepare(s, c, lines) ==
  /\ pc' = [pc EXCEPT ![s] = "ready"]
  /\ text' = [text EXCEPT ![s] = lines]
  /\ raced' = (raced \/ ~Quiet)
  /\ rewritten' = (rewritten \/ c.op # "append" \/ c.heading = Blank)

Begins(s) == pc[s] = "idle" /\ made < MaxCalls /\ made' = made + 1

\* ObsidianWriteHandler, up to WriteFile.
WriteNote(s, c) ==
  /\ c.op = "write"
  /\ Begins(s)
  /\ Prepare(s, c, c.lines)
  /\ UNCHANGED <<there, note, faults, start, before>>

\* Slip: a heading that is missing is added at the end.
PatchMakesHeading(s, c) ==
  /\ c.op # "write"
  /\ Begins(s)
  /\ IF ~there THEN UNCHANGED <<pc, text, raced, rewritten>>
     ELSE Prepare(s, c, IF HeadingIdx(note, c.heading) # 0 THEN PatchedLines(note, c)
                        ELSE note \o <<c.heading>> \o c.lines)
  /\ UNCHANGED <<there, note, faults, start, before>>

\* ObsidianPatchHandler reads the note and works out the new one.  A missing
\* note or heading is only reported to the model.
PatchNote(s, c) ==
  /\ c.op # "write"
  /\ Begins(s)
  /\ IF there /\ HeadingIdx(note, c.heading) # 0
     THEN Prepare(s, c, PatchedLines(note, c))
     ELSE UNCHANGED <<pc, text, raced, rewritten>>
  /\ UNCHANGED <<there, note, faults, start, before>>

\* MkdirAll or the opening of the file fails: the note is as it was.
CallFails(s) ==
  /\ pc[s] = "ready"
  /\ pc' = [pc EXCEPT ![s] = "idle"]
  /\ UNCHANGED <<there, note, text, made, faults, start, before, raced, rewritten>>

\* Slip: an empty file has no lines.
OpenWithoutLines(s) ==
  /\ pc[s] = "ready"
  /\ pc' = [pc EXCEPT ![s] = "truncated"]
  /\ there' = TRUE /\ note' = <<>>
  /\ before' = Note
  /\ UNCHANGED <<text, made, faults, start, raced, rewritten>>

\* WriteFile opens the file, which empties it.
OpenFile(s) ==
  /\ pc[s] = "ready"
  /\ pc' = [pc EXCEPT ![s] = "truncated"]
  /\ there' = TRUE /\ note' = Empty
  /\ before' = Note
  /\ UNCHANGED <<text, made, faults, start, raced, rewritten>>

\* The last line of new, glued to the rest of a line of old, and the lines from
\* i on.
WithTail(new, old, glued, i) == Front(new) \o <<glued>> \o SubSeq(old, i, Len(old))

\* What the file holds when new is written over old from the beginning: if old
\* is longer in bytes, its end remains.
Overwritten(new, old) ==
  {new} \cup IF old = Empty THEN {}
             ELSE {WithTail(new, old, glued, i) : glued \in Lines, i \in 2 .. Len(old) + 1}

\* WriteFile writes the lines and closes the file.
FillFile(s) ==
  /\ pc[s] = "truncated"
  /\ pc' = [pc EXCEPT ![s] = "idle"]
  /\ note' \in Overwritten(text[s], note)
  /\ UNCHANGED <<there, text, made, faults, start, before, raced, rewritten>>

Fault == faults < MaxFaults /\ faults' = faults + 1

\* The write breaks off, for example because the disk is full.
FillFails(s) ==
  /\ pc[s] = "truncated"
  /\ Fault
  /\ pc' = [pc EXCEPT ![s] = "idle"]
  /\ note' \in {note} \cup UNION {Overwritten(SubSeq(text[s], 1, k), note) :
                                   k \in 1 .. Len(text[s]) - 1}
  /\ UNCHANGED <<there, text, made, start, before, raced, rewritten>>

\* The process is killed, with every call it has under way.
Crash ==
  /\ ~Quiet
  /\ Fault
  /\ pc' = [s \in Slots |-> "idle"]
  /\ UNCHANGED <<there, note, text, made, start, before, raced, rewritten>>

\* All calls have been made and have ended.
Done == Quiet /\ made = MaxCalls /\ UNCHANGED vars

Next ==
  \/ \E s \in Slots :
       \/ \E c \in Calls : WriteNote(s, c) \/ PatchNote(s, c)
       \/ CallFails(s) \/ OpenFile(s) \/ FillFile(s) \/ FillFails(s)
  \/ Crash \/ Done

Spec == Init /\ [][Next]_vars
-----------------------------------------------------------------------------
(* Properties.                                                             *)

\* Every variable has its type.
TypeOK ==
  /\ there \in BOOLEAN
  /\ note \in Seq(Lines) \ {<<>>}
  /\ pc \in [Slots -> {"idle", "ready", "truncated"}]
  /\ text \in [Slots -> Seq(Lines) \ {<<>>}]
  /\ made \in 0 .. MaxCalls /\ faults \in 0 .. MaxFaults
  /\ start \in Starts
  /\ before \in [there : BOOLEAN, lines : Seq(Lines) \ {<<>>}]
  /\ raced \in BOOLEAN /\ rewritten \in BOOLEAN

\* part can be had from whole by leaving out lines.
Within(part, whole) ==
  \E at \in [DOMAIN part -> DOMAIN whole] :
    /\ \A i \in DOMAIN part : whole[at[i]] = part[i]
    /\ \A i, j \in DOMAIN part : i < j => at[i] < at[j]

\* Appends that race with each other may cost each other's lines, but never
\* the note: between two of them, each line that was in it at first is still
\* there, in order.  Only the last one, which is blank in a file that ends
\* with a newline, can be damaged.
AppendsKeepTheNote ==
  Quiet /\ there /\ ~rewritten /\ faults = 0 => Within(Front(start), note)

\* Calls that do not overlap, and do not break off, implement ObsidianNote:
\* each takes effect at once, and a patch changes nothing but its section.
Abstract ==
  INSTANCE ObsidianNote WITH
    content <- IF \E s \in Slots : pc[s] = "truncated" THEN before ELSE Note,
    exposed <- raced \/ faults > 0
ImplementsNote == Abstract!Spec

=============================================================================
