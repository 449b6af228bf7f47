---------------------------- MODULE ObsidianNote ----------------------------
(***************************************************************************)
(* What the Obsidian tools promise about one note: a call changes it in a  *)
(* single step, and a patch changes nothing but the section it names.      *)
(* Sections are described here by what they are, not by how obsidian.go    *)
(* finds them.                                                             *)
(***************************************************************************)
EXTENDS Integers, Sequences, FiniteSetsExt

CONSTANTS Lines,      \* the lines a note can hold
          LevelOf,    \* [Lines -> Nat]: number of leading #, 0 for text
          Calls       \* what the model may ask for: see Result

VARIABLES content,    \* [there : BOOLEAN, lines : Seq(Lines)]
          exposed     \* calls have overlapped, or one has broken off

vars == <<content, exposed>>

\* The lines that belong to the heading at i: those that follow it up to, and
\* without, the first heading that is not deeper.
Section(lines, i) ==
  {k \in i + 1 .. Len(lines) :
     \A j \in i + 1 .. k : LevelOf[lines[j]] = 0 \/ LevelOf[lines[j]] > LevelOf[lines[i]]}

\* The heading is the first line that reads like it.
Heading(lines, h) ==
  CHOOSE i \in DOMAIN lines : lines[i] = h /\ \A j \in 1 .. i - 1 : lines[j] # h

Patched(lines, c) ==
  LET head == Heading(lines, c.heading)
      last == Max({head} \cup Section(lines, head))
      kept == IF c.op = "replace" THEN head ELSE last
  IN  SubSeq(lines, 1, kept) \o c.lines \o SubSeq(lines, last + 1, Len(lines))

\* The note after call c.  A patch of a note that is not there, or has no such
\* heading, changes nothing.
Result(note, c) ==
  IF c.op = "write" THEN [there |-> TRUE, lines |-> c.lines]
  ELSE IF note.there /\ \E i \in DOMAIN note.lines : note.lines[i] = c.heading
  THEN [note EXCEPT !.lines = Patched(@, c)]
  ELSE note

Init == exposed = FALSE

\* Once calls have overlapped or failed half-way, nothing is promised.
Next == exposed' \/ (~exposed /\ \E c \in Calls : content' = Result(content, c))

Spec == Init /\ [][Next]_vars

=============================================================================
