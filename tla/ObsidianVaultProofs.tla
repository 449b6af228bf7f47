------------------------- MODULE ObsidianVaultProofs ------------------------
(***************************************************************************)
(* Theorems about ObsidianVault, for any note, any calls and any number of *)
(* slots: the indices that obsidian.go computes cut out the section that   *)
(* ObsidianNote describes, and calls that do not overlap implement it.     *)
(***************************************************************************)
EXTENDS ObsidianVault, WellFoundedInduction, SequenceTheorems, TLAPS

Texts == Seq(Lines) \ {<<>>}

(* A set of natural numbers that is not empty has a least one. *)
LEMMA LeastExists ==
  ASSUME NEW S \in SUBSET Nat, S # {}
  PROVE  \E x \in S : \A y \in S : x <= y
<1>1. IsWellFoundedOn(OpToRel(<, Nat), Nat)
  BY NatLessThanWellFounded
<1>2. \A x, y \in Nat : y < x => <<y, x>> \in OpToRel(<, Nat)
  BY DEF OpToRel
<1>3. PICK R : IsWellFoundedOn(R, Nat) /\ \A x, y \in Nat : y < x => <<y, x>> \in R
  BY <1>1, <1>2
<1>4. \E x \in S : \A y \in S : ~(<<y, x>> \in R)
  BY <1>3, WFMin
<1>5. PICK x \in S : \A y \in S : ~(<<y, x>> \in R)
  BY <1>4
<1>6. ASSUME NEW y \in S PROVE x <= y
  <2>1. x \in Nat /\ y \in Nat
    OBVIOUS
  <2>2. ~(y < x)
    BY <1>3, <1>5, <2>1
  <2>. QED  BY <2>1, <2>2
<1>. QED  BY <1>5, <1>6

(* Min of the community modules is that one, ... *)
LEMMA MinIsLeast ==
  ASSUME NEW S \in SUBSET Nat, S # {}
  PROVE  Min(S) \in S /\ \A y \in S : Min(S) <= y
BY LeastExists DEF Min

(* ... and Max, as ObsidianNote takes it from there, is the greatest, if there *)
(* is one.                                                                   *)
LEMMA MaxIsGreatest ==
  ASSUME NEW S \in SUBSET Nat, NEW m \in S, \A y \in S : y <= m
  PROVE  Abstract!Max(S) = m
<1>1. \A x \in S : (\A y \in S : x >= y) => x = m
  OBVIOUS
<1>. QED  BY <1>1 DEF Abstract!Max

(* The heading that the code finds is the one that ObsidianNote means. *)
LEMMA HeadingFound ==
  ASSUME NEW lines \in Seq(Lines), NEW h
  PROVE  /\ HeadingIdx(lines, h) # 0 <=> \E i \in DOMAIN lines : lines[i] = h
         /\ HeadingIdx(lines, h) # 0 =>
              /\ HeadingIdx(lines, h) \in DOMAIN lines
              /\ HeadingIdx(lines, h) = Abstract!Heading(lines, h)
<1>. DEFINE I == {i \in 1 .. Len(lines) : lines[i] = h}
            first == HeadingIdx(lines, h)
<1>1. DOMAIN lines = 1 .. Len(lines) /\ Len(lines) \in Nat
  BY LenProperties
<1>2. first = IF I # {} THEN Min(I) ELSE 0
  BY DEF HeadingIdx, SelectInSeq
<1>3. I \in SUBSET Nat /\ 0 \notin I
  BY <1>1
<1>4. CASE I = {}
  BY <1>1, <1>2, <1>4
<1>5. CASE I # {}
  <2>1. first \in I /\ \A y \in I : first <= y
    BY <1>2, <1>3, <1>5, MinIsLeast
  <2>2. \A j \in 1 .. first - 1 : lines[j] # h
    BY <1>1, <2>1
  <2>3. \A i \in DOMAIN lines :
          lines[i] = h /\ (\A j \in 1 .. i - 1 : lines[j] # h) => i = first
    <3>. SUFFICES ASSUME NEW i \in DOMAIN lines, lines[i] = h,
                         \A j \in 1 .. i - 1 : lines[j] # h
                  PROVE  i = first
      OBVIOUS
    <3>1. i \in I /\ first <= i
      BY <1>1, <2>1
    <3>2. ~(first < i)
      BY <1>1, <2>1
    <3>. QED  BY <1>1, <2>1, <3>1, <3>2
  <2>4. first = Abstract!Heading(lines, h)
    BY <1>1, <2>1, <2>2, <2>3 DEF Abstract!Heading
  <2>. QED  BY <1>1, <2>1, <2>4
<1>. QED  BY <1>4, <1>5

(* The section that the code cuts out is the one that ObsidianNote means. *)
LEMMA SectionCut ==
  ASSUME NEW lines \in Seq(Lines), NEW head \in DOMAIN lines
  PROVE  /\ SectionEnd(lines, head) \in head + 1 .. Len(lines) + 1
         /\ Abstract!Max({head} \cup Abstract!Section(lines, head)) = SectionEnd(lines, head) - 1
<1>. DEFINE ends == {k \in head + 1 .. Len(lines) : LevelOf[lines[k]] \in 1 .. LevelOf[lines[head]]}
            all == {Len(lines) + 1} \cup ends
            end == SectionEnd(lines, head)
            section == Abstract!Section(lines, head)
<1>1. DOMAIN lines = 1 .. Len(lines) /\ Len(lines) \in Nat /\ head \in 1 .. Len(lines)
  BY LenProperties
<1>2. \A k \in 1 .. Len(lines) : lines[k] \in Lines /\ LevelOf[lines[k]] \in Nat
  BY ConstantsAssumption, ElementOfSeq
<1>3. end \in all /\ \A k \in all : end <= k
  <2>1. all \in SUBSET Nat /\ all # {}
    BY <1>1
  <2>. QED  BY <2>1, MinIsLeast DEF SectionEnd
<1>4. end \in head + 1 .. Len(lines) + 1
  BY <1>1, <1>3
<1>5. section = {k \in head + 1 .. Len(lines) : \A j \in head + 1 .. k : j \notin ends}
  <2>1. ASSUME NEW j \in head + 1 .. Len(lines)
        PROVE  (LevelOf[lines[j]] = 0 \/ LevelOf[lines[j]] > LevelOf[lines[head]]) <=> j \notin ends
    BY <1>1, <1>2
  <2>2. section = {k \in head + 1 .. Len(lines) :
                     \A j \in head + 1 .. k :
                       LevelOf[lines[j]] = 0 \/ LevelOf[lines[j]] > LevelOf[lines[head]]}
    BY DEF Abstract!Section
  <2>3. \A k \in head + 1 .. Len(lines) : \A j \in head + 1 .. k : j \in head + 1 .. Len(lines)
    BY <1>1
  <2>. QED  BY <2>1, <2>2, <2>3
<1>. HIDE DEF ends, end, section
<1>6. \A k \in section : k <= end - 1
  <2>. SUFFICES ASSUME NEW k \in section, end <= k PROVE FALSE
    BY <1>1, <1>4, <1>5
  <2>1. end \in head + 1 .. k /\ k \in head + 1 .. Len(lines)
    BY <1>1, <1>4, <1>5
  <2>2. end \notin ends
    BY <1>5, <2>1
  <2>. QED  BY <1>1, <1>3, <2>1, <2>2
<1>7. end - 1 \in {head} \cup section
  <2>1. CASE end - 1 = head
    BY <2>1
  <2>2. CASE end - 1 # head
    <3>1. end - 1 \in head + 1 .. Len(lines)
      BY <1>1, <1>4, <2>2
    <3>2. \A j \in head + 1 .. end - 1 : j \notin ends
      BY <1>1, <1>3, <1>4
    <3>. QED  BY <1>5, <3>1, <3>2
  <2>. QED  BY <2>1, <2>2
<1>8. Abstract!Max({head} \cup section) = end - 1
  <2>1. {head} \cup section \in SUBSET Nat
    BY <1>1, <1>5
  <2>2. \A y \in {head} \cup section : y <= end - 1
    BY <1>1, <1>4, <1>6
  <2>. QED  BY <1>7, <2>1, <2>2, MaxIsGreatest
<1>. QED  BY <1>4, <1>8 DEF end, section

(* A part of a text is a sequence of its lines. *)
LEMMA PartOfText ==
  ASSUME NEW lines \in Seq(Lines), NEW m \in Nat, NEW n \in Int, m >= 1, n <= Len(lines)
  PROVE  SubSeq(lines, m, n) \in Seq(Lines)
<1>1. \A i \in m .. n : lines[i] \in Lines
  BY ElementOfSeq, LenProperties
<1>. QED  BY <1>1, SubSeqProperties

(* The lines that are put together from two parts and something between. *)
LEMMA PutTogether ==
  ASSUME NEW a \in Seq(Lines), NEW b \in Texts, NEW c \in Seq(Lines)
  PROVE  a \o b \o c \in Texts
<1>1. a \o b \in Seq(Lines) /\ a \o b \o c \in Seq(Lines)
  BY ConcatProperties DEF Texts
<1>2. Len(b) >= 1
  BY EmptySeq DEF Texts
<1>3. Len(a \o b \o c) >= 1
  BY <1>1, <1>2, ConcatProperties, LenProperties DEF Texts
<1>. QED  BY <1>1, <1>3, EmptySeq DEF Texts

(* The patch of the code is the patch that ObsidianNote means: whatever the   *)
(* note holds, nothing but the section of the heading is changed.             *)
THEOREM PatchIsAbstract ==
  ASSUME NEW lines \in Seq(Lines), NEW c \in Calls, c.op # "write",
         HeadingIdx(lines, c.heading) # 0
  PROVE  /\ PatchedLines(lines, c) = Abstract!Patched(lines, c)
         /\ PatchedLines(lines, c) \in Texts
<1>. DEFINE head == HeadingIdx(lines, c.heading)
            end == SectionEnd(lines, head)
<1>1. head \in DOMAIN lines /\ head = Abstract!Heading(lines, c.heading)
  BY HeadingFound
<1>2. DOMAIN lines = 1 .. Len(lines) /\ Len(lines) \in Nat
  BY LenProperties
<1>3. /\ end \in head + 1 .. Len(lines) + 1
      /\ Abstract!Max({head} \cup Abstract!Section(lines, head)) = end - 1
  BY <1>1, SectionCut
<1>4. PatchedLines(lines, c) =
        SubSeq(lines, 1, IF c.op = "replace" THEN head ELSE end - 1)
          \o c.lines \o SubSeq(lines, end, Len(lines))
  BY DEF PatchedLines
<1>5. Abstract!Patched(lines, c) =
        SubSeq(lines, 1, IF c.op = "replace" THEN head ELSE end - 1)
          \o c.lines \o SubSeq(lines, end - 1 + 1, Len(lines))
  BY <1>1, <1>3 DEF Abstract!Patched
<1>. HIDE DEF head, end
<1>6. end - 1 + 1 = end
  BY <1>1, <1>2, <1>3
<1>7. PatchedLines(lines, c) \in Texts
  <2>1. c.lines \in Texts
    BY ConstantsAssumption DEF Texts
  <2>2. SubSeq(lines, 1, IF c.op = "replace" THEN head ELSE end - 1) \in Seq(Lines)
    BY <1>1, <1>2, <1>3, PartOfText
  <2>3. SubSeq(lines, end, Len(lines)) \in Seq(Lines)
    BY <1>1, <1>2, <1>3, PartOfText
  <2>. QED  BY <1>4, <2>1, <2>2, <2>3, PutTogether
<1>. QED  BY <1>4, <1>5, <1>6, <1>7

(* A file that is written over holds lines. *)
LEMMA OverwrittenTyped ==
  ASSUME NEW new \in Texts, NEW old \in Texts
  PROVE  Overwritten(new, old) \subseteq Texts
<1>1. ASSUME NEW glued \in Lines, NEW i \in 2 .. Len(old) + 1
      PROVE  Front(new) \o <<glued>> \o SubSeq(old, i, Len(old)) \in Texts
  <2>1. Len(new) \in Nat /\ Len(old) \in Nat
    BY LenProperties DEF Texts
  <2>2. Front(new) \in Seq(Lines)
    BY <2>1, PartOfText DEF Front, Texts
  <2>3. SubSeq(old, i, Len(old)) \in Seq(Lines)
    BY <2>1, PartOfText DEF Texts
  <2>4. <<glued>> \in Texts
    BY DEF Texts
  <2>. QED  BY <2>2, <2>3, <2>4, PutTogether
<1>. SUFFICES ASSUME NEW x \in Overwritten(new, old), x # new PROVE x \in Texts
  OBVIOUS
<1>2. PICK glued \in Lines, i \in 2 .. Len(old) + 1 : x = WithTail(new, old, glued, i)
  BY DEF Overwritten
<1>. QED  BY <1>1, <1>2 DEF WithTail
-----------------------------------------------------------------------------
(* The calls.                                                              *)

\* What the refinement shows of the note.
Content == IF \E s \in Slots : pc[s] = "truncated" THEN before ELSE Note

\* As long as no two calls have overlapped, one slot at most is at work; and
\* without faults it writes what ObsidianNote says of some call.
CallInv ==
  ~raced =>
    /\ \A s, t \in Slots : pc[s] # "idle" /\ pc[t] # "idle" => s = t
    /\ faults = 0 => \A s \in Slots : pc[s] # "idle" =>
         /\ \E c \in Calls : Abstract!Result(Content, c) = [there |-> TRUE, lines |-> text[s]]
         /\ pc[s] = "truncated" => note = Empty /\ there

VaultInv == TypeOK /\ CallInv

(* No call is under way at first. *)
LEMMA VaultInit == Init => VaultInv
<1>. SUFFICES ASSUME Init PROVE VaultInv
  OBVIOUS
<1>1. Empty \in Texts
  BY ConstantsAssumption DEF Empty, Texts
<1>2. note \in Texts /\ start \in Starts
  BY <1>1, ConstantsAssumption DEF Init, Texts
<1>3. TypeOK
  <2>1. text \in [Slots -> Texts] /\ pc \in [Slots -> {"idle", "ready", "truncated"}]
    BY <1>1 DEF Init
  <2>2. before \in [there : BOOLEAN, lines : Texts] /\ there \in BOOLEAN
    BY <1>2 DEF Init, Note
  <2>3. made \in 0 .. MaxCalls /\ faults \in 0 .. MaxFaults
    BY ConstantsAssumption DEF Init
  <2>. QED  BY <1>2, <2>1, <2>2, <2>3 DEF Init, TypeOK, Texts
<1>4. CallInv
  BY DEF Init, CallInv
<1>. QED  BY <1>3, <1>4 DEF VaultInv

(* A note with other lines. *)
LEMMA RewrittenNote ==
  ASSUME NEW n \in [there : BOOLEAN, lines : Texts], NEW lines \in Texts
  PROVE  [n EXCEPT !.lines = lines] = [there |-> n.there, lines |-> lines]
OBVIOUS

(* A call that is begun while no other is under way has the lines that         *)
(* ObsidianNote asks of it.                                                    *)
LEMMA PrepareKeeps ==
  ASSUME VaultInv, NEW s \in Slots, NEW c \in Calls, NEW lines \in Texts,
         Begins(s), Prepare(s, c, lines), UNCHANGED <<there, note, faults, start, before>>,
         Abstract!Result(Note, c) = [there |-> TRUE, lines |-> lines]
  PROVE  VaultInv'
<1>1. TypeOK /\ CallInv
  BY DEF VaultInv
<1>2. pc[s] = "idle" /\ made' = made + 1 /\ made < MaxCalls
  BY DEF Begins
<1>3. /\ pc' = [pc EXCEPT ![s] = "ready"] /\ text' = [text EXCEPT ![s] = lines]
      /\ raced' = (raced \/ ~Quiet) /\ rewritten' \in BOOLEAN
  BY <1>1 DEF Prepare, TypeOK
<1>4. TypeOK'
  <2>1. made' \in 0 .. MaxCalls
    BY <1>1, <1>2, ConstantsAssumption DEF TypeOK
  <2>2. pc' \in [Slots -> {"idle", "ready", "truncated"}] /\ text' \in [Slots -> Texts]
    BY <1>1, <1>3 DEF TypeOK, Texts
  <2>3. raced' \in BOOLEAN
    BY <1>3 DEF TypeOK
  <2>. QED  BY <1>1, <1>3, <2>1, <2>2, <2>3 DEF TypeOK, Texts
<1>5. CallInv'
  <2>. SUFFICES ASSUME ~raced' PROVE CallInv'
    BY DEF CallInv
  <2>1. ~raced /\ \A t \in Slots : pc[t] = "idle"
    BY <1>3 DEF Quiet
  <2>2. pc'[s] = "ready" /\ text'[s] = lines /\ \A t \in Slots : t # s => pc'[t] = "idle"
    BY <1>1, <1>3, <2>1 DEF TypeOK
  <2>3. Content' = Note /\ Note' = Note
    BY <2>2 DEF Content, Note
  <2>4. Abstract!Result(Content', c) = [there |-> TRUE, lines |-> text'[s]]
    BY <2>2, <2>3
  <2>. QED  BY <2>2, <2>4 DEF CallInv
<1>. QED  BY <1>4, <1>5 DEF VaultInv

(* Every step keeps the invariant. *)
LEMMA VaultStep == VaultInv /\ [Next]_vars => VaultInv'
<1>. SUFFICES ASSUME VaultInv, [Next]_vars PROVE VaultInv'
  OBVIOUS
<1>1. TypeOK /\ CallInv /\ note \in Texts /\ note \in Seq(Lines)
  BY DEF VaultInv, TypeOK, Texts
<1>2. ASSUME NEW s \in Slots, NEW c \in Calls, WriteNote(s, c) PROVE VaultInv'
  <2>1. c.lines \in Texts
    BY ConstantsAssumption DEF Texts
  <2>2. Abstract!Result(Note, c) = [there |-> TRUE, lines |-> c.lines]
    BY <1>2 DEF WriteNote, Abstract!Result
  <2>. QED  BY <1>2, <2>1, <2>2, PrepareKeeps DEF WriteNote
<1>3. ASSUME NEW s \in Slots, NEW c \in Calls, PatchNote(s, c) PROVE VaultInv'
  <2>1. CASE there /\ HeadingIdx(note, c.heading) # 0
    <3>1. /\ c.op # "write" /\ Begins(s) /\ Prepare(s, c, PatchedLines(note, c))
          /\ UNCHANGED <<there, note, faults, start, before>>
      BY <1>3, <2>1 DEF PatchNote
    <3>2. /\ PatchedLines(note, c) = Abstract!Patched(note, c)
          /\ PatchedLines(note, c) \in Texts
      BY <1>1, <2>1, <3>1, PatchIsAbstract
    <3>3. \E i \in DOMAIN note : note[i] = c.heading
      BY <1>1, <2>1, HeadingFound
    <3>4. Abstract!Result(Note, c) = [Note EXCEPT !.lines = Abstract!Patched(note, c)]
      BY <2>1, <3>1, <3>3 DEF Abstract!Result, Note
    <3>5. [Note EXCEPT !.lines = Abstract!Patched(note, c)]
            = [there |-> TRUE, lines |-> PatchedLines(note, c)]
      <4>1. Note \in [there : BOOLEAN, lines : Texts] /\ Note.there = TRUE
        BY <1>1, <2>1 DEF TypeOK, Note
      <4>2. [Note EXCEPT !.lines = PatchedLines(note, c)]
              = [there |-> Note.there, lines |-> PatchedLines(note, c)]
        BY <3>2, <4>1, RewrittenNote
      <4>. QED  BY <3>2, <4>1, <4>2
    <3>. QED  BY <3>1, <3>2, <3>4, <3>5, PrepareKeeps
  <2>2. CASE ~(there /\ HeadingIdx(note, c.heading) # 0)
    <3>1. /\ UNCHANGED <<pc, text, raced, rewritten, there, note, faults, start, before>>
          /\ made' = made + 1 /\ made < MaxCalls
      BY <1>3, <2>2 DEF PatchNote, Begins
    <3>2. TypeOK'
      BY <1>1, <3>1, ConstantsAssumption DEF TypeOK
    <3>3. CallInv'
      BY <1>1, <3>1 DEF CallInv, Content, Note
    <3>. QED  BY <3>2, <3>3 DEF VaultInv
  <2>. QED  BY <2>1, <2>2
<1>4. ASSUME NEW s \in Slots, CallFails(s) PROVE VaultInv'
  <2>1. /\ pc' = [pc EXCEPT ![s] = "idle"] /\ pc[s] = "ready"
        /\ UNCHANGED <<there, note, text, made, faults, start, before, raced, rewritten>>
    BY <1>4 DEF CallFails
  <2>2. TypeOK'
    BY <1>1, <2>1 DEF TypeOK
  <2>3. CallInv'
    <3>. SUFFICES ASSUME ~raced PROVE CallInv'
      BY <2>1 DEF CallInv
    <3>1. \A t \in Slots : pc'[t] = "idle"
      BY <1>1, <2>1 DEF CallInv, TypeOK
    <3>. QED  BY <3>1 DEF CallInv
  <2>. QED  BY <2>2, <2>3 DEF VaultInv
<1>5. ASSUME NEW s \in Slots, OpenFile(s) PROVE VaultInv'
  <2>1. /\ pc' = [pc EXCEPT ![s] = "truncated"] /\ pc[s] = "ready"
        /\ there' = TRUE /\ note' = Empty /\ before' = Note
        /\ UNCHANGED <<text, made, faults, start, raced, rewritten>>
    BY <1>5 DEF OpenFile
  <2>2. TypeOK'
    <3>1. note' \in Texts
      BY <2>1, ConstantsAssumption DEF Empty, Texts
    <3>2. before' \in [there : BOOLEAN, lines : Texts]
      BY <1>1, <2>1 DEF Note, TypeOK
    <3>. QED  BY <1>1, <2>1, <3>1, <3>2 DEF TypeOK, Texts
  <2>3. CallInv'
    <3>. SUFFICES ASSUME ~raced PROVE CallInv'
      BY <2>1 DEF CallInv
    <3>1. \A t \in Slots : t # s => pc[t] = "idle" /\ pc'[t] = "idle"
      BY <1>1, <2>1 DEF CallInv, TypeOK
    <3>2. pc'[s] = "truncated" /\ Content = Note /\ Content' = before'
      BY <1>1, <2>1, <3>1 DEF Content, TypeOK
    <3>3. faults = 0 =>
            \E c \in Calls : Abstract!Result(Content, c) = [there |-> TRUE, lines |-> text[s]]
      BY <1>1, <2>1 DEF CallInv
    <3>4. Content' = Content
      BY <2>1, <3>2
    <3>5. faults = 0 =>
            \E c \in Calls : Abstract!Result(Content', c) = [there |-> TRUE, lines |-> text'[s]]
      BY <2>1, <3>3, <3>4
    <3>. QED  BY <2>1, <3>1, <3>5 DEF CallInv
  <2>. QED  BY <2>2, <2>3 DEF VaultInv
<1>6. ASSUME NEW s \in Slots, FillFile(s) PROVE VaultInv'
  <2>1. /\ pc' = [pc EXCEPT ![s] = "idle"] /\ pc[s] = "truncated"
        /\ note' \in Overwritten(text[s], note)
        /\ UNCHANGED <<there, text, made, faults, start, before, raced, rewritten>>
    BY <1>6 DEF FillFile
  <2>2. TypeOK'
    <3>1. note' \in Texts
      BY <1>1, <2>1, OverwrittenTyped DEF TypeOK, Texts
    <3>. QED  BY <1>1, <2>1, <3>1 DEF TypeOK, Texts
  <2>3. CallInv'
    <3>. SUFFICES ASSUME ~raced PROVE CallInv'
      BY <2>1 DEF CallInv
    <3>1. \A t \in Slots : pc'[t] = "idle"
      BY <1>1, <2>1 DEF CallInv, TypeOK
    <3>. QED  BY <3>1 DEF CallInv
  <2>. QED  BY <2>2, <2>3 DEF VaultInv
<1>7. ASSUME NEW s \in Slots, FillFails(s) PROVE VaultInv'
  <2>1. /\ pc' = [pc EXCEPT ![s] = "idle"] /\ pc[s] = "truncated"
        /\ note' \in {note} \cup UNION {Overwritten(SubSeq(text[s], 1, k), note) :
                                         k \in 1 .. Len(text[s]) - 1}
        /\ UNCHANGED <<there, text, made, start, before, raced, rewritten>>
        /\ faults < MaxFaults /\ faults' = faults + 1
    BY <1>7 DEF FillFails, Fault
  <2>2. TypeOK'
    <3>1. text[s] \in Texts /\ Len(text[s]) \in Nat
      BY <1>1, LenProperties DEF TypeOK, Texts
    <3>2. \A k \in 1 .. Len(text[s]) - 1 : SubSeq(text[s], 1, k) \in Texts
      <4>. SUFFICES ASSUME NEW k \in 1 .. Len(text[s]) - 1 PROVE SubSeq(text[s], 1, k) \in Texts
        OBVIOUS
      <4>1. SubSeq(text[s], 1, k) \in Seq(Lines)
        BY <3>1, PartOfText DEF Texts
      <4>2. \A i \in 1 .. k : text[s][i] \in Lines
        BY <3>1, ElementOfSeq DEF Texts
      <4>3. Len(SubSeq(text[s], 1, k)) = k
        BY <3>1, <4>2, SubSeqProperties
      <4>. QED  BY <3>1, <4>1, <4>3, EmptySeq DEF Texts
    <3>3. note' \in Texts
      BY <1>1, <2>1, <3>2, OverwrittenTyped
    <3>4. faults' \in 0 .. MaxFaults
      BY <1>1, <2>1, ConstantsAssumption DEF TypeOK
    <3>. QED  BY <1>1, <2>1, <3>3, <3>4 DEF TypeOK, Texts
  <2>3. CallInv'
    <3>1. faults' # 0
      BY <1>1, <2>1, ConstantsAssumption DEF TypeOK
    <3>. QED  BY <1>1, <2>1, <3>1 DEF CallInv, TypeOK
  <2>. QED  BY <2>2, <2>3 DEF VaultInv
<1>8. CASE Crash
  <2>1. /\ pc' = [s \in Slots |-> "idle"] /\ faults < MaxFaults /\ faults' = faults + 1
        /\ UNCHANGED <<there, note, text, made, start, before, raced, rewritten>>
    BY <1>8 DEF Crash, Fault
  <2>2. TypeOK'
    BY <1>1, <2>1, ConstantsAssumption DEF TypeOK
  <2>3. CallInv'
    BY <2>1 DEF CallInv
  <2>. QED  BY <2>2, <2>3 DEF VaultInv
<1>9. CASE Done \/ UNCHANGED vars
  <2>1. UNCHANGED vars
    BY <1>9 DEF Done
  <2>2. TypeOK' /\ CallInv'
    BY <1>1, <2>1 DEF vars, TypeOK, CallInv, Content, Note
  <2>. QED  BY <2>2 DEF VaultInv
<1>. QED  BY <1>2, <1>3, <1>4, <1>5, <1>6, <1>7, <1>8, <1>9 DEF Next

(* What VaultInv says holds of every behaviour. *)
LEMMA VaultSound == Spec => []VaultInv
BY VaultInit, VaultStep, PTL DEF Spec

(* Every variable keeps its type: whatever is written over whatever, the note *)
(* is a sequence of at least one line.                                        *)
THEOREM VaultTyped == Spec => []TypeOK
<1>1. VaultInv => TypeOK
  BY DEF VaultInv
<1>. QED  BY <1>1, VaultSound, PTL

(* A step of the code is one of ObsidianNote, or changes nothing of the note. *)
LEMMA VaultSimulates == VaultInv /\ [Next]_vars => [Abstract!Next]_(Abstract!vars)
<1>. SUFFICES ASSUME VaultInv, [Next]_vars PROVE [Abstract!Next]_(Abstract!vars)
  OBVIOUS
<1>. DEFINE exposed == raced \/ faults > 0
<1>1. TypeOK /\ CallInv /\ TypeOK'
  BY VaultStep DEF VaultInv
<1>2. /\ raced \in BOOLEAN /\ raced' \in BOOLEAN /\ faults \in Nat /\ faults' \in Nat
      /\ pc \in [Slots -> {"idle", "ready", "truncated"}]
  BY <1>1, ConstantsAssumption DEF TypeOK
<1>3. CASE exposed'
  BY <1>3 DEF Abstract!Next
<1>4. CASE ~exposed'
  <2>1. ~raced' /\ faults' = 0
    BY <1>2, <1>4
  <2>2. ASSUME NEW s \in Slots, NEW c \in Calls, WriteNote(s, c) \/ PatchNote(s, c)
        PROVE  Content' = Content /\ ~raced /\ faults = 0
    <3>1. CASE Prepare(s, c, c.lines) \/ Prepare(s, c, PatchedLines(note, c))
      <4>1. ~raced /\ faults = 0 /\ \A t \in Slots : pc[t] = "idle"
        BY <2>1, <2>2, <3>1 DEF Prepare, Quiet, WriteNote, PatchNote
      <4>2. \A t \in Slots : pc'[t] # "truncated"
        BY <1>2, <3>1, <4>1 DEF Prepare
      <4>3. Content = Note /\ Content' = Note'
        BY <4>1, <4>2 DEF Content
      <4>4. Note' = Note
        BY <2>2 DEF Note, WriteNote, PatchNote
      <4>. QED  BY <4>1, <4>3, <4>4
    <3>2. CASE UNCHANGED <<pc, raced>>
      BY <2>1, <2>2, <3>2 DEF Content, Note, WriteNote, PatchNote
    <3>. QED  BY <2>2, <3>1, <3>2 DEF WriteNote, PatchNote
  <2>3. ASSUME NEW s \in Slots, CallFails(s)
        PROVE  Content' = Content /\ ~raced /\ faults = 0
    <3>1. ~raced /\ faults = 0 /\ pc[s] = "ready"
      BY <2>1, <2>3 DEF CallFails
    <3>2. \A t \in Slots : pc[t] # "truncated" /\ pc'[t] # "truncated"
      BY <1>1, <1>2, <2>3, <3>1 DEF CallInv, CallFails
    <3>3. Content = Note /\ Content' = Note' /\ Note' = Note
      BY <2>3, <3>2 DEF Content, Note, CallFails
    <3>. QED  BY <3>1, <3>3
  <2>4. ASSUME NEW s \in Slots, OpenFile(s)
        PROVE  Content' = Content /\ ~raced /\ faults = 0
    <3>1. ~raced /\ faults = 0 /\ pc[s] = "ready"
      BY <2>1, <2>4 DEF OpenFile
    <3>2. \A t \in Slots : pc[t] # "truncated"
      BY <1>1, <1>2, <3>1 DEF CallInv
    <3>3. pc'[s] = "truncated" /\ before' = Note
      BY <1>2, <2>4 DEF OpenFile
    <3>4. Content = Note /\ Content' = before'
      BY <3>2, <3>3 DEF Content
    <3>. QED  BY <3>1, <3>3, <3>4
  <2>5. ASSUME NEW s \in Slots, FillFile(s)
        PROVE  ~raced /\ faults = 0 /\ \E c \in Calls : Content' = Abstract!Result(Content, c)
    <3>1. ~raced /\ faults = 0 /\ pc[s] = "truncated"
      BY <2>1, <2>5 DEF FillFile
    <3>2. /\ note = Empty /\ there = TRUE
          /\ \E c \in Calls : Abstract!Result(Content, c) = [there |-> TRUE, lines |-> text[s]]
      BY <1>1, <3>1 DEF CallInv, TypeOK
    <3>3. \A t \in Slots : pc'[t] # "truncated"
      BY <1>1, <1>2, <2>5, <3>1 DEF CallInv, FillFile
    <3>4. note' = text[s] /\ there' = TRUE
      BY <2>5, <3>2 DEF FillFile, Overwritten
    <3>5. Content' = [there |-> TRUE, lines |-> text[s]]
      BY <3>3, <3>4 DEF Content, Note
    <3>. QED  BY <3>1, <3>2, <3>5
  <2>6. ASSUME NEW s \in Slots, FillFails(s) PROVE FALSE
    BY <1>2, <2>1, <2>6 DEF FillFails, Fault
  <2>7. ~Crash
    BY <1>2, <2>1 DEF Crash, Fault
  <2>8. CASE Done \/ UNCHANGED vars
    <3>1. UNCHANGED vars
      BY <2>8 DEF Done
    <3>2. Content' = Content /\ exposed' = exposed
      BY <3>1 DEF vars, Content, Note
    <3>. QED  BY <3>2 DEF Abstract!vars, Content
  <2>9. CASE Content' = Content /\ ~raced /\ faults = 0
    <3>1. exposed' = exposed
      BY <2>1, <2>9
    <3>. QED  BY <2>9, <3>1 DEF Abstract!vars, Content
  <2>10. CASE ~raced /\ faults = 0 /\ \E c \in Calls : Content' = Abstract!Result(Content, c)
    BY <2>10 DEF Abstract!Next, Content
  <2>. QED  BY <2>2, <2>3, <2>4, <2>5, <2>6, <2>7, <2>8, <2>9, <2>10 DEF Next
<1>. QED  BY <1>3, <1>4

(* Calls that neither overlap nor break off take effect at once, as            *)
(* ObsidianNote has it, whatever their number and whatever the note: a patch   *)
(* changes nothing but the section it names.                                   *)
THEOREM VaultImplementsNote == Spec => ImplementsNote
<1>1. Init => Abstract!Init
  BY DEF Init, Abstract!Init
<1>2. VaultInv /\ [Next]_vars => [Abstract!Next]_(Abstract!vars)
  BY VaultSimulates
<1>. QED  BY <1>1, <1>2, VaultSound, PTL DEF Spec, ImplementsNote, Abstract!Spec
-----------------------------------------------------------------------------
(* Racing appends keep the note.                                           *)

\* Each line of old but the last is in new, in order, and not as the last one
\* there, which another write may damage.
Kept(old, new) ==
  \E at \in [1 .. Len(old) - 1 -> 1 .. Len(new) - 1] :
    /\ \A i \in 1 .. Len(old) - 1 : new[at[i]] = old[i]
    /\ \A i, j \in 1 .. Len(old) - 1 : i < j => at[i] < at[j]

\* As long as all changes are appends that do not break off, each slot at work
\* writes a note that has kept the first one, and so has the file, unless it is
\* empty because a slot is about to fill it.
KeepInv ==
  ~rewritten /\ faults = 0 =>
    /\ there \/ Quiet
    /\ \A s \in Slots : pc[s] # "idle" => Kept(start, text[s])
    /\ \/ ~there \/ Kept(start, note)
       \/ note = Empty /\ \E s \in Slots : pc[s] = "truncated"

(* Patched lines, by index: those before the section's end, or up to its      *)
(* heading, then the new ones, then the rest.                                  *)
LEMMA AppendedLines ==
  ASSUME NEW lines \in Seq(Lines), NEW c \in Calls, c.op = "append",
         HeadingIdx(lines, c.heading) # 0
  PROVE  \E end \in 2 .. Len(lines) + 1 : \E n \in Nat \ {0} :
           LET new == PatchedLines(lines, c)
           IN  /\ Len(new) = Len(lines) + n
               /\ \A i \in 1 .. Len(lines) :
                    new[IF i < end THEN i ELSE i + n] = lines[i]
<1>. DEFINE head == HeadingIdx(lines, c.heading)
            end == SectionEnd(lines, head)
            n == Len(c.lines)
            a == SubSeq(lines, 1, end - 1)
            b == SubSeq(lines, end, Len(lines))
            new == PatchedLines(lines, c)
<1>1. head \in 1 .. Len(lines) /\ Len(lines) \in Nat
  BY HeadingFound, LenProperties
<1>2. end \in 2 .. Len(lines) + 1
  <2>1. end \in head + 1 .. Len(lines) + 1
    BY <1>1, HeadingFound, SectionCut
  <2>. QED  BY <1>1, <2>1
<1>3. c.lines \in Seq(Lines) /\ n \in Nat \ {0}
  BY ConstantsAssumption, EmptySeq
<1>4. new = a \o c.lines \o b
  BY DEF PatchedLines
<1>. HIDE DEF end, head
<1>5. /\ a \in Seq(Lines) /\ Len(a) = end - 1 /\ \A i \in 1 .. end - 1 : a[i] = lines[i]
  <2>1. \A i \in 1 .. end - 1 : lines[i] \in Lines
    BY <1>1, <1>2, ElementOfSeq
  <2>2. /\ a \in Seq(Lines)
        /\ Len(a) = IF 1 <= end - 1 THEN end - 1 - 1 + 1 ELSE 0
        /\ \A i \in 1 .. end - 1 - 1 + 1 : a[i] = lines[1 + i - 1]
    BY <1>2, <2>1, SubSeqProperties
  <2>. QED  BY <1>2, <2>2
<1>6. /\ b \in Seq(Lines) /\ Len(b) = Len(lines) + 1 - end
      /\ \A i \in 1 .. Len(lines) + 1 - end : b[i] = lines[end + i - 1]
  <2>1. \A i \in end .. Len(lines) : lines[i] \in Lines
    BY <1>1, <1>2, ElementOfSeq
  <2>2. /\ b \in Seq(Lines)
        /\ Len(b) = IF end <= Len(lines) THEN Len(lines) - end + 1 ELSE 0
        /\ \A i \in 1 .. Len(lines) - end + 1 : b[i] = lines[end + i - 1]
    BY <1>1, <1>2, <2>1, SubSeqProperties
  <2>. QED  BY <1>1, <1>2, <2>2
<1>. HIDE DEF a, b, n
<1>. DEFINE ac == a \o c.lines
<1>7. /\ ac \in Seq(Lines) /\ Len(ac) = end - 1 + n
      /\ \A i \in 1 .. end - 1 : ac[i] = lines[i]
  <2>1. /\ a \o c.lines \in Seq(Lines) /\ Len(a \o c.lines) = Len(a) + Len(c.lines)
        /\ \A i \in 1 .. Len(a) + Len(c.lines) :
             (a \o c.lines)[i] = IF i <= Len(a) THEN a[i] ELSE c.lines[i - Len(a)]
    BY <1>3, <1>5, ConcatProperties
  <2>. QED  BY <1>2, <1>3, <1>5, <2>1 DEF n
<1>8. /\ Len(new) = end - 1 + n + (Len(lines) + 1 - end)
      /\ \A i \in 1 .. end - 1 + n + (Len(lines) + 1 - end) :
           new[i] = IF i <= end - 1 + n THEN ac[i] ELSE b[i - (end - 1 + n)]
  <2>. HIDE DEF ac, new
  <2>1. new = ac \o b
    BY <1>4 DEF ac
  <2>2. /\ Len(ac \o b) = Len(ac) + Len(b)
        /\ \A i \in 1 .. Len(ac) + Len(b) :
             (ac \o b)[i] = IF i <= Len(ac) THEN ac[i] ELSE b[i - Len(ac)]
    BY <1>6, <1>7, ConcatProperties
  <2>. QED  BY <1>6, <1>7, <2>1, <2>2
<1>9. Len(new) = Len(lines) + n
  BY <1>1, <1>2, <1>3, <1>8
<1>10. ASSUME NEW i \in 1 .. Len(lines)
       PROVE  new[IF i < end THEN i ELSE i + n] = lines[i]
  <2>. HIDE DEF new, ac
  <2>1. CASE i < end
    BY <1>1, <1>2, <1>3, <1>7, <1>8, <2>1
  <2>2. CASE ~(i < end)
    <3>1. new[i + n] = b[i + n - (end - 1 + n)]
      BY <1>1, <1>2, <1>3, <1>8, <2>2
    <3>2. i + n - (end - 1 + n) = i + 1 - end /\ i + 1 - end \in 1 .. Len(lines) + 1 - end
      BY <1>1, <1>2, <1>3, <2>2
    <3>3. b[i + 1 - end] = lines[end + (i + 1 - end) - 1] /\ end + (i + 1 - end) - 1 = i
      BY <1>1, <1>2, <1>6, <3>2
    <3>. QED  BY <2>2, <3>1, <3>2, <3>3
  <2>. QED  BY <2>1, <2>2
<1>. QED  BY <1>2, <1>3, <1>9, <1>10

(* So an append keeps what the lines it was given have kept. *)
LEMMA AppendKeeps ==
  ASSUME NEW lines \in Texts, NEW c \in Calls, c.op = "append",
         HeadingIdx(lines, c.heading) # 0, NEW first \in Texts, Kept(first, lines)
  PROVE  Kept(first, PatchedLines(lines, c))
<1>. DEFINE new == PatchedLines(lines, c)
            I == 1 .. Len(first) - 1
<1>1. PICK at \in [I -> 1 .. Len(lines) - 1] :
        /\ \A i \in I : lines[at[i]] = first[i]
        /\ \A i, j \in I : i < j => at[i] < at[j]
  BY DEF Kept
<1>2. PICK end \in 2 .. Len(lines) + 1, n \in Nat \ {0} :
        /\ Len(new) = Len(lines) + n
        /\ \A i \in 1 .. Len(lines) : new[IF i < end THEN i ELSE i + n] = lines[i]
  BY AppendedLines DEF Texts
<1>3. Len(lines) \in Nat
  BY LenProperties DEF Texts
<1>. HIDE DEF new, I
<1>. DEFINE to == [i \in I |-> IF at[i] < end THEN at[i] ELSE at[i] + n]
<1>4. \A i \in I : at[i] \in 1 .. Len(lines) - 1 /\ at[i] \in 1 .. Len(lines)
  BY <1>1, <1>3
<1>5. to \in [I -> 1 .. Len(new) - 1]
  BY <1>2, <1>3, <1>4
<1>6. \A i \in I : new[to[i]] = first[i]
  BY <1>1, <1>2, <1>4
<1>7. I \subseteq Int
  BY DEF I
<1>8. ASSUME NEW i \in I, NEW j \in I, i < j PROVE to[i] < to[j]
  BY <1>1, <1>2, <1>4, <1>8
<1>. QED  BY <1>5, <1>6, <1>8 DEF Kept, I, new

(* All lines but the last. *)
LEMMA FrontLines ==
  ASSUME NEW lines \in Seq(Lines), Len(lines) >= 1
  PROVE  /\ Front(lines) \in Seq(Lines) /\ Len(Front(lines)) = Len(lines) - 1
         /\ DOMAIN Front(lines) = 1 .. Len(lines) - 1
         /\ \A i \in 1 .. Len(lines) - 1 : Front(lines)[i] = lines[i]
<1>1. Len(lines) \in Nat /\ \A i \in 1 .. Len(lines) - 1 : lines[i] \in Lines
  BY LenProperties, ElementOfSeq
<1>2. /\ Front(lines) \in Seq(Lines)
      /\ Len(Front(lines)) = IF 1 <= Len(lines) - 1 THEN Len(lines) - 1 - 1 + 1 ELSE 0
      /\ \A i \in 1 .. Len(lines) - 1 - 1 + 1 : Front(lines)[i] = lines[1 + i - 1]
  BY <1>1, SubSeqProperties DEF Front
<1>3. Len(Front(lines)) = Len(lines) - 1
  <2>. DEFINE n == Len(lines)
              m == Len(Front(lines))
  <2>1. n \in Nat /\ n >= 1 /\ m = IF 1 <= n - 1 THEN n - 1 - 1 + 1 ELSE 0
    BY <1>1, <1>2
  <2>. HIDE DEF n, m
  <2>2. m = n - 1
    BY <2>1
  <2>. QED  BY <2>2 DEF n, m
<1>. QED  BY <1>1, <1>2, <1>3, LenProperties

(* What is written over a file keeps what it has kept itself. *)
LEMMA OverwriteKeeps ==
  ASSUME NEW new \in Texts, NEW old \in Texts, NEW lines \in Overwritten(new, old),
         NEW first \in Texts, Kept(first, new)
  PROVE  Kept(first, lines)
<1>1. CASE lines = new
  BY <1>1
<1>2. CASE lines # new
  <2>1. PICK glued \in Lines, k \in 2 .. Len(old) + 1 : lines = WithTail(new, old, glued, k)
    BY <1>2 DEF Overwritten
  <2>. DEFINE a == Front(new) \o <<glued>>
              b == SubSeq(old, k, Len(old))
  <2>2. lines = a \o b
    BY <2>1 DEF WithTail
  <2>3. Len(new) \in Nat /\ Len(new) >= 1 /\ Len(old) \in Nat /\ new \in Seq(Lines)
    BY LenProperties, EmptySeq DEF Texts
  <2>4. /\ Front(new) \in Seq(Lines) /\ Len(Front(new)) = Len(new) - 1
        /\ \A i \in 1 .. Len(new) - 1 : Front(new)[i] = new[i]
    BY <2>3, FrontLines
  <2>5. /\ <<glued>> \in Seq(Lines) /\ Len(<<glued>>) = 1
    OBVIOUS
  <2>6. /\ a \in Seq(Lines) /\ Len(a) = Len(new)
        /\ \A i \in 1 .. Len(new) - 1 : a[i] = new[i]
    <3>1. /\ a \in Seq(Lines) /\ Len(a) = Len(Front(new)) + Len(<<glued>>)
          /\ \A i \in 1 .. Len(Front(new)) + Len(<<glued>>) :
               a[i] = IF i <= Len(Front(new)) THEN Front(new)[i]
                      ELSE <<glued>>[i - Len(Front(new))]
      BY <2>4, <2>5, ConcatProperties
    <3>. QED  BY <2>3, <2>4, <2>5, <3>1
  <2>7. b \in Seq(Lines) /\ Len(b) \in Nat
    BY <2>3, PartOfText, LenProperties DEF Texts
  <2>. HIDE DEF a, b
  <2>8. /\ Len(lines) = Len(new) + Len(b)
        /\ \A i \in 1 .. Len(new) - 1 : lines[i] = new[i]
    <3>1. /\ Len(a \o b) = Len(a) + Len(b)
          /\ \A i \in 1 .. Len(a) + Len(b) :
               (a \o b)[i] = IF i <= Len(a) THEN a[i] ELSE b[i - Len(a)]
      BY <2>6, <2>7, ConcatProperties
    <3>. QED  BY <2>2, <2>3, <2>6, <2>7, <3>1
  <2>9. PICK at \in [1 .. Len(first) - 1 -> 1 .. Len(new) - 1] :
          /\ \A i \in 1 .. Len(first) - 1 : new[at[i]] = first[i]
          /\ \A i, j \in 1 .. Len(first) - 1 : i < j => at[i] < at[j]
    BY DEF Kept
  <2>10. at \in [1 .. Len(first) - 1 -> 1 .. Len(lines) - 1]
    BY <2>3, <2>7, <2>8, <2>9
  <2>11. \A i \in 1 .. Len(first) - 1 : lines[at[i]] = first[i]
    BY <2>8, <2>9
  <2>. QED  BY <2>9, <2>10, <2>11 DEF Kept
<1>. QED  BY <1>1, <1>2

(* The first note has kept itself. *)
LEMMA KeptAtFirst == Init => Kept(start, start) /\ start \in Texts
<1>. SUFFICES ASSUME Init PROVE Kept(start, start) /\ start \in Texts
  OBVIOUS
<1>1. start \in Texts
  BY ConstantsAssumption DEF Init, Texts
<1>2. Len(start) \in Nat
  BY <1>1, LenProperties DEF Texts
<1>3. [i \in 1 .. Len(start) - 1 |-> i] \in [1 .. Len(start) - 1 -> 1 .. Len(start) - 1]
  OBVIOUS
<1>. QED  BY <1>1, <1>2, <1>3 DEF Kept

LEMMA KeepInit == Init => KeepInv
<1>. SUFFICES ASSUME Init PROVE KeepInv
  OBVIOUS
<1>1. Kept(start, start)
  BY KeptAtFirst
<1>2. ~there \/ note = start
  BY DEF Init
<1>3. \A s \in Slots : pc[s] = "idle"
  BY DEF Init
<1>. QED  BY <1>1, <1>2, <1>3 DEF KeepInv, Quiet

(* Kept speaks of the first note, which never changes. *)
LEMMA StartStays == [Next]_vars => start' = start
BY DEF Next, WriteNote, PatchNote, CallFails, OpenFile, FillFile, FillFails, Crash, Done, vars

(* Every step keeps the note. *)
LEMMA KeepStep == TypeOK /\ KeepInv /\ [Next]_vars => KeepInv'
<1>. SUFFICES ASSUME TypeOK, KeepInv, [Next]_vars, ~rewritten', faults' = 0 PROVE KeepInv'
  BY DEF KeepInv
<1>1. /\ start' = start /\ start \in Texts /\ note \in Texts
      /\ pc \in [Slots -> {"idle", "ready", "truncated"}] /\ text \in [Slots -> Texts]
  BY StartStays, ConstantsAssumption DEF TypeOK, Texts
<1>2. ~rewritten /\ faults = 0 => /\ there \/ Quiet
                                 /\ \A s \in Slots : pc[s] # "idle" => Kept(start, text[s])
  BY DEF KeepInv
<1>3. ASSUME NEW s \in Slots, NEW c \in Calls, WriteNote(s, c) PROVE KeepInv'
  BY <1>3 DEF WriteNote, Prepare
<1>4. ASSUME NEW s \in Slots, NEW c \in Calls, PatchNote(s, c) PROVE KeepInv'
  <2>1. CASE there /\ HeadingIdx(note, c.heading) # 0
    <3>1. /\ c.op = "append" /\ c.heading # Blank /\ ~rewritten /\ faults = 0
          /\ pc' = [pc EXCEPT ![s] = "ready"] /\ pc[s] = "idle"
          /\ text' = [text EXCEPT ![s] = PatchedLines(note, c)]
          /\ UNCHANGED <<there, note>>
      BY <1>4, <2>1 DEF PatchNote, Prepare, Begins
    <3>2. note # Empty
      <4>1. PICK i \in DOMAIN note : note[i] = c.heading
        BY <1>1, <2>1, HeadingFound DEF Texts
      <4>. QED  BY <3>1, <4>1 DEF Empty
    <3>3. Kept(start, note)
      BY <2>1, <3>1, <3>2 DEF KeepInv
    <3>4. Kept(start, PatchedLines(note, c))
      BY <1>1, <2>1, <3>1, <3>3, AppendKeeps
    <3>5. \A t \in Slots : pc'[t] # "idle" => Kept(start', text'[t])
      BY <1>1, <1>2, <3>1, <3>4
    <3>. QED  BY <1>1, <2>1, <3>1, <3>3, <3>5 DEF KeepInv
  <2>2. CASE ~(there /\ HeadingIdx(note, c.heading) # 0)
    <3>1. UNCHANGED <<pc, text, rewritten, there, note, faults>>
      BY <1>4, <2>2 DEF PatchNote
    <3>. QED  BY <1>1, <3>1 DEF KeepInv, Quiet
  <2>. QED  BY <2>1, <2>2
<1>5. ASSUME NEW s \in Slots, CallFails(s) PROVE KeepInv'
  <2>1. /\ pc[s] = "ready" /\ pc' = [pc EXCEPT ![s] = "idle"]
        /\ UNCHANGED <<there, note, text, faults, rewritten>>
    BY <1>5 DEF CallFails
  <2>2. there' \/ Quiet'
    BY <1>1, <1>2, <2>1 DEF Quiet
  <2>3. \A t \in Slots : pc'[t] # "idle" => Kept(start', text'[t])
    BY <1>1, <1>2, <2>1
  <2>4. \A t \in Slots : pc[t] = "truncated" => pc'[t] = "truncated"
    BY <1>1, <2>1
  <2>. QED  BY <1>1, <2>1, <2>2, <2>3, <2>4 DEF KeepInv
<1>6. ASSUME NEW s \in Slots, OpenFile(s) PROVE KeepInv'
  <2>1. /\ pc[s] = "ready" /\ pc' = [pc EXCEPT ![s] = "truncated"]
        /\ there' = TRUE /\ note' = Empty
        /\ UNCHANGED <<text, faults, rewritten>>
    BY <1>6 DEF OpenFile
  <2>2. \A t \in Slots : pc'[t] # "idle" => Kept(start', text'[t])
    BY <1>1, <1>2, <2>1
  <2>3. pc'[s] = "truncated"
    BY <1>1, <2>1
  <2>. QED  BY <2>1, <2>2, <2>3 DEF KeepInv
<1>7. ASSUME NEW s \in Slots, FillFile(s) PROVE KeepInv'
  <2>1. /\ pc[s] = "truncated" /\ pc' = [pc EXCEPT ![s] = "idle"]
        /\ note' \in Overwritten(text[s], note)
        /\ UNCHANGED <<there, text, faults, rewritten>>
    BY <1>7 DEF FillFile
  <2>2. there' /\ Kept(start, text[s])
    BY <1>2, <2>1 DEF Quiet
  <2>3. Kept(start', note')
    BY <1>1, <2>1, <2>2, OverwriteKeeps
  <2>4. \A t \in Slots : pc'[t] # "idle" => Kept(start', text'[t])
    BY <1>1, <1>2, <2>1
  <2>. QED  BY <2>2, <2>3, <2>4 DEF KeepInv
<1>8. ~Fault
  BY DEF Fault, TypeOK
<1>9. CASE Done \/ UNCHANGED vars
  BY <1>9 DEF Done, vars, KeepInv, Quiet
<1>. QED  BY <1>3, <1>4, <1>5, <1>6, <1>7, <1>8, <1>9 DEF Next, FillFails, Crash

(* Appends that race with each other never cost the note: between two of      *)
(* them, each line that was in it at first is still there, in order, for any  *)
(* note, any appends and any number of slots.                                 *)
THEOREM AppendsAreSafe == Spec => []AppendsKeepTheNote
<1>1. ASSUME TypeOK, KeepInv PROVE AppendsKeepTheNote
  <2>. SUFFICES ASSUME Quiet, there, ~rewritten, faults = 0 PROVE Within(Front(start), note)
    BY DEF AppendsKeepTheNote
  <2>1. start \in Seq(Lines) /\ Len(start) \in Nat /\ Len(start) >= 1
    BY <1>1, ConstantsAssumption, LenProperties, EmptySeq DEF TypeOK
  <2>2. note \in Seq(Lines) /\ Len(note) \in Nat /\ DOMAIN note = 1 .. Len(note)
    BY <1>1, LenProperties DEF TypeOK
  <2>3. /\ DOMAIN Front(start) = 1 .. Len(start) - 1
        /\ \A i \in 1 .. Len(start) - 1 : Front(start)[i] = start[i]
    BY <2>1, FrontLines
  <2>4. PICK at \in [1 .. Len(start) - 1 -> 1 .. Len(note) - 1] :
          /\ \A i \in 1 .. Len(start) - 1 : note[at[i]] = start[i]
          /\ \A i, j \in 1 .. Len(start) - 1 : i < j => at[i] < at[j]
    BY <1>1 DEF KeepInv, Quiet, Kept
  <2>5. at \in [1 .. Len(start) - 1 -> 1 .. Len(note)]
    BY <2>2, <2>4
  <2>. QED  BY <2>2, <2>3, <2>4, <2>5 DEF Within
<1>2. TypeOK /\ KeepInv /\ [Next]_vars => KeepInv'
  BY KeepStep
<1>. QED  BY <1>1, <1>2, KeepInit, VaultTyped, PTL DEF Spec

=============================================================================
