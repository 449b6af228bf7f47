-------------------------- MODULE DispatcherProofs --------------------------
(***************************************************************************)
(* Theorems about Dispatcher, for every set of turns and processes, every  *)
(* Concurrency, every token budget and every bound on faults.              *)
(***************************************************************************)
EXTENDS Dispatcher, TLAPS, FiniteSetTheorems, SequenceTheorems,
        WellFoundedInduction

(* The least element of a non-empty set of naturals, from WFMin.           *)
LEMMA LeastNatural ==
  ASSUME NEW T, T \subseteq Nat, T # {}
  PROVE  \E k \in T : \A j \in T : k <= j
<1>. DEFINE Less == {ss \in Nat \X Nat : ss[1] < ss[2]}
<1>1. IsWellFoundedOn(Less, Nat)
  BY NatLessThanWellFounded DEF OpToRel
<1>2. PICK k \in T : \A j \in T : <<j, k>> \notin Less
  <2>. HIDE DEF Less
  <2>. QED  BY <1>1, WFMin
<1>3. ASSUME NEW j \in T, ~ (k <= j) PROVE FALSE
  <2>1. j \in Nat /\ k \in Nat /\ j < k
    BY <1>3
  <2>2. <<j, k>> \in Less
    BY <2>1, Z3
  <2>. QED  BY <1>2, <2>2
<1>. QED  BY <1>3

(* Prune returns what is left of its argument when some number of the      *)
(* oldest turns is dropped.                                                *)
LEMMA PruneIsTail ==
  ASSUME NEW h \in Seq(Turns)
  PROVE  \E k \in 0 .. Len(h) : Prune(h) = SubSeq(h, k + 1, Len(h))
<1>1. CASE Fits(h) = {}
  <2>1. Prune(h) = <<>>
    BY <1>1 DEF Prune
  <2>2. SubSeq(h, Len(h) + 1, Len(h)) = <<>>
    BY SubSeqEmpty
  <2>. QED  BY <2>1, <2>2
<1>2. CASE Fits(h) # {}
  <2>. DEFINE k == CHOOSE k \in Fits(h) : \A j \in Fits(h) : k <= j
  <2>1. Fits(h) \subseteq 0 .. Len(h)
    BY DEF Fits
  <2>2. k \in Fits(h)
    BY <1>2, <2>1, LeastNatural
  <2>3. Prune(h) = SubSeq(h, k + 1, Len(h))
    BY <1>2 DEF Prune
  <2>. QED  BY <2>1, <2>2, <2>3
<1>. QED  BY <1>1, <1>2

(* Pruning a history of turns gives one. *)
LEMMA PruneType ==
  ASSUME NEW h \in Seq(Turns)
  PROVE  Prune(h) \in Seq(Turns)
<1>1. PICK k \in 0 .. Len(h) : Prune(h) = SubSeq(h, k + 1, Len(h))
  BY PruneIsTail
<1>2. \A i \in k + 1 .. Len(h) : h[i] \in Turns
  OBVIOUS
<1>3. SubSeq(h, k + 1, Len(h)) \in Seq(Turns)
  BY <1>2, SubSeqProperties
<1>. QED  BY <1>1, <1>3
-----------------------------------------------------------------------------
(* Every reachable state is well typed.  Type of the variables of          *)
(* dispatcher.go (pc, view, reply, sem) and of the file of history.go.     *)
LEMMA TypeStep == TypeOK /\ [Next]_vars => TypeOK'
<1>. SUFFICES ASSUME TypeOK, [Next]_vars PROVE TypeOK'
  OBVIOUS
<1>. USE ConstantsAssumption DEF TypeOK, Places, Replies
<1>1. ASSUME NEW t \in Turns, Arrive(t) PROVE TypeOK'
  BY <1>1 DEF Arrive, At, Goto, Answer
<1>2. ASSUME NEW t \in Turns, Acquire(t) PROVE TypeOK'
  BY <1>2 DEF Acquire, At, Goto
<1>3. ASSUME NEW t \in Turns, Cancel(t) PROVE TypeOK'
  BY <1>3 DEF Cancel, At, Goto, Answer
<1>4. ASSUME NEW t \in Turns, LoadHistory(t) PROVE TypeOK'
  <2>1. Parsed \in Seq(Turns) /\ <<>> \in Seq(Turns)
    BY DEF FileStates, Parsed
  <2>2. view' \in [Turns -> Seq(Turns)]
    BY <1>4, <2>1 DEF LoadHistory
  <2>3. faults' \in 0 .. MaxFaults
    BY <1>4 DEF LoadHistory, Fault
  <2>. QED  BY <1>4, <2>2, <2>3 DEF LoadHistory, Goto
<1>5. ASSUME NEW t \in Turns, ModelAnswers(t) PROVE TypeOK'
  BY <1>5 DEF ModelAnswers, At, Goto
<1>6. ASSUME NEW t \in Turns, ModelFails(t) PROVE TypeOK'
  BY <1>6 DEF ModelFails, At, Goto, Answer
<1>7. ASSUME NEW t \in Turns, OpenTruncate(t) PROVE TypeOK'
  <2>1. Torn \in FileStates /\ Torn.msgs = <<>>
    BY DEF Torn, FileStates
  <2>2. CASE Goto(t, "writing") /\ file' = Torn /\ UNCHANGED <<reply, faults>>
    BY <1>7, <2>1, <2>2 DEF OpenTruncate, Goto
  <2>3. CASE Goto(t, "leaving") /\ Answer(t, "ok") /\ UNCHANGED file /\ Fault
    BY <1>7, <2>3 DEF OpenTruncate, Goto, Answer, Fault
  <2>. QED  BY <1>7, <2>2, <2>3 DEF OpenTruncate
<1>8. ASSUME NEW t \in Turns, WriteFile(t) PROVE TypeOK'
  <2>1. Updated(t) \in Seq(Turns)
    <3>1. Append(view[t], t) \in Seq(Turns)
      OBVIOUS
    <3>. QED  BY <3>1, PruneType DEF Updated
  <2>2. /\ Whole(Updated(t)) \in FileStates
        /\ Whole(Updated(t)).kind = "whole"
        /\ Mixed \in FileStates
        /\ Mixed.msgs = <<>>
    BY <2>1 DEF Whole, Mixed, FileStates
  <2>3. file' \in {file, Mixed, Whole(Updated(t))}
    BY <1>8 DEF WriteFile, Overwrite
  <2>4. faults' \in 0 .. MaxFaults
    BY <1>8 DEF WriteFile, Fault
  <2>. QED  BY <1>8, <2>2, <2>3, <2>4 DEF WriteFile, Goto, Answer
<1>9. ASSUME NEW t \in Turns, Return(t) PROVE TypeOK'
  BY <1>9 DEF Return, At, Goto
<1>10. ASSUME NEW p \in Procs, Crash(p) PROVE TypeOK'
  BY <1>10 DEF Crash, Fault
<1>11. ASSUME NEW p \in Procs, Restart(p) PROVE TypeOK'
  BY <1>11 DEF Restart
<1>12. CASE Idle \/ UNCHANGED vars
  BY <1>12 DEF Idle, vars
<1>. QED  BY <1>1, <1>2, <1>3, <1>4, <1>5, <1>6, <1>7, <1>8, <1>9, <1>10, <1>11, <1>12
          DEF Next, Step

(* Every reachable state of the dispatcher is well typed.                  *)
THEOREM TypeCorrect == Spec => []TypeOK
<1>1. Init => TypeOK
  <2>1. Absent \in FileStates /\ Absent.msgs = <<>>
    BY DEF Absent, FileStates
  <2>2. Init => overlapped \in BOOLEAN
    BY DEF Init
  <2>3. Init => faults \in 0 .. MaxFaults
    BY ConstantsAssumption DEF Init
  <2>. QED  BY <2>1, <2>2, <2>3, ConstantsAssumption DEF Init, TypeOK, Places, Replies
<1>. QED  BY <1>1, TypeStep, PTL DEF Spec
-----------------------------------------------------------------------------
(* The semaphore of NewDispatcher and its acquisition and deferred release *)
(* in Dispatch count exactly the turns in between.                         *)

SemInv ==
  /\ \A p \in Procs : IsFiniteSet(Holders(p))
  /\ SemaphoreExact

(* At first nobody holds a slot. *)
LEMMA SemInit == Init => SemInv
<1>. SUFFICES ASSUME Init PROVE SemInv
  OBVIOUS
<1>1. \A p \in Procs : Holders(p) = {} /\ sem[p] = 0
  BY DEF Init, Holders, Holding
<1>. QED  BY <1>1, FS_EmptySet, ConstantsAssumption DEF SemInv, SemaphoreExact

(* A step that moves one turn within, or outside, the guarded part.        *)
LEMMA SameHolders ==
  ASSUME TypeOK, NEW t \in Turns, NEW x, Goto(t, x),
         pc[t] \in Holding <=> x \in Holding
  PROVE  \A p \in Procs : Holders(p)' = Holders(p)
BY DEF TypeOK, Goto, Holders

(* Every step keeps the semaphore of each process exact. *)
LEMMA SemStep == TypeOK /\ SemInv /\ [Next]_vars => SemInv'
<1>. SUFFICES ASSUME TypeOK, SemInv, [Next]_vars PROVE SemInv'
  OBVIOUS
<1>. DEFINE Same == sem' = sem /\ \A p \in Procs : Holders(p)' = Holders(p)
<1>0. ASSUME Same PROVE SemInv'
  BY <1>0 DEF SemInv, SemaphoreExact
<1>. HIDE DEF Same
<1>1. ASSUME NEW t \in Turns, Acquire(t) PROVE SemInv'
  <2>. DEFINE q == ProcOf[t]
  <2>1. q \in Procs /\ t \notin Holders(q) /\ sem[q] < Concurrency
    BY <1>1, ConstantsAssumption DEF Acquire, At, Holders, Holding
  <2>2. Holders(q)' = Holders(q) \cup {t}
    BY <1>1 DEF Acquire, Goto, Holders, Holding, TypeOK
  <2>3. \A p \in Procs \ {q} : Holders(p)' = Holders(p)
    BY <1>1 DEF Acquire, Goto, Holders, TypeOK
  <2>4. sem' = [sem EXCEPT ![q] = @ + 1]
    BY <1>1 DEF Acquire
  <2>5. /\ IsFiniteSet(Holders(q)')
        /\ Cardinality(Holders(q)') = Cardinality(Holders(q)) + 1
    BY <2>1, <2>2, FS_AddElement DEF SemInv
  <2>6. \A p \in Procs : sem'[p] = IF p = q THEN sem[p] + 1 ELSE sem[p]
    BY <2>4 DEF TypeOK
  <2>7. ASSUME NEW p \in Procs
        PROVE  /\ IsFiniteSet(Holders(p)')
               /\ sem'[p] = Cardinality(Holders(p)')
               /\ sem'[p] <= Concurrency
    <3>1. CASE p = q
      <4>1. sem[q] \in Int /\ Concurrency \in Int
        BY <2>1, ConstantsAssumption DEF TypeOK
      <4>. QED  BY <3>1, <4>1, <2>1, <2>5, <2>6 DEF SemInv, SemaphoreExact
    <3>2. CASE p # q
      BY <3>2, <2>3, <2>6 DEF SemInv, SemaphoreExact
    <3>. QED  BY <3>1, <3>2
  <2>. QED  BY <2>7 DEF SemInv, SemaphoreExact
<1>2. ASSUME NEW t \in Turns, Return(t) PROVE SemInv'
  <2>. DEFINE q == ProcOf[t]
  <2>1. q \in Procs /\ t \in Holders(q)
    BY <1>2, ConstantsAssumption DEF Return, At, Holders, Holding
  <2>2. Holders(q)' = Holders(q) \ {t}
    BY <1>2 DEF Return, Goto, Holders, Holding, TypeOK
  <2>3. \A p \in Procs \ {q} : Holders(p)' = Holders(p)
    BY <1>2 DEF Return, Goto, Holders, TypeOK
  <2>4. sem' = [sem EXCEPT ![q] = @ - 1]
    BY <1>2 DEF Return
  <2>5. /\ IsFiniteSet(Holders(q)')
        /\ Cardinality(Holders(q)') = Cardinality(Holders(q)) - 1
    BY <2>1, <2>2, FS_RemoveElement DEF SemInv
  <2>6. \A p \in Procs : sem'[p] = IF p = q THEN sem[p] - 1 ELSE sem[p]
    BY <2>4 DEF TypeOK
  <2>7. ASSUME NEW p \in Procs
        PROVE  /\ IsFiniteSet(Holders(p)')
               /\ sem'[p] = Cardinality(Holders(p)')
               /\ sem'[p] <= Concurrency
    <3>1. CASE p = q
      <4>1. sem[q] \in Int /\ Concurrency \in Int
        BY <2>1, ConstantsAssumption DEF TypeOK
      <4>. QED  BY <3>1, <4>1, <2>1, <2>5, <2>6 DEF SemInv, SemaphoreExact
    <3>2. CASE p # q
      BY <3>2, <2>3, <2>6 DEF SemInv, SemaphoreExact
    <3>. QED  BY <3>1, <3>2
  <2>. QED  BY <2>7 DEF SemInv, SemaphoreExact
<1>3. ASSUME NEW p \in Procs, Crash(p) PROVE SemInv'
  <2>1. Holders(p)' = {}
    BY <1>3 DEF Crash, Holders, Holding
  <2>2. \A q \in Procs \ {p} : Holders(q)' = Holders(q)
    BY <1>3 DEF Crash, Holders, Holding, TypeOK
  <2>3. \A q \in Procs : sem'[q] = IF q = p THEN 0 ELSE sem[q]
    BY <1>3 DEF Crash, TypeOK
  <2>4. ASSUME NEW q \in Procs
        PROVE  /\ IsFiniteSet(Holders(q)')
               /\ sem'[q] = Cardinality(Holders(q)')
               /\ sem'[q] <= Concurrency
    <3>1. CASE q = p
      <4>1. sem'[q] = 0 /\ 0 <= Concurrency
        BY <3>1, <2>3, ConstantsAssumption
      <4>. QED  BY <3>1, <4>1, <2>1, FS_EmptySet
    <3>2. CASE q # p
      BY <3>2, <2>2, <2>3 DEF SemInv, SemaphoreExact
    <3>. QED  BY <3>1, <3>2
  <2>. QED  BY <2>4 DEF SemInv, SemaphoreExact
<1>4. ASSUME NEW t \in Turns, Arrive(t) PROVE SemInv'
  <2>1. PICK x \in {"wait", "done"} : Goto(t, x)
    BY <1>4 DEF Arrive
  <2>2. pc[t] \in Holding <=> x \in Holding
    BY <1>4 DEF Arrive, At, Holding
  <2>. QED  BY <1>0, <1>4, <2>1, <2>2, SameHolders DEF Arrive, Same
<1>5. ASSUME NEW t \in Turns, Cancel(t) PROVE SemInv'
  BY <1>0, <1>5, SameHolders DEF Cancel, At, Holding, Same
<1>6. ASSUME NEW t \in Turns, LoadHistory(t) PROVE SemInv'
  BY <1>0, <1>6, SameHolders DEF LoadHistory, At, Holding, Same
<1>7. ASSUME NEW t \in Turns, ModelAnswers(t) \/ ModelFails(t) PROVE SemInv'
  BY <1>0, <1>7, SameHolders DEF ModelAnswers, ModelFails, At, Holding, Same
<1>8. ASSUME NEW t \in Turns, OpenTruncate(t) PROVE SemInv'
  BY <1>0, <1>8, SameHolders DEF OpenTruncate, At, Holding, Same
<1>9. ASSUME NEW t \in Turns, WriteFile(t) PROVE SemInv'
  BY <1>0, <1>9, SameHolders DEF WriteFile, At, Holding, Same
<1>10. CASE UNCHANGED <<pc, sem>>
  BY <1>0, <1>10 DEF Same, Holders
<1>. QED  BY <1>1, <1>2, <1>3, <1>4, <1>5, <1>6, <1>7, <1>8, <1>9, <1>10
          DEF Next, Step, Restart, Idle, vars

(* SemaphoreExact: in every reachable state, however many turns, crashes   *)
(* and restarts, each process's semaphore holds exactly its turns between  *)
(* acquisition and return, and at most Concurrency of them.                *)
THEOREM SemaphoreIsExact == Spec => []SemaphoreExact
<1>1. SemInv => SemaphoreExact
  BY DEF SemInv
<1>. QED  BY <1>1, SemInit, SemStep, TypeCorrect, PTL DEF Spec
-----------------------------------------------------------------------------
(* What is remembered: the turns in the file and in the loaded histories.  *)

Unanswered == {"idle", "wait", "admitted", "calling", "saving", "writing"}

\* No reply is decided before the turn is past its save.
NoReplyYet == \A t \in Turns : pc[t] \in Unanswered => reply[t] = "none"

MemoryInv == NoReplyYet /\ OnlyAnsweredIsRemembered

(* What a turn saves is among what it loaded and itself.                   *)
LEMMA UpdatedRange ==
  ASSUME TypeOK, NEW t \in Turns
  PROVE  Range(Updated(t)) \subseteq Range(view[t]) \cup {t}
<1>. DEFINE a == Append(view[t], t)
<1>1. a \in Seq(Turns)
  BY DEF TypeOK
<1>2. PICK k \in 0 .. Len(a) : Updated(t) = SubSeq(a, k + 1, Len(a))
  BY <1>1, PruneIsTail DEF Updated
<1>3. \A i \in 1 .. Len(a) : a[i] \in Range(view[t]) \cup {t}
  <2>. SUFFICES ASSUME NEW i \in 1 .. Len(a) PROVE a[i] \in Range(view[t]) \cup {t}
    OBVIOUS
  <2>1. view[t] \in Seq(Turns) /\ Len(a) = Len(view[t]) + 1
    BY DEF TypeOK
  <2>2. CASE i <= Len(view[t])
    <3>1. a[i] = view[t][i] /\ i \in DOMAIN view[t]
      BY <2>1, <2>2
    <3>. QED  BY <3>1 DEF Range
  <2>3. CASE i = Len(view[t]) + 1
    BY <2>1, <2>3
  <2>. QED  BY <2>1, <2>2, <2>3
<1>4. \A i \in k + 1 .. Len(a) : a[i] \in Range(view[t]) \cup {t}
  BY <1>1, <1>3
<1>5. SubSeq(a, k + 1, Len(a)) \in Seq(Range(view[t]) \cup {t})
  <2>. HIDE DEF a
  <2>. QED  BY <1>1, <1>4, SubSeqProperties
<1>. QED  BY <1>2, <1>5 DEF Range

(* Every step keeps unanswered turns out of the file and out of every view. *)
LEMMA MemoryStep == TypeOK /\ MemoryInv /\ [Next]_vars => MemoryInv'
<1>. SUFFICES ASSUME TypeOK, MemoryInv, [Next]_vars PROVE MemoryInv'
  OBVIOUS
<1>2. ASSUME UNCHANGED <<view, file>>,
             \A t \in Turns : reply[t] = "ok" => reply'[t] = "ok"
      PROVE  OnlyAnsweredIsRemembered'
  BY <1>2 DEF OnlyAnsweredIsRemembered, MemoryInv
<1>3. ASSUME NEW t \in Turns, Arrive(t) \/ Cancel(t) \/ ModelFails(t) PROVE MemoryInv'
  <2>1. \A u \in Turns \ {t} : reply'[u] = reply[u] /\ pc'[u] = pc[u]
    BY <1>3 DEF Arrive, Cancel, ModelFails, Goto, Answer, TypeOK
  <2>2. reply[t] = "none" /\ (pc'[t] \in Unanswered => reply'[t] = "none")
    BY <1>3 DEF Arrive, Cancel, ModelFails, Goto, Answer, At, TypeOK, MemoryInv,
                NoReplyYet, Unanswered
  <2>. QED  BY <1>2, <1>3, <2>1, <2>2 DEF MemoryInv, NoReplyYet, Arrive, Cancel, ModelFails
<1>4. ASSUME NEW t \in Turns, Acquire(t) \/ ModelAnswers(t) PROVE MemoryInv'
  <2>1. reply' = reply /\ pc[t] \in Unanswered
        /\ \A u \in Turns \ {t} : pc'[u] = pc[u]
    BY <1>4 DEF Acquire, ModelAnswers, Goto, At, TypeOK, Unanswered
  <2>. QED  BY <1>2, <1>4, <2>1 DEF MemoryInv, NoReplyYet, Acquire, ModelAnswers
<1>5. ASSUME NEW t \in Turns, LoadHistory(t) PROVE MemoryInv'
  <2>1. reply' = reply /\ file' = file /\ pc[t] \in Unanswered
        /\ \A u \in Turns \ {t} : pc'[u] = pc[u] /\ view'[u] = view[u]
    BY <1>5 DEF LoadHistory, Goto, At, TypeOK, Unanswered
  <2>2. view'[t] \in {file.msgs, <<>>}
    BY <1>5 DEF LoadHistory, TypeOK, Parsed
  <2>3. Range(<<>>) = {}
    BY DEF Range
  <2>4. OnlyAnsweredIsRemembered'
    <3>. SUFFICES ASSUME NEW s \in Turns, NEW u \in Turns,
                         s \in Range(file'.msgs) \cup Range(view'[u])
                  PROVE  reply'[s] = "ok"
      BY DEF OnlyAnsweredIsRemembered
    <3>1. s \in Range(file.msgs) \cup Range(view[u])
      BY <2>1, <2>2, <2>3
    <3>. QED  BY <2>1, <3>1 DEF MemoryInv, OnlyAnsweredIsRemembered
  <2>. QED  BY <2>1, <2>4 DEF MemoryInv, NoReplyYet
<1>6. ASSUME NEW t \in Turns, OpenTruncate(t) \/ WriteFile(t) PROVE MemoryInv'
  <2>1. view' = view /\ (pc'[t] \in Unanswered => reply'[t] = reply[t])
        /\ pc[t] \in Unanswered
        /\ \A u \in Turns \ {t} : pc'[u] = pc[u] /\ reply'[u] = reply[u]
    BY <1>6 DEF OpenTruncate, WriteFile, Goto, Answer, At, TypeOK, Unanswered
  <2>2. reply'[t] = "ok" \/ (reply' = reply /\ file' = Torn)
    BY <1>6 DEF OpenTruncate, WriteFile, Answer, TypeOK
  <2>3. Range(file'.msgs) \subseteq Range(file.msgs) \cup Range(view[t]) \cup {t}
    <3>1. file' \in {file, Torn, Mixed, Whole(Updated(t))}
      BY <1>6 DEF OpenTruncate, WriteFile, Overwrite
    <3>2. Range(Torn.msgs) = {} /\ Range(Mixed.msgs) = {}
      BY DEF Torn, Mixed, Range
    <3>3. Whole(Updated(t)).msgs = Updated(t)
      BY DEF Whole
    <3>. QED  BY <3>1, <3>2, <3>3, UpdatedRange
  <2>4. file' = Torn => Range(file'.msgs) = {}
    BY DEF Torn, Range
  <2>5. OnlyAnsweredIsRemembered'
    <3>. SUFFICES ASSUME NEW s \in Turns, NEW u \in Turns,
                         s \in Range(file'.msgs) \cup Range(view[u])
                  PROVE  reply'[s] = "ok"
      BY <2>1 DEF OnlyAnsweredIsRemembered
    <3>1. s = t => reply'[s] = "ok"
      BY <2>2, <2>4 DEF MemoryInv, OnlyAnsweredIsRemembered
    <3>2. s # t => reply[s] = "ok"
      BY <2>3 DEF MemoryInv, OnlyAnsweredIsRemembered
    <3>. QED  BY <2>1, <3>1, <3>2
  <2>. QED  BY <2>1, <2>5 DEF MemoryInv, NoReplyYet
<1>7. ASSUME NEW t \in Turns, Return(t) PROVE MemoryInv'
  <2>1. reply' = reply /\ pc'[t] \notin Unanswered
        /\ \A u \in Turns \ {t} : pc'[u] = pc[u]
    BY <1>7 DEF Return, Goto, TypeOK, Unanswered
  <2>. QED  BY <1>2, <1>7, <2>1 DEF MemoryInv, NoReplyYet, Return
<1>8. ASSUME NEW p \in Procs, Crash(p) PROVE MemoryInv'
  <2>1. \A t \in Turns : pc'[t] \in {pc[t], "killed"}
    BY <1>8 DEF Crash
  <2>. QED  BY <1>2, <1>8, <2>1 DEF MemoryInv, NoReplyYet, Crash, Unanswered
<1>9. CASE UNCHANGED <<pc, view, reply, file>>
  BY <1>2, <1>9 DEF MemoryInv, NoReplyYet
<1>. QED  BY <1>3, <1>4, <1>5, <1>6, <1>7, <1>8, <1>9 DEF Next, Step, Restart, Idle, vars

(* OnlyAnsweredIsRemembered: whatever is in the history file, or in the      *)
(* history that any turn is answered with, has an answer of the model.  A    *)
(* turn that was denied, cancelled or answered "Error: ...", or was killed   *)
(* while it had none, is in neither; one that was killed between its write   *)
(* and its return may be.                                                    *)
THEOREM UnansweredIsNotRemembered == Spec => []OnlyAnsweredIsRemembered
<1>1. Init => MemoryInv
  BY DEF Init, MemoryInv, NoReplyYet, OnlyAnsweredIsRemembered, Absent, Range
<1>2. MemoryInv => OnlyAnsweredIsRemembered
  BY DEF MemoryInv
<1>. QED  BY <1>1, <1>2, MemoryStep, TypeCorrect, PTL DEF Spec
-----------------------------------------------------------------------------
(* The stored history is a conversation that took place.                   *)

ConversationInv ==
  /\ IsConversation(file.msgs)
  /\ \A u \in Turns : IsConversation(view[u])

\* Turn s was given, just before h[i], the turns that precede h[i] in h.
FollowsAt(h, i, s) ==
  /\ i - 1 <= Len(view[s])
  /\ \A j \in 1 .. i - 1 : h[j] = view[s][Len(view[s]) - (i - 1) + j]

(* IsConversation, element by element: the turn d places before another one *)
(* in the file is d places from the end of what that one was given.        *)
LEMMA ConversationPointwise ==
  ASSUME TypeOK, NEW h \in Seq(Turns)
  PROVE  IsConversation(h) <=> \A i \in 1 .. Len(h) : FollowsAt(h, i, h[i])
<1>1. ASSUME NEW i \in 1 .. Len(h)
      PROVE  EndsWith(view[h[i]], SubSeq(h, 1, i - 1)) <=> FollowsAt(h, i, h[i])
  <2>1. \A j \in 1 .. i - 1 : h[j] \in Turns
    OBVIOUS
  <2>2. /\ Len(SubSeq(h, 1, i - 1)) = i - 1
        /\ \A j \in 1 .. i - 1 : SubSeq(h, 1, i - 1)[j] = h[j]
    <3>1. /\ Len(SubSeq(h, 1, i - 1)) = IF 1 <= i - 1 THEN (i - 1) - 1 + 1 ELSE 0
          /\ \A j \in 1 .. (i - 1) - 1 + 1 : SubSeq(h, 1, i - 1)[j] = h[1 + j - 1]
      BY <2>1, SubSeqProperties
    <3>. QED  BY <3>1
  <2>. QED  BY <2>2 DEF EndsWith, FollowsAt
<1>. QED  BY <1>1 DEF IsConversation

(* Appending t to what t loaded, and dropping the oldest turns, gives a    *)
(* conversation again.                                                     *)
LEMMA UpdatedIsConversation ==
  ASSUME TypeOK, NEW t \in Turns, IsConversation(view[t])
  PROVE  IsConversation(Updated(t))
<1>. DEFINE v == view[t]
            a == Append(v, t)
<1>1. v \in Seq(Turns) /\ a \in Seq(Turns) /\ Len(a) = Len(v) + 1
  BY DEF TypeOK
<1>2. (\A i \in 1 .. Len(v) : a[i] = v[i]) /\ a[Len(v) + 1] = t
  BY <1>1
<1>3. PICK k \in 0 .. Len(a) : Updated(t) = SubSeq(a, k + 1, Len(a))
  BY <1>1, PruneIsTail DEF Updated
<1>4. \A i \in 1 .. Len(v) : FollowsAt(v, i, v[i])
  BY <1>1, ConversationPointwise
<1>. HIDE DEF a, v
<1>. DEFINE h == SubSeq(a, k + 1, Len(a))
<1>5. /\ h \in Seq(Turns)
      /\ Len(h) = Len(a) - k
      /\ \A i \in 1 .. Len(a) - k : h[i] = a[k + i]
  <2>1. \A i \in k + 1 .. Len(a) : a[i] \in Turns
    BY <1>1
  <2>2. Len(a) \in Int /\ k + 1 \in Int
    BY <1>1
  <2>3. /\ h \in Seq(Turns)
        /\ Len(h) = IF k + 1 <= Len(a) THEN Len(a) - (k + 1) + 1 ELSE 0
        /\ \A i \in 1 .. Len(a) - (k + 1) + 1 : h[i] = a[k + 1 + i - 1]
    BY <2>1, <2>2, SubSeqProperties
  <2>. QED  BY <1>1, <2>3
<1>. HIDE DEF h
<1>6. ASSUME NEW i \in 1 .. Len(h) PROVE FollowsAt(h, i, h[i])
  <2>1. \A j \in 1 .. i - 1 : h[j] = v[k + j]
    BY <1>1, <1>2, <1>5
  <2>2. CASE k + i <= Len(v)
    <3>1. h[i] = v[k + i] /\ FollowsAt(v, k + i, h[i])
      BY <1>1, <1>2, <1>4, <1>5, <2>2
    <3>2. h[i] \in Turns /\ view[h[i]] \in Seq(Turns)
      BY <1>5 DEF TypeOK
    <3>. DEFINE w == view[h[i]]
    <3>3. Len(w) \in Nat /\ k + i - 1 <= Len(w) /\ i - 1 <= Len(w)
      BY <3>1, <3>2 DEF FollowsAt
    <3>4. ASSUME NEW j \in 1 .. i - 1 PROVE h[j] = w[Len(w) - (i - 1) + j]
      <4>1. k + j \in 1 .. k + i - 1
        BY <1>1, <1>5
      <4>2. v[k + j] = w[Len(w) - (k + i - 1) + (k + j)]
        BY <3>1, <4>1 DEF FollowsAt
      <4>3. Len(w) - (k + i - 1) + (k + j) = Len(w) - (i - 1) + j
        <5>1. Len(w) \in Int /\ i \in Int /\ j \in Int /\ k \in Int
          BY <1>1, <1>5, <3>3
        <5>. HIDE DEF w
        <5>. QED  BY <5>1
      <4>. QED  BY <2>1, <4>2, <4>3
    <3>. QED  BY <3>3, <3>4 DEF FollowsAt
  <2>3. CASE k + i = Len(v) + 1
    <3>1. h[i] = t /\ view[t] = v
      BY <1>1, <1>2, <1>5, <2>3 DEF v
    <3>. QED  BY <1>1, <1>5, <2>1, <2>3, <3>1 DEF FollowsAt
  <2>. QED  BY <1>1, <1>5, <2>2, <2>3
<1>7. IsConversation(h)
  BY <1>5, <1>6, ConversationPointwise
<1>. QED  BY <1>3, <1>7 DEF h

(* Every step keeps the stored history, and each view, a conversation. *)
LEMMA ConversationStep ==
  TypeOK /\ TypeOK' /\ MemoryInv /\ ConversationInv /\ [Next]_vars => ConversationInv'
<1>. SUFFICES ASSUME TypeOK, TypeOK', MemoryInv, ConversationInv, [Next]_vars
              PROVE  ConversationInv'
  OBVIOUS
<1>1. IsConversation(<<>>) /\ IsConversation(<<>>)'
  BY DEF IsConversation
<1>2. ASSUME NEW t \in Turns, LoadHistory(t) PROVE ConversationInv'
  <2>1. \A u \in Turns \ {t} : view'[u] = view[u]
    BY <1>2 DEF LoadHistory, TypeOK
  <2>2. file' = file /\ view'[t] \in {file.msgs, <<>>} /\ reply[t] # "ok"
    BY <1>2 DEF LoadHistory, At, Parsed, TypeOK, MemoryInv, NoReplyYet, Unanswered
  <2>. DEFINE Conv(h) == \A i \in 1 .. Len(h) : EndsWith(view'[h[i]], SubSeq(h, 1, i - 1))
  <2>3. ASSUME NEW h \in Seq(Turns), t \notin Range(h), IsConversation(h)
        PROVE  Conv(h)
    <3>1. \A i \in 1 .. Len(h) : h[i] \in Turns /\ h[i] # t
      BY <2>3 DEF Range
    <3>2. \A i \in 1 .. Len(h) : view'[h[i]] = view[h[i]]
      BY <2>1, <3>1
    <3>. QED  BY <2>3, <3>2 DEF IsConversation
  <2>4. t \notin Range(file.msgs) /\ \A u \in Turns : t \notin Range(view[u])
    BY <2>2 DEF MemoryInv, OnlyAnsweredIsRemembered
  <2>5. file.msgs \in Seq(Turns) /\ \A u \in Turns : view[u] \in Seq(Turns)
    BY DEF TypeOK, FileStates
  <2>6. Conv(<<>>)
    OBVIOUS
  <2>7. Conv(file.msgs)
    BY <2>3, <2>4, <2>5 DEF ConversationInv
  <2>8. \A u \in Turns \ {t} : Conv(view[u])
    BY <2>3, <2>4, <2>5 DEF ConversationInv
  <2>9. Conv(file'.msgs) /\ \A u \in Turns : Conv(view'[u])
    <3>. HIDE DEF Conv
    <3>. QED  BY <2>1, <2>2, <2>6, <2>7, <2>8
  <2>. QED  BY <2>9 DEF ConversationInv, IsConversation
<1>3. ASSUME NEW t \in Turns, OpenTruncate(t) \/ WriteFile(t) PROVE ConversationInv'
  <2>1. view' = view
    BY <1>3 DEF OpenTruncate, WriteFile
  <2>2. file' \in {file, Torn, Mixed, Whole(Updated(t))}
    BY <1>3 DEF OpenTruncate, WriteFile, Overwrite
  <2>3. file'.msgs \in {file.msgs, <<>>, Updated(t)}
    BY <2>2 DEF Torn, Mixed, Whole
  <2>4. IsConversation(file'.msgs)
    BY <1>1, <2>3, UpdatedIsConversation DEF ConversationInv
  <2>. QED  BY <2>1, <2>4 DEF ConversationInv, IsConversation, EndsWith
<1>4. CASE UNCHANGED <<view, file>>
  BY <1>4 DEF ConversationInv, IsConversation, EndsWith
<1>. QED  BY <1>2, <1>3, <1>4 DEF Next, Step, Arrive, Acquire, Cancel, ModelAnswers,
          ModelFails, Return, Crash, Restart, Idle, vars

(* StoredIsConversation: whatever the interleaving of dispatches, crashes  *)
(* and failing file accesses, the stored history replays, for each stored  *)
(* turn, what the model was given before it.                               *)
THEOREM StoredHistoryIsConversation == Spec => []StoredIsConversation
<1>1. Init => MemoryInv
  BY DEF Init, MemoryInv, NoReplyYet, OnlyAnsweredIsRemembered, Absent, Range
<1>2. Init => ConversationInv
  BY DEF Init, ConversationInv, IsConversation, Absent
<1>3. ConversationInv => StoredIsConversation
  BY DEF ConversationInv, StoredIsConversation
<1>. QED  BY <1>1, <1>2, <1>3, MemoryStep, ConversationStep, TypeCorrect, PTL DEF Spec
-----------------------------------------------------------------------------
(* With one slot and one process, no two turns work on the history at a time. *)

OneAtATime == \A a \in Turns, b \in Turns : pc[a] \in Holding /\ pc[b] \in Holding => a = b

(* One slot and one process: at most one turn is between load and return. *)
LEMMA SlotExcludes ==
  ASSUME Concurrency = 1, \A p \in Procs, q \in Procs : p = q, SemInv
  PROVE  OneAtATime
<1>. SUFFICES ASSUME NEW a \in Turns, NEW b \in Turns,
                     pc[a] \in Holding, pc[b] \in Holding, a # b
              PROVE  FALSE
  BY DEF OneAtATime
<1>. DEFINE H == Holders(ProcOf[a])
<1>1. ProcOf[a] \in Procs /\ {a, b} \subseteq H
  BY ConstantsAssumption DEF Holders
<1>2. IsFiniteSet(H) /\ Cardinality(H) <= 1
  BY <1>1 DEF SemInv, SemaphoreExact
<1>. HIDE DEF H
<1>3. Cardinality({a, b}) <= Cardinality(H) /\ Cardinality(H) \in Nat
      /\ Cardinality({a, b}) \in Nat
  BY <1>1, <1>2, FS_Subset, FS_CardinalityType
<1>4. IsFiniteSet({a}) /\ Cardinality({a}) = 1
  BY FS_Singleton
<1>5. Cardinality({a} \cup {b}) = 2
  BY <1>4, FS_AddElement
<1>6. {a} \cup {b} = {a, b}
  OBVIOUS
<1>. QED  BY <1>2, <1>3, <1>5, <1>6

(* A turn that is about to load holds the only slot. *)
LEMMA SerialStep ==
  ASSUME Concurrency = 1, \A p \in Procs, q \in Procs : p = q
  PROVE  TypeOK /\ SemInv /\ ~overlapped /\ [Next]_vars => ~overlapped'
<1>. SUFFICES ASSUME TypeOK, SemInv, ~overlapped, [Next]_vars PROVE ~overlapped'
  OBVIOUS
<1>1. OneAtATime
  BY SlotExcludes
<1>2. ASSUME NEW t \in Turns, LoadHistory(t) PROVE ~overlapped'
  <2>1. pc[t] = "admitted"
    BY <1>2 DEF LoadHistory, At
  <2>2. \A u \in Turns : pc[u] \notin Working
    BY <1>1, <2>1 DEF OneAtATime, Holding, Working
  <2>. QED  BY <1>2, <2>2 DEF LoadHistory
<1>3. CASE UNCHANGED overlapped
  BY <1>3
<1>. QED  BY <1>2, <1>3 DEF Next, Step, Arrive, Acquire, Cancel, ModelAnswers, ModelFails,
          OpenTruncate, WriteFile, Return, Crash, Restart, Idle, vars

(* Serialized: with Concurrency = 1 and no second process on the state        *)
(* directory, dispatches never overlap on the history.                        *)
THEOREM SerialDispatch == Spec => []Serialized
<1>1. CASE Concurrency = 1 /\ \A p, q \in Procs : p = q
  <2>1. Init => SemInv /\ ~overlapped
    BY SemInit DEF Init
  <2>2. TypeOK /\ SemInv /\ ~overlapped /\ [Next]_vars => ~overlapped'
    BY <1>1, SerialStep
  <2>3. ~overlapped => Serialized
    BY DEF Serialized
  <2>. QED  BY <2>1, <2>2, <2>3, SemStep, TypeCorrect, PTL DEF Spec
<1>2. CASE ~(Concurrency = 1 /\ \A p, q \in Procs : p = q)
  <2>1. Serialized
    BY <1>2 DEF Serialized
  <2>. QED  BY <2>1, PTL
<1>. QED  BY <1>1, <1>2
-----------------------------------------------------------------------------
(* As long as dispatches do not overlap, the file implements the log of    *)
(* HistoryLog, however many slots and processes there are.                 *)

\* A turn that works on the history is alone with it: what it loaded is what is
\* stored, unless reading failed, and nobody else touches the file between its
\* truncate and its write.
Lossy == faults > 0
AloneInv ==
  /\ NoReplyYet
  /\ ~overlapped =>
       /\ \A a, b \in Turns : pc[a] \in Working /\ pc[b] \in Working => a = b
       /\ \A t \in Turns : pc[t] \in {"calling", "saving"} =>
            view[t] = Parsed \/ (Lossy /\ view[t] = <<>>)
       /\ \A t \in Turns : pc[t] = "writing" => file = Torn

\* No step forgets a fault, or that turns have overlapped.
NothingForgotten ==
  /\ faults \in Nat /\ faults' \in Nat /\ faults <= faults'
  /\ overlapped \in BOOLEAN /\ overlapped' \in BOOLEAN /\ (overlapped => overlapped')

(* The counter of faults only grows, and overlapped stays. *)
LEMMA NoneForgotten == TypeOK /\ [Next]_vars => NothingForgotten
<1>. SUFFICES ASSUME TypeOK, [Next]_vars PROVE NothingForgotten
  OBVIOUS
<1>1. faults \in Nat /\ overlapped \in BOOLEAN /\ overlapped' \in BOOLEAN
  BY TypeStep, ConstantsAssumption DEF TypeOK
<1>2. faults' = faults \/ faults' = faults + 1
  BY DEF Next, Step, Arrive, Acquire, Cancel, LoadHistory, ModelAnswers, ModelFails,
         OpenTruncate, WriteFile, Return, Crash, Restart, Idle, Fault, vars
<1>3. overlapped => overlapped'
  BY DEF Next, Step, Arrive, Acquire, Cancel, LoadHistory, ModelAnswers, ModelFails,
         OpenTruncate, WriteFile, Return, Crash, Restart, Idle, vars
<1>. QED  BY <1>1, <1>2, <1>3 DEF NothingForgotten

(* A turn that works on the history stays alone with it until one overlaps. *)
LEMMA AloneStep == TypeOK /\ MemoryInv' /\ AloneInv /\ [Next]_vars => AloneInv'
<1>. SUFFICES ASSUME TypeOK, MemoryInv', AloneInv, [Next]_vars, ~overlapped' PROVE AloneInv'
  BY DEF AloneInv, MemoryInv
<1>0. /\ Lossy => Lossy'
      /\ ~overlapped
  BY NoneForgotten DEF NothingForgotten, Lossy
<1>. USE <1>0 DEF AloneInv, MemoryInv, Parsed
<1>1. ASSUME NEW t \in Turns, Arrive(t) \/ Acquire(t) \/ Cancel(t) \/ ModelAnswers(t)
                              \/ ModelFails(t) \/ Return(t)
      PROVE  AloneInv'
  <2>1. view' = view /\ file' = file
    BY <1>1 DEF Arrive, Acquire, Cancel, ModelAnswers, ModelFails, Return
  <2>2. \A u \in Turns \ {t} : pc'[u] = pc[u]
    BY <1>1 DEF Arrive, Acquire, Cancel, ModelAnswers, ModelFails, Return, Goto, TypeOK
  <2>3. pc'[t] # "writing" /\ (pc'[t] \in Working => pc[t] = "calling")
    BY <1>1 DEF Arrive, Acquire, Cancel, ModelAnswers, ModelFails, Return, Goto, At, TypeOK,
                Working
  <2>. QED  BY <2>1, <2>2, <2>3 DEF Working
<1>2. ASSUME NEW t \in Turns, LoadHistory(t) PROVE AloneInv'
  <2>1. file' = file /\ pc'[t] = "calling"
        /\ \A u \in Turns \ {t} : pc'[u] = pc[u] /\ view'[u] = view[u]
    BY <1>2 DEF LoadHistory, Goto, At, TypeOK
  <2>2. view'[t] = file.msgs \/ (Lossy' /\ view'[t] = <<>>)
    BY <1>2, ConstantsAssumption DEF LoadHistory, Fault, TypeOK, Lossy
  <2>3. \A u \in Turns : pc[u] \notin Working
    BY <1>2 DEF LoadHistory
  <2>. QED  BY <2>1, <2>2, <2>3 DEF Working
<1>3. ASSUME NEW t \in Turns, OpenTruncate(t) \/ WriteFile(t) PROVE AloneInv'
  <2>1. view' = view /\ pc[t] \in Working /\ pc'[t] \in {"writing", "leaving"}
        /\ (pc'[t] = "writing" => file' = Torn)
        /\ \A u \in Turns \ {t} : pc'[u] = pc[u]
    BY <1>3 DEF OpenTruncate, WriteFile, Goto, At, TypeOK, Working
  <2>2. \A u \in Turns \ {t} : pc[u] \notin Working
    BY <2>1
  <2>. QED  BY <2>1, <2>2 DEF Working
<1>4. ASSUME NEW p \in Procs, Crash(p) PROVE AloneInv'
  <2>1. \A t \in Turns : pc'[t] \in {pc[t], "killed"}
    BY <1>4 DEF Crash
  <2>. QED  BY <1>4, <2>1 DEF Crash, Working
<1>5. CASE UNCHANGED <<pc, view, reply, file>>
  BY <1>5
<1>. QED  BY <1>1, <1>2, <1>3, <1>4, <1>5 DEF Next, Step, Restart, Idle, vars

\* What a step does to the abstract log, in the terms of Dispatcher.
SameOutcome == Outcome' = Outcome
Recorded(t) == Outcome[t] = "pending" /\ Outcome' = [Outcome EXCEPT ![t] = "recorded"]
Closed(D) == /\ \A t \in D : Outcome[t] = "pending"
             /\ Outcome' = [t \in Turns |-> IF t \in D THEN "closed" ELSE Outcome[t]]

\* What it does to the log itself is of no account once turns have overlapped.
Voided == overlapped'

(* One of these steps, in which nothing is forgotten, is a step of the log. *)
LEMMA AbstractStep ==
  ASSUME NothingForgotten,
         \/ SameOutcome /\ (Log' = Log \/ Voided)
         \/ \E t \in Turns : /\ Recorded(t)
                             /\ \/ Log' = Prune(Append(Log, t))
                                \/ Lossy' /\ Log' \in {Log, <<>>}
                                \/ Voided
         \/ \E D \in SUBSET Turns :
              Closed(D) /\ (Log' = Log \/ (Lossy' /\ Log' = <<>>) \/ Voided)
  PROVE  [Abstract!Next]_(Abstract!vars)
<1>. USE DEF Recorded, Closed, Lossy, Voided, Abstract!Next, Abstract!Record, Abstract!Close
<1>1. (faults > 0)' \in {faults > 0, TRUE}
  <2>1. CASE faults' > 0
    <3>1. (faults' > 0) = TRUE
      BY <2>1
    <3>. QED  BY <3>1
  <2>2. CASE ~(faults' > 0)
    <3>1. (faults' > 0) = FALSE /\ (faults > 0) = FALSE
      BY <2>2 DEF NothingForgotten
    <3>. QED  BY <3>1
  <2>. QED  BY <2>1, <2>2
<1>2. overlapped' \in {overlapped, TRUE}
  BY DEF NothingForgotten
<1>3. ASSUME NEW D \in SUBSET Turns, Closed(D),
             Log' = Log \/ (Lossy' /\ Log' = <<>>) \/ Voided
      PROVE  Abstract!Next
  BY <1>1, <1>2, <1>3
<1>4. CASE SameOutcome /\ (Log' = Log \/ Voided)
  <2>1. Closed({}) /\ {} \in SUBSET Turns
    BY <1>4 DEF SameOutcome, Outcome
  <2>. QED  BY <1>3, <1>4, <2>1
<1>5. ASSUME NEW t \in Turns, Recorded(t),
             \/ Log' = Prune(Append(Log, t))
             \/ Lossy' /\ Log' \in {Log, <<>>}
             \/ Voided
      PROVE  Abstract!Next
  BY <1>1, <1>2, <1>5
<1>. QED  BY <1>3, <1>4, <1>5

(* The abstract log as a turn that is alone with the history sees it. *)
LEMMA LogOfWriter ==
  ASSUME AloneInv, ~overlapped, NEW t \in Turns
  PROVE  /\ pc[t] = "writing" => Log = view[t]
         /\ pc[t] = "saving" => Log = Parsed
<1>1. CASE pc[t] = "writing"
  <2>1. Writers = {t}
    BY <1>1 DEF Writers, AloneInv, Working
  <2>. QED  BY <1>1, <2>1 DEF Log
<1>2. CASE pc[t] = "saving"
  <2>1. Writers = {}
    BY <1>2 DEF Writers, AloneInv, Working
  <2>. QED  BY <1>2, <2>1 DEF Log
<1>. QED  BY <1>1, <1>2

\* A step that leaves the writers, what they loaded and the file alone.
LEMMA SameLog ==
  ASSUME TypeOK, NEW t \in Turns, NEW x, Goto(t, x), file' = file,
         pc[t] # "writing", x # "writing", \A u \in Turns \ {t} : view'[u] = view[u]
  PROVE  Log' = Log
<1>1. Writers' = Writers /\ t \notin Writers /\ Writers \subseteq Turns
  BY DEF Goto, Writers, TypeOK
<1>2. Writers # {} => (CHOOSE u \in Writers : TRUE) \in Turns \ {t}
  BY <1>1
<1>. QED  BY <1>1, <1>2 DEF Log, Parsed

\* A step of one turn whose reply is decided, or not.
LEMMA OutcomeStep ==
  ASSUME TypeOK, NEW t \in Turns, NEW x, Goto(t, x), x # "killed", pc[t] # "killed"
  PROVE  /\ reply' = reply => SameOutcome
         /\ reply[t] = "none" /\ Answer(t, "ok") => Recorded(t)
         /\ \A r \in Replies \ {"none", "ok"} :
              reply[t] = "none" /\ Answer(t, r) => Closed({t})
<1>1. \A u \in Turns \ {t} : pc'[u] = pc[u]
  BY DEF Goto, TypeOK
<1>2. pc'[t] = x
  BY DEF Goto, TypeOK
<1>3. ASSUME reply' = reply PROVE SameOutcome
  BY <1>1, <1>2, <1>3 DEF SameOutcome, Outcome
<1>4. ASSUME NEW r \in Replies \ {"none"}, reply[t] = "none", Answer(t, r)
      PROVE  /\ Outcome[t] = "pending"
             /\ Outcome' = [u \in Turns |->
                  IF u = t THEN (IF r = "ok" THEN "recorded" ELSE "closed") ELSE Outcome[u]]
  <2>1. reply'[t] = r /\ \A u \in Turns \ {t} : reply'[u] = reply[u]
    BY <1>4 DEF Answer, TypeOK
  <2>. QED  BY <1>1, <1>2, <1>4, <2>1 DEF Outcome, Replies
<1>5. Outcome = [u \in Turns |-> Outcome[u]]
  BY DEF Outcome
<1>6. ASSUME reply[t] = "none", Answer(t, "ok") PROVE Recorded(t)
  BY <1>4, <1>5, <1>6 DEF Recorded, Replies
<1>7. ASSUME NEW r \in Replies \ {"none", "ok"}, reply[t] = "none", Answer(t, r)
      PROVE  Closed({t})
  BY <1>4, <1>7 DEF Closed
<1>. QED  BY <1>3, <1>6, <1>7

(* Every step of Dispatcher is a step of HistoryLog. *)
LEMMA RefinementStep == TypeOK /\ AloneInv /\ [Next]_vars => [Abstract!Next]_(Abstract!vars)
<1>. SUFFICES ASSUME TypeOK, AloneInv, [Next]_vars
              PROVE  [Abstract!Next]_(Abstract!vars)
  OBVIOUS
<1>0. NothingForgotten /\ (~Voided => ~overlapped)
  BY NoneForgotten DEF NothingForgotten, Voided
<1>. USE <1>0
<1>1. ASSUME NEW t \in Turns, Arrive(t) PROVE [Abstract!Next]_(Abstract!vars)
  <2>1. pc[t] = "idle" /\ reply[t] = "none" /\ file' = file /\ view' = view
    BY <1>1 DEF Arrive, At, AloneInv, NoReplyYet, Unanswered
  <2>2. CASE t \in Admitted
    <3>1. Goto(t, "wait") /\ reply' = reply
      BY <1>1, <2>2 DEF Arrive
    <3>2. SameOutcome /\ Log' = Log
      BY <2>1, <3>1, SameLog, OutcomeStep
    <3>. QED  BY <3>2, AbstractStep
  <2>3. CASE t \notin Admitted
    <3>1. Goto(t, "done") /\ Answer(t, "denied")
      BY <1>1, <2>3 DEF Arrive
    <3>2. Closed({t}) /\ Log' = Log
      BY <2>1, <3>1, SameLog, OutcomeStep DEF Replies
    <3>. QED  BY <3>2, AbstractStep
  <2>. QED  BY <2>2, <2>3
<1>2. ASSUME NEW t \in Turns, Acquire(t) \/ ModelAnswers(t) \/ Return(t)
      PROVE  [Abstract!Next]_(Abstract!vars)
  <2>1. /\ pc[t] \notin {"writing", "killed"}
        /\ file' = file /\ view' = view /\ reply' = reply
        /\ \E x \in {"admitted", "saving", "done"} : Goto(t, x)
    BY <1>2 DEF Acquire, ModelAnswers, Return, At
  <2>2. SameOutcome /\ Log' = Log
    BY <2>1, SameLog, OutcomeStep
  <2>. QED  BY <2>2, AbstractStep
<1>3. ASSUME NEW t \in Turns, Cancel(t) \/ ModelFails(t)
      PROVE  [Abstract!Next]_(Abstract!vars)
  <2>1. /\ pc[t] \notin {"writing", "killed"} /\ reply[t] = "none"
        /\ file' = file /\ view' = view
        /\ \E x \in {"done", "leaving"} : Goto(t, x)
        /\ \E r \in {"cancelled", "error"} : Answer(t, r)
    BY <1>3 DEF Cancel, ModelFails, At, AloneInv, NoReplyYet, Unanswered
  <2>2. Closed({t}) /\ Log' = Log
    BY <2>1, SameLog, OutcomeStep DEF Replies
  <2>. QED  BY <2>2, AbstractStep
<1>4. ASSUME NEW t \in Turns, LoadHistory(t) PROVE [Abstract!Next]_(Abstract!vars)
  <2>1. /\ pc[t] = "admitted" /\ Goto(t, "calling")
        /\ file' = file /\ reply' = reply
        /\ \A u \in Turns \ {t} : view'[u] = view[u]
    BY <1>4 DEF LoadHistory, At, TypeOK
  <2>2. SameOutcome /\ Log' = Log
    BY <2>1, SameLog, OutcomeStep
  <2>. QED  BY <2>2, AbstractStep
<1>5. ASSUME NEW t \in Turns, OpenTruncate(t) PROVE [Abstract!Next]_(Abstract!vars)
  <2>1. pc[t] = "saving" /\ reply[t] = "none" /\ view' = view
    BY <1>5 DEF OpenTruncate, At, AloneInv, NoReplyYet, Unanswered
  <2>2. CASE Goto(t, "writing") /\ file' = Torn /\ UNCHANGED <<reply, faults>>
    <3>1. SameOutcome
      BY <2>1, <2>2, OutcomeStep
    <3>2. Closed({}) /\ (Lossy => Lossy')
      BY <3>1 DEF Closed, SameOutcome, Outcome, Lossy, NothingForgotten
    <3>3. ASSUME ~Voided PROVE Log' = Log \/ (Lossy' /\ Log' = <<>>)
      <4>1. Log = Parsed /\ (view[t] = Parsed \/ (Lossy /\ view[t] = <<>>))
        BY <2>1, <3>3, LogOfWriter DEF AloneInv
      <4>2. pc'[t] = "writing" /\ \A u \in Turns \ {t} : pc'[u] # "writing"
        BY <2>1, <2>2, <3>3 DEF Goto, TypeOK, AloneInv, Working
      <4>3. Writers' = {t}
        BY <4>2 DEF Writers
      <4>4. Log' = view[t]
        BY <2>1, <4>3 DEF Log
      <4>. QED  BY <3>2, <4>1, <4>4
    <3>. QED  BY <3>2, <3>3, AbstractStep
  <2>3. CASE Goto(t, "leaving") /\ Answer(t, "ok") /\ UNCHANGED file /\ Fault
    <3>1. Recorded(t) /\ Log' = Log
      BY <2>1, <2>3, SameLog, OutcomeStep
    <3>2. Lossy'
      BY <2>3, ConstantsAssumption DEF Fault, TypeOK, Lossy
    <3>. QED  BY <3>1, <3>2, AbstractStep
  <2>. QED  BY <1>5, <2>2, <2>3 DEF OpenTruncate
<1>6. ASSUME NEW t \in Turns, WriteFile(t) PROVE [Abstract!Next]_(Abstract!vars)
  <2>1. /\ pc[t] = "writing" /\ reply[t] = "none" /\ view' = view
        /\ Goto(t, "leaving") /\ Answer(t, "ok")
    BY <1>6 DEF WriteFile, At, AloneInv, NoReplyYet, Unanswered
  <2>2. Recorded(t)
    BY <2>1, OutcomeStep
  <2>3. ASSUME ~Voided
        PROVE  Log' = Prune(Append(Log, t)) \/ (Lossy' /\ Log' \in {Log, <<>>})
    <3>1. Log = view[t] /\ file = Torn
      BY <2>1, <2>3, LogOfWriter DEF AloneInv
    <3>2. \A u \in Turns : pc'[u] # "writing"
      BY <2>1, <2>3 DEF Goto, TypeOK, AloneInv, Working
    <3>3. Log' = file'.msgs
      BY <3>2 DEF Log, Writers, Parsed
    <3>4. CASE file' \in Overwrite(Updated(t)) /\ UNCHANGED faults
      <4>1. file' = Whole(Updated(t))
        BY <3>1, <3>4 DEF Overwrite
      <4>. QED  BY <3>1, <3>3, <4>1 DEF Whole, Updated
    <3>5. CASE file' \in {file, Mixed} /\ Fault
      <4>1. Log' = <<>>
        BY <3>1, <3>3, <3>5 DEF Torn, Mixed
      <4>2. Lossy'
        BY <3>5, ConstantsAssumption DEF Fault, TypeOK, Lossy
      <4>. QED  BY <4>1, <4>2
    <3>. QED  BY <1>6, <3>4, <3>5 DEF WriteFile
  <2>. QED  BY <2>2, <2>3, AbstractStep
<1>7. ASSUME NEW p \in Procs, Crash(p) PROVE [Abstract!Next]_(Abstract!vars)
  <2>. DEFINE InFlight == {t \in Turns : ProcOf[t] = p /\ pc[t] \notin {"idle", "done"}}
              D == {t \in InFlight : reply[t] = "none" /\ pc[t] # "killed"}
  <2>1. /\ pc' = [t \in Turns |-> IF t \in InFlight THEN "killed" ELSE pc[t]]
        /\ reply' = reply /\ file' = file /\ view' = view
    BY <1>7 DEF Crash
  <2>2. Closed(D)
    <3>1. \A t \in D : Outcome[t] = "pending"
      BY DEF Outcome
    <3>2. Outcome' = [t \in Turns |-> IF t \in D THEN "closed" ELSE Outcome[t]]
      BY <2>1 DEF Outcome
    <3>. QED  BY <3>1, <3>2 DEF Closed
  <2>3. Lossy'
    BY <1>7, ConstantsAssumption DEF Crash, Fault, TypeOK, Lossy
  <2>4. ASSUME ~Voided PROVE Log' = Log \/ Log' = <<>>
    <3>1. CASE Writers \cap InFlight = {}
      <4>1. Writers' = Writers
        BY <2>1, <3>1 DEF Writers
      <4>. QED  BY <2>1, <4>1 DEF Log, Parsed
    <3>2. CASE Writers \cap InFlight # {}
      <4>1. PICK t \in Writers : t \in InFlight
        BY <3>2
      <4>2. Writers = {t} /\ file = Torn
        BY <2>4, <4>1 DEF Writers, AloneInv, Working
      <4>3. Writers' = {}
        BY <2>1, <4>1, <4>2 DEF Writers
      <4>. QED  BY <2>1, <4>2, <4>3 DEF Log, Parsed, Torn
    <3>. QED  BY <3>1, <3>2
  <2>5. D \in SUBSET Turns
    OBVIOUS
  <2>. HIDE DEF D
  <2>. QED  BY <2>2, <2>3, <2>4, <2>5, AbstractStep
<1>8. CASE UNCHANGED <<pc, view, reply, file>>
  <2>1. SameOutcome /\ Log' = Log
    BY <1>8 DEF SameOutcome, Outcome, Log, Writers, Parsed
  <2>. QED  BY <2>1, AbstractStep
<1>. QED  BY <1>1, <1>2, <1>3, <1>4, <1>5, <1>6, <1>7, <1>8 DEF Next, Step, Restart, Idle, vars

(* ImplementsLog: for any number of slots and processes, every budget and     *)
(* every set of turns, the dispatcher and its history file implement the      *)
(* abstract log until two turns work on the history at the same time: before  *)
(* that, and before the first fault, no turn that was answered is lost, and   *)
(* no turn sees a shortened log.                                              *)
THEOREM DispatchImplementsLog == Spec => ImplementsLog
<1>1. Init => MemoryInv /\ AloneInv /\ Abstract!Init
  <2>. SUFFICES ASSUME Init PROVE MemoryInv /\ AloneInv /\ Abstract!Init
    OBVIOUS
  <2>1. MemoryInv
    BY DEF Init, MemoryInv, NoReplyYet, OnlyAnsweredIsRemembered, Absent, Range
  <2>2. AloneInv
    BY <2>1 DEF Init, AloneInv, MemoryInv, Working
  <2>3. Abstract!Init
    BY DEF Init, Abstract!Init, Log, Outcome, Writers, Parsed, Absent, TypeOK
  <2>. QED  BY <2>1, <2>2, <2>3
<1>. QED  BY <1>1, TypeCorrect, MemoryStep, AloneStep, RefinementStep, PTL
          DEF Spec, ImplementsLog, Abstract!Spec

-----------------------------------------------------------------------------
(* What Prune returns fits the budget, or is nothing. *)
LEMMA PruneFits ==
  ASSUME NEW h \in Seq(Turns)
  PROVE  Prune(h) = <<>> \/ Weight(Prune(h)) <= TokenBudget
<1>1. CASE Fits(h) = {}
  BY <1>1 DEF Prune
<1>2. CASE Fits(h) # {}
  <2>. DEFINE k == CHOOSE k \in Fits(h) : \A j \in Fits(h) : k <= j
  <2>1. Fits(h) \subseteq 0 .. Len(h)
    BY DEF Fits
  <2>2. k \in Fits(h)
    BY <1>2, <2>1, LeastNatural
  <2>3. Prune(h) = SubSeq(h, k + 1, Len(h))
    BY <1>2 DEF Prune
  <2>4. Weight(SubSeq(h, k + 1, Len(h))) <= TokenBudget
    <3>. HIDE DEF k
    <3>. QED  BY <2>2 DEF Fits
  <2>. QED  BY <2>3, <2>4
<1>. QED  BY <1>1, <1>2

(* Whatever is written to the file fits, and a truncated file holds nothing. *)
LEMMA BudgetStep == TypeOK /\ StoredFitsBudget /\ [Next]_vars => StoredFitsBudget'
<1>. SUFFICES ASSUME TypeOK, StoredFitsBudget, [Next]_vars PROVE StoredFitsBudget'
  OBVIOUS
<1>1. ASSUME file' = file PROVE StoredFitsBudget'
  BY <1>1 DEF StoredFitsBudget
<1>2. ASSUME file'.msgs = <<>> PROVE StoredFitsBudget'
  BY <1>2 DEF StoredFitsBudget
<1>3. ASSUME NEW t \in Turns, OpenTruncate(t) PROVE StoredFitsBudget'
  <2>1. file' = Torn \/ file' = file
    BY <1>3 DEF OpenTruncate
  <2>2. Torn.msgs = <<>>
    BY DEF Torn
  <2>. QED  BY <1>1, <1>2, <2>1, <2>2
<1>4. ASSUME NEW t \in Turns, WriteFile(t) PROVE StoredFitsBudget'
  <2>1. file' \in {file, Whole(Updated(t)), Mixed}
    BY <1>4 DEF WriteFile, Overwrite
  <2>2. Mixed.msgs = <<>> /\ Whole(Updated(t)).msgs = Updated(t)
    BY DEF Mixed, Whole
  <2>3. Append(view[t], t) \in Seq(Turns)
    BY DEF TypeOK
  <2>4. Updated(t) = <<>> \/ Weight(Updated(t)) <= TokenBudget
    BY <2>3, PruneFits DEF Updated
  <2>5. file' = Whole(Updated(t)) => StoredFitsBudget'
    <3>. SUFFICES ASSUME file'.msgs = Updated(t), Updated(t) # <<>> PROVE StoredFitsBudget'
      BY <1>2, <2>2
    <3>. QED  BY <2>4 DEF StoredFitsBudget
  <2>. QED  BY <1>1, <1>2, <2>1, <2>2, <2>5
<1>. QED  BY <1>1, <1>3, <1>4
          DEF Next, Step, Arrive, Acquire, Cancel, LoadHistory, ModelAnswers, ModelFails,
              Return, Crash, Restart, Idle, vars

(* What is stored fits the token budget, whatever the budget, the sizes of    *)
(* the turns and the faults.                                                  *)
THEOREM BudgetHolds == Spec => []StoredFitsBudget
<1>1. Init => StoredFitsBudget
  BY DEF Init, Absent, StoredFitsBudget
<1>. QED  BY <1>1, BudgetStep, TypeCorrect, PTL DEF Spec

-----------------------------------------------------------------------------
(* History.Prune is a loop in the code, and a choice in the model.         *)

(* The number of oldest turns that Prune drops is the least that will do.  *)
LEMMA PruneDropsLeast ==
  ASSUME NEW h \in Seq(Turns), NEW k \in Fits(h), \A j \in Fits(h) : k <= j
  PROVE  Prune(h) = SubSeq(h, k + 1, Len(h))
<1>. DEFINE c == CHOOSE i \in Fits(h) : \A j \in Fits(h) : i <= j
<1>1. Fits(h) \subseteq Nat
  BY DEF Fits
<1>2. c \in Fits(h) /\ \A j \in Fits(h) : c <= j
  OBVIOUS
<1>3. Prune(h) = SubSeq(h, c + 1, Len(h))
  BY DEF Prune
<1>. HIDE DEF c
<1>4. c <= k /\ k <= c /\ c \in Nat /\ k \in Nat
  BY <1>1, <1>2
<1>5. c = k
  BY <1>4
<1>. QED  BY <1>3, <1>5

(* What is left of the tail is what is left of the whole. *)
LEMMA RestOfTail ==
  ASSUME NEW h \in Seq(Turns), h # <<>>, NEW k \in 0 .. Len(h) - 1
  PROVE  /\ Tail(h) \in Seq(Turns) /\ Len(Tail(h)) = Len(h) - 1 /\ Len(h) \in Nat
         /\ SubSeq(Tail(h), k + 1, Len(h) - 1) = SubSeq(h, k + 2, Len(h))
<1>. DEFINE t == Tail(h)
            n == Len(h)
            a == SubSeq(t, k + 1, n - 1)
            b == SubSeq(h, k + 2, n)
<1>1. /\ t \in Seq(Turns) /\ Len(t) = n - 1 /\ n \in Nat
      /\ \A i \in 1 .. n - 1 : t[i] = h[i + 1]
  BY HeadTailProperties, LenProperties
<1>2. \A i \in k + 1 .. n - 1 : t[i] \in Turns
  BY <1>1, ElementOfSeq
<1>3. \A i \in k + 2 .. n : h[i] \in Turns
  BY <1>1, ElementOfSeq
<1>. HIDE DEF t, n
<1>4. /\ a \in Seq(Turns)
      /\ Len(a) = IF k + 1 <= n - 1 THEN n - 1 - (k + 1) + 1 ELSE 0
      /\ \A i \in 1 .. n - 1 - (k + 1) + 1 : a[i] = t[k + 1 + i - 1]
  BY <1>1, <1>2, SubSeqProperties
<1>5. /\ b \in Seq(Turns)
      /\ Len(b) = IF k + 2 <= n THEN n - (k + 2) + 1 ELSE 0
      /\ \A i \in 1 .. n - (k + 2) + 1 : b[i] = h[k + 2 + i - 1]
  BY <1>1, <1>3, SubSeqProperties
<1>6. k \in Nat /\ k <= n - 1
  BY <1>1 DEF n
<1>. HIDE DEF a, b
<1>7. Len(a) = n - 1 - k /\ Len(b) = n - 1 - k
  BY <1>1, <1>4, <1>5, <1>6
<1>8. ASSUME NEW i \in 1 .. n - 1 - k PROVE a[i] = b[i]
  <2>1. a[i] = t[k + i] /\ b[i] = h[k + i + 1]
    <3>1. i \in 1 .. n - 1 - (k + 1) + 1 /\ i \in 1 .. n - (k + 2) + 1
      BY <1>1, <1>6
    <3>2. k + 1 + i - 1 = k + i /\ k + 2 + i - 1 = k + i + 1
      BY <1>6
    <3>. QED  BY <1>4, <1>5, <3>1, <3>2
  <2>2. k + i \in 1 .. n - 1
    BY <1>1, <1>6
  <2>. QED  BY <1>1, <2>1, <2>2
<1>9. a = b
  BY <1>4, <1>5, <1>7, <1>8, SeqEqual
<1>. QED  BY <1>1, <1>9 DEF a, b, t, n

\* Whether nothing need be dropped is whether the whole history fits.
LEMMA FitsAtZero ==
  ASSUME NEW h, Len(h) \in Nat, SubSeq(h, 1, Len(h)) = h
  PROVE  0 \in Fits(h) <=> Weight(h) <= TokenBudget
<1>1. 0 \in 0 .. Len(h) /\ 0 + 1 = 1
  OBVIOUS
<1>2. 0 \in Fits(h) <=> Weight(SubSeq(h, 0 + 1, Len(h))) <= TokenBudget
  BY <1>1 DEF Fits
<1>. QED  BY <1>1, <1>2

(* Prune is the loop of history.go: a history that fits, or is empty, is left *)
(* alone, and any other loses its oldest turn before the next look at it.     *)
THEOREM PruneIsTheLoop ==
  ASSUME NEW h \in Seq(Turns)
  PROVE  Prune(h) = IF Weight(h) <= TokenBudget \/ h = <<>> THEN h ELSE Prune(Tail(h))
<1>. DEFINE n == Len(h)
<1>1. n \in Nat /\ SubSeq(h, 1, n) = h
  <2>1. n \in Nat /\ \A i \in 1 .. n : h[i] \in Turns
    BY LenProperties, ElementOfSeq
  <2>2. /\ SubSeq(h, 1, n) \in Seq(Turns)
        /\ Len(SubSeq(h, 1, n)) = IF 1 <= n THEN n - 1 + 1 ELSE 0
        /\ \A i \in 1 .. n - 1 + 1 : SubSeq(h, 1, n)[i] = h[1 + i - 1]
    BY <2>1, SubSeqProperties
  <2>3. Len(SubSeq(h, 1, n)) = n
    <3>1. n = 0 \/ 1 <= n
      BY <2>1
    <3>. HIDE DEF n
    <3>. QED  BY <2>1, <2>2, <3>1
  <2>. QED  BY <2>1, <2>2, <2>3, SeqEqual
<1>2. CASE Weight(h) <= TokenBudget
  <2>1. 0 \in Fits(h)
    BY <1>1, <1>2, FitsAtZero
  <2>0. \A j \in Fits(h) : 0 <= j
    BY DEF Fits
  <2>2. Prune(h) = SubSeq(h, 0 + 1, n)
    BY <2>0, <2>1, PruneDropsLeast
  <2>3. 0 + 1 = 1
    OBVIOUS
  <2>. QED  BY <1>1, <1>2, <2>2, <2>3
<1>3. CASE ~(Weight(h) <= TokenBudget) /\ h = <<>>
  <2>1. PICK k \in 0 .. Len(h) : Prune(h) = SubSeq(h, k + 1, Len(h))
    BY PruneIsTail
  <2>2. Len(h) = 0 /\ k = 0
    BY <1>3, <2>1
  <2>. QED  BY <1>1, <1>3, <2>1, <2>2
<1>4. CASE ~(Weight(h) <= TokenBudget) /\ h # <<>>
  <2>. DEFINE t == Tail(h)
  <2>1. t \in Seq(Turns) /\ Len(t) = n - 1 /\ n >= 1
    BY <1>1, <1>4, HeadTailProperties, EmptySeq
  <2>2. \A k \in 0 .. n - 1 : SubSeq(t, k + 1, n - 1) = SubSeq(h, k + 2, n)
    BY <1>4, RestOfTail
  <2>3. 0 \notin Fits(h)
    BY <1>1, <1>4, FitsAtZero
  <2>4. \A k \in 0 .. n - 1 : k \in Fits(t) <=> k + 1 \in Fits(h)
    <3>. SUFFICES ASSUME NEW k \in 0 .. n - 1 PROVE k \in Fits(t) <=> k + 1 \in Fits(h)
      OBVIOUS
    <3>1. k \in Fits(t) <=> Weight(SubSeq(t, k + 1, n - 1)) <= TokenBudget
      BY <2>1 DEF Fits
    <3>2. k + 1 \in 0 .. n /\ (k + 1) + 1 = k + 2
      BY <1>1
    <3>3. k + 1 \in Fits(h) <=> Weight(SubSeq(h, k + 2, n)) <= TokenBudget
      BY <3>2 DEF Fits
    <3>. QED  BY <2>2, <3>1, <3>3
  <2>5. Fits(t) \subseteq 0 .. n - 1 /\ Fits(h) \subseteq 0 .. n
    BY <2>1 DEF Fits
  <2>. HIDE DEF t, n
  <2>6. Fits(h) \subseteq 1 .. n
    BY <1>1, <2>3, <2>5
  <2>7. CASE Fits(t) = {}
    <3>1. Fits(h) = {}
      <4>. SUFFICES ASSUME NEW k \in Fits(h) PROVE FALSE
        OBVIOUS
      <4>1. k - 1 \in 0 .. n - 1 /\ (k - 1) + 1 = k
        BY <1>1, <2>6
      <4>2. k - 1 \in Fits(t)
        BY <2>4, <4>1
      <4>. QED  BY <2>7, <4>2
    <3>2. Prune(h) = <<>> /\ Prune(t) = <<>>
      BY <2>7, <3>1 DEF Prune
    <3>. QED  BY <1>4, <3>2 DEF t
  <2>8. CASE Fits(t) # {}
    <3>1. PICK k \in Fits(t) : \A j \in Fits(t) : k <= j
      <4>1. Fits(t) \subseteq Nat
        BY <2>5
      <4>. QED  BY <2>8, <4>1, LeastNatural
    <3>2. k \in 0 .. n - 1
      BY <2>5
    <3>3. k + 1 \in Fits(h)
      BY <2>4, <3>2
    <3>4. ASSUME NEW j \in Fits(h) PROVE k + 1 <= j
      <4>1. j - 1 \in 0 .. n - 1 /\ (j - 1) + 1 = j
        BY <1>1, <2>6
      <4>2. j - 1 \in Fits(t)
        BY <2>4, <4>1
      <4>3. k <= j - 1
        BY <3>1, <4>2
      <4>. QED  BY <3>2, <4>1, <4>3
    <3>5. Prune(h) = SubSeq(h, (k + 1) + 1, n)
      BY <3>3, <3>4, PruneDropsLeast DEF n
    <3>6. Prune(t) = SubSeq(t, k + 1, n - 1)
      BY <2>1, <3>1, PruneDropsLeast
    <3>7. (k + 1) + 1 = k + 2
      BY <3>2
    <3>. QED  BY <1>4, <2>2, <3>2, <3>5, <3>6, <3>7 DEF t
  <2>. QED  BY <2>7, <2>8
<1>. QED  BY <1>2, <1>3, <1>4
-----------------------------------------------------------------------------
(* What keeps a turn from waiting or running for ever.                     *)

(* Nobody waits for a slot that nobody holds: a turn at the semaphore finds  *)
(* it free, or a turn of its own process that is on its way through.         *)
THEOREM NobodyWaitsInVain ==
  Spec => [](\A t \in Turns : pc[t] = "wait" =>
               \/ sem[ProcOf[t]] < Concurrency
               \/ \E u \in Turns : ProcOf[u] = ProcOf[t] /\ pc[u] \in Holding)
<1>1. SemaphoreExact =>
        \A t \in Turns : pc[t] = "wait" =>
          \/ sem[ProcOf[t]] < Concurrency
          \/ \E u \in Turns : ProcOf[u] = ProcOf[t] /\ pc[u] \in Holding
  <2>. SUFFICES ASSUME SemaphoreExact, NEW t \in Turns
                PROVE  \/ sem[ProcOf[t]] < Concurrency
                       \/ \E u \in Turns : ProcOf[u] = ProcOf[t] /\ pc[u] \in Holding
    OBVIOUS
  <2>1. ProcOf[t] \in Procs
    BY ConstantsAssumption
  <2>2. CASE Holders(ProcOf[t]) = {}
    <3>1. sem[ProcOf[t]] = 0
      BY <2>1, <2>2, FS_EmptySet DEF SemaphoreExact
    <3>. QED  BY <3>1, ConstantsAssumption
  <2>3. CASE Holders(ProcOf[t]) # {}
    BY <2>3 DEF Holders
  <2>. QED  BY <2>2, <2>3
<1>. QED  BY <1>1, SemaphoreIsExact, PTL

\* How far a turn has come.
Stage(place) ==
  CASE place = "idle" -> 0 [] place = "wait" -> 1 [] place = "admitted" -> 2
    [] place = "calling" -> 3 [] place = "saving" -> 4 [] place = "writing" -> 5
    [] place = "leaving" -> 6 [] OTHER -> 7

(* Each step of a turn takes it further. *)
LEMMA StageStep ==
  ASSUME TypeOK, NEW t \in Turns, Step(t) \/ Cancel(t)
  PROVE  /\ Stage(pc[t]) < Stage(pc'[t])
         /\ \A u \in Turns : Stage(pc[u]) <= Stage(pc'[u])
<1>1. PICK x \in Places : Goto(t, x) /\ Stage(pc[t]) < Stage(x)
  BY DEF Step, Arrive, Acquire, Cancel, LoadHistory, ModelAnswers, ModelFails, OpenTruncate,
         WriteFile, Return, At, Stage, Places
<1>2. pc' = [pc EXCEPT ![t] = x] /\ pc \in [Turns -> Places]
  BY <1>1 DEF Goto, TypeOK
<1>3. \A place : Stage(place) \in Nat
  BY DEF Stage
<1>. QED  BY <1>1, <1>2, <1>3

(* No turn ever goes back, and each step takes one further, except that a      *)
(* process dies or comes back: what was dispatched comes to rest.              *)
THEOREM TurnsMoveOn ==
  Spec => [][/\ \A t \in Turns : Stage(pc[t]) <= Stage(pc'[t])
             /\ (\E t \in Turns : Stage(pc[t]) < Stage(pc'[t])) \/ up' # up]_vars
<1>1. ASSUME TypeOK, [Next]_vars
      PROVE  [/\ \A t \in Turns : Stage(pc[t]) <= Stage(pc'[t])
              /\ (\E t \in Turns : Stage(pc[t]) < Stage(pc'[t])) \/ up' # up]_vars
  <2>1. CASE \E t \in Turns : Step(t) \/ Cancel(t)
    BY <1>1, <2>1, StageStep
  <2>2. ASSUME NEW p \in Procs, Crash(p) \/ Restart(p)
        PROVE  up' # up /\ \A t \in Turns : Stage(pc[t]) <= Stage(pc'[t])
    <3>1. up' # up
      BY <1>1, <2>2 DEF Crash, Restart, TypeOK
    <3>2. \A t \in Turns : pc'[t] \in {pc[t], "killed"}
      BY <2>2 DEF Crash, Restart
    <3>3. \A place : Stage(place) \in Nat /\ Stage(place) <= 7 /\ Stage("killed") = 7
      BY DEF Stage
    <3>. QED  BY <3>1, <3>2, <3>3
  <2>. QED  BY <1>1, <2>1, <2>2 DEF Next, Idle
<1>. QED  BY <1>1, TypeCorrect, PTL DEF Spec

=============================================================================
