--------------------------- MODULE PatchesProofs ---------------------------
(***************************************************************************)
(* Proofs about internal/patch. First Patches, for any files, names,       *)
(* patches, edits and restarts: a patch that was refused has changed       *)
(* nothing, and a Revert that succeeds leaves no trace of any patch since  *)
(* the daemon was started in a file that was patched under one name. Then  *)
(* UnifiedDiff, for any files, texts and diffs: a diff of one file is      *)
(* applied exactly when the lines that it shows are there, it keeps the    *)
(* lines that it does not show, and its inverse gives the file back.       *)
(***************************************************************************)
EXTENDS Patches, UnifiedDiff, FiniteSetTheorems, SequenceTheorems, TLAPS

-----------------------------------------------------------------------------
LEMMA TypeOKInit == Init => TypeOK
<1>. SUFFICES ASSUME Init PROVE TypeOK
  OBVIOUS
<1>1. Nothing \in [Names -> SUBSET Edits]
  BY DEF Nothing
<1>2. outcome \in [AgentPatches -> {"new"}] /\ disk \in [Files -> SUBSET Edits]
  BY DEF Init
<1>. QED
  BY <1>1, <1>2 DEF Init, TypeOK

\* End ends what "begun" means: the patch has its outcome, and pc is idle.
LEMMA EndTypes ==
  ASSUME TypeOK, NEW how \in {"refused", "torn", "applied"},
         End(how), patch' = patch
  PROVE  /\ outcome' \in [AgentPatches -> {"new", "begun", "refused", "torn", "applied"}]
         /\ pc' = "idle" /\ todo' = {} /\ files' = {} /\ staged' = Nothing
         /\ staged' \in [Names -> SUBSET Edits]
         /\ \A p \in AgentPatches :
               outcome'[p] = "begun" <=> p = patch' /\ pc' \in {"reading", "writing"}
BY DEF TypeOK, End, Nothing

\* What a name leads to is a file, and what the file holds are edits.
LEMMA ContentTyped ==
  ASSUME TypeOK, NEW n \in Names
  PROVE  FileOf[n] \in Files /\ Content(n) \in SUBSET Edits
BY EditsAssumption DEF TypeOK, Content

\* A record is a content the file has, or had.
LEMMA RecordFacts ==
  ASSUME TypeOK, NEW n \in Names, Record(n)
  PROVE  /\ recorded' = recorded \union {n} /\ recorded' \subseteq Names
         /\ originals' \in [Names -> SUBSET Edits]
         /\ \A m \in Names :
               \/ originals'[m] = originals[m] /\ (m = n => m \in recorded)
               \/ m = n /\ m \notin recorded /\ originals'[m] = Content(n)
<1>1. Content(n) \in SUBSET Edits
  BY ContentTyped
<1>. QED
  BY <1>1 DEF TypeOK, Record

\* A write that is cut off leaves a file as it was, or a part of what was to be written.
LEMMA CutFacts ==
  ASSUME TypeOK, NEW n \in Names, NEW data \in SUBSET Edits, Cut(n, data)
  PROVE  /\ disk' \in [Files -> SUBSET Edits]
         /\ \A f \in Files : \/ disk'[f] = disk[f]
                             \/ f = FileOf[n] /\ disk'[f] \subseteq data
<1>1. FileOf[n] \in Files
  BY ContentTyped
<1>. QED
  BY <1>1 DEF TypeOK, Cut

\* So does the end of the daemon: the part is of a file it was writing.
LEMMA RestartFacts ==
  ASSUME TypeOK, Restart
  PROVE  /\ disk' \in [Files -> SUBSET Edits]
         /\ \A f \in Files :
               \/ disk'[f] = disk[f]
               \/ \E n \in todo : pc = "writing" /\ f = FileOf[n] /\ disk'[f] \subseteq staged[n]
               \/ \E n \in todo : pc = "reverting" /\ f = FileOf[n]
                                    /\ disk'[f] \subseteq originals[n]
<1>1. CASE UNCHANGED disk
  BY <1>1 DEF TypeOK
<1>2. ASSUME pc = "writing", NEW n \in todo, Cut(n, staged[n])
      PROVE  /\ disk' \in [Files -> SUBSET Edits]
             /\ \A f \in Files : \/ disk'[f] = disk[f]
                                 \/ f = FileOf[n] /\ disk'[f] \subseteq staged[n]
  <2>1. n \in Names /\ staged[n] \in SUBSET Edits
    BY DEF TypeOK
  <2>. QED
    BY <1>2, <2>1, CutFacts
<1>3. ASSUME pc = "reverting", NEW n \in todo, Cut(n, originals[n])
      PROVE  /\ disk' \in [Files -> SUBSET Edits]
             /\ \A f \in Files : \/ disk'[f] = disk[f]
                                 \/ f = FileOf[n] /\ disk'[f] \subseteq originals[n]
  <2>1. n \in Names /\ originals[n] \in SUBSET Edits
    BY DEF TypeOK
  <2>. QED
    BY <1>3, <2>1, CutFacts
<1>4. CASE \E n \in todo : pc = "writing" /\ Cut(n, staged[n])
  BY <1>2, <1>4
<1>5. CASE \E n \in todo : pc = "reverting" /\ Cut(n, originals[n])
  BY <1>3, <1>5
<1>. QED
  BY <1>1, <1>4, <1>5 DEF Restart

LEMMA TypeOKStep == TypeOK /\ [Next]_vars => TypeOK'
<1>. SUFFICES ASSUME TypeOK, [Next]_vars
              PROVE  TypeOK'
  OBVIOUS
<1>1. ASSUME NEW p \in AgentPatches, BeginApply(p)
      PROVE  TypeOK'
  BY <1>1 DEF TypeOK, BeginApply, life
<1>2. CASE BeginRevert
  BY <1>2 DEF TypeOK, BeginRevert, life
<1>3. ASSUME NEW n \in Names, ReadFile(n)
      PROVE  TypeOK'
  <2>1. Content(n) \union {patch} \in SUBSET Edits
    BY ContentTyped DEF TypeOK, Edits
  <2>. QED
    BY <1>3, <2>1, RecordFacts DEF TypeOK, ReadFile, life
<1>4. ASSUME NEW n \in Names, ReadFails(n)
      PROVE  TypeOK'
  <2>1. recorded' \subseteq Names /\ originals' \in [Names -> SUBSET Edits]
    BY <1>4, RecordFacts DEF TypeOK, ReadFails
  <2>. QED
    BY <1>4, <2>1, EndTypes DEF TypeOK, ReadFails, life
<1>5. ASSUME NEW n \in Names, WriteFile(n)
      PROVE  TypeOK'
  <2>1. disk' \in [Files -> SUBSET Edits]
    BY <1>5, ContentTyped DEF TypeOK, WriteFile
  <2>2. CASE todo = {n}
    BY <1>5, <2>1, <2>2, EndTypes DEF TypeOK, WriteFile, life
  <2>3. CASE todo # {n}
    BY <1>5, <2>1, <2>3 DEF TypeOK, WriteFile, life
  <2>. QED
    BY <2>2, <2>3
<1>6. ASSUME NEW n \in Names, WriteFails(n)
      PROVE  TypeOK'
  <2>1. disk' \in [Files -> SUBSET Edits]
    BY <1>6, CutFacts DEF TypeOK, WriteFails
  <2>. QED
    BY <1>6, <2>1, EndTypes DEF TypeOK, WriteFails, life
<1>7. ASSUME NEW n \in Names, RevertFile(n)
      PROVE  TypeOK'
  <2>1. disk' \in [Files -> SUBSET Edits]
    BY <1>7, ContentTyped DEF TypeOK, RevertFile
  <2>. QED
    BY <1>7, <2>1 DEF TypeOK, RevertFile, life
<1>8. ASSUME NEW n \in Names, RevertFails(n)
      PROVE  TypeOK'
  <2>1. disk' \in [Files -> SUBSET Edits]
    BY <1>8, CutFacts DEF TypeOK, RevertFails
  <2>. QED
    BY <1>8, <2>1 DEF TypeOK, RevertFails, life
<1>9. ASSUME NEW f \in Files, NEW u \in UserEdits, UserEditsFile(f, u)
      PROVE  TypeOK'
  BY <1>9 DEF TypeOK, UserEditsFile, Edits, life
<1>10. ASSUME NEW f \in Files, NEW e \in ToolEdits, ToolEditsFile(f, e)
      PROVE  TypeOK'
  BY <1>10 DEF TypeOK, ToolEditsFile, Edits, life
<1>11. CASE Restart
  <2>1. disk' \in [Files -> SUBSET Edits]
    BY <1>11, RestartFacts
  <2>2. Nothing \in [Names -> SUBSET Edits]
    BY DEF Nothing
  <2>3. /\ outcome' \in [AgentPatches -> {"new", "refused", "torn", "applied"}]
        /\ earlier' \subseteq AgentPatches /\ restarts' \in Nat
    BY <1>11 DEF TypeOK, Restart
  <2>. QED
    BY <1>11, <2>1, <2>2, <2>3 DEF TypeOK, Restart
<1>12. CASE UNCHANGED vars
  BY <1>12 DEF TypeOK, vars, life
<1>. QED
  BY <1>1, <1>2, <1>3, <1>4, <1>5, <1>6, <1>7, <1>8, <1>9, <1>10, <1>11, <1>12 DEF Next

\* The variables keep their types, for every value of the constants.
THEOREM TypeCorrect == Spec => []TypeOK
BY TypeOKInit, TypeOKStep, PTL DEF Spec

-----------------------------------------------------------------------------
(***************************************************************************)
(* Why a refused patch has changed nothing.  What a file shows, what is    *)
(* recorded of it and, past the reading, what is staged for it are patches *)
(* that have begun to be written, and a patch that is refused never does.  *)
(***************************************************************************)
Wrote(p) == outcome[p] \in {"torn", "applied"} \/ (p = patch /\ pc = "writing")
BeingRead(p) == p = patch /\ pc = "reading"

ShownAreWritten == \A f \in Files : \A p \in AgentPatches \intersect disk[f] : Wrote(p)
OriginalsAreWritten ==
    \A n \in Names : \A p \in AgentPatches \intersect originals[n] : Wrote(p)
StagedAreWritten ==
    \A n \in Names : \A p \in AgentPatches \intersect staged[n] : Wrote(p) \/ BeingRead(p)

WInv == TypeOK /\ ShownAreWritten /\ OriginalsAreWritten /\ StagedAreWritten

LEMMA WInvInit == Init => WInv
BY TypeOKInit
   DEF Init, Nothing, WInv, ShownAreWritten, OriginalsAreWritten, StagedAreWritten

\* An edit that is not a patch shows no patch.
LEMMA EditsShowNoPatch ==
  ASSUME TypeOK, NEW f \in Files, NEW e \in UserEdits \union ToolEdits,
         disk' = [disk EXCEPT ![f] = @ \union {e}]
  PROVE  \A g \in Files : AgentPatches \intersect disk'[g] = AgentPatches \intersect disk[g]
BY EditsAssumption DEF TypeOK

\* A patch that is written stays so when it ends, torn or applied.
LEMMA EndKeepsWritten ==
  ASSUME TypeOK, NEW how \in {"refused", "torn", "applied"}, End(how), patch' = patch,
         how = "refused" => pc = "reading"
  PROVE  \A p \in AgentPatches : Wrote(p) => Wrote(p)'
BY DEF TypeOK, End, Wrote

LEMMA WInvStep == WInv /\ [Next]_vars => WInv'
<1>. SUFFICES ASSUME WInv, [Next]_vars
              PROVE  WInv'
  OBVIOUS
<1>0. TypeOK /\ TypeOK'
  BY TypeOKStep DEF WInv
<1>i. ShownAreWritten /\ OriginalsAreWritten /\ StagedAreWritten
  BY DEF WInv
<1>s. ASSUME \A p \in AgentPatches : Wrote(p) => Wrote(p)',
             \A f \in Files : \A p \in AgentPatches \intersect disk'[f] : Wrote(p),
             UNCHANGED originals \/ originals' = Nothing,
             staged' = Nothing
      PROVE  WInv'
  BY <1>0, <1>i, <1>s DEF WInv, ShownAreWritten, OriginalsAreWritten, StagedAreWritten, Nothing
<1>k. ASSUME NEW n \in Names, Record(n)
      PROVE  \A m \in Names : \A p \in AgentPatches \intersect originals'[m] : Wrote(p)
  <2>1. \A m \in Names : \/ originals'[m] = originals[m]
                         \/ originals'[m] = Content(n)
    BY <1>0, <1>k, RecordFacts
  <2>2. FileOf[n] \in Files
    BY <1>0, ContentTyped
  <2>. QED
    BY <1>i, <2>1, <2>2 DEF OriginalsAreWritten, ShownAreWritten, Content
<1>1. ASSUME NEW p \in AgentPatches, BeginApply(p)
      PROVE  WInv'
  <2>1. \A q \in AgentPatches : ~BeingRead(q) /\ (Wrote(q) => Wrote(q)')
    BY <1>0, <1>1 DEF BeginApply, Wrote, BeingRead, TypeOK
  <2>. QED
    BY <1>0, <1>i, <1>1, <2>1
       DEF BeginApply, WInv, ShownAreWritten, OriginalsAreWritten, StagedAreWritten
<1>2. CASE BeginRevert
  <2>1. \A q \in AgentPatches : (Wrote(q) => Wrote(q)') /\ (BeingRead(q) => BeingRead(q)')
    BY <1>2 DEF BeginRevert, Wrote, BeingRead
  <2>. QED
    BY <1>0, <1>i, <1>2, <2>1
       DEF BeginRevert, WInv, ShownAreWritten, OriginalsAreWritten, StagedAreWritten
<1>3. ASSUME NEW n \in Names, ReadFile(n)
      PROVE  WInv'
  <2>1. \A p \in AgentPatches :
           (Wrote(p) => Wrote(p)') /\ (BeingRead(p) => Wrote(p)' \/ BeingRead(p)')
    BY <1>3 DEF ReadFile, Wrote, BeingRead
  <2>2. OriginalsAreWritten'
    BY <1>3, <1>k, <2>1 DEF ReadFile, OriginalsAreWritten
  <2>3. ASSUME NEW m \in Names, NEW p \in AgentPatches \intersect staged'[m]
        PROVE  Wrote(p) \/ BeingRead(p)
    <3>1. CASE m = n
      <4>1. staged'[m] = Content(n) \union {patch} /\ FileOf[n] \in Files /\ pc = "reading"
        BY <1>0, <1>3, <3>1, ContentTyped DEF ReadFile, TypeOK
      <4>. QED
        BY <1>i, <2>3, <4>1 DEF ShownAreWritten, Content, BeingRead
    <3>2. CASE m # n
      <4>1. staged'[m] = staged[m]
        BY <1>0, <1>3, <3>2 DEF ReadFile, TypeOK
      <4>. QED
        BY <1>i, <2>3, <4>1 DEF StagedAreWritten
    <3>. QED
      BY <3>1, <3>2
  <2>4. ShownAreWritten' /\ StagedAreWritten'
    BY <1>i, <1>3, <2>1, <2>3 DEF ReadFile, ShownAreWritten, StagedAreWritten
  <2>. QED
    BY <1>0, <2>2, <2>4 DEF WInv
<1>4. ASSUME NEW n \in Names, ReadFails(n)
      PROVE  WInv'
  <2>1. \A p \in AgentPatches : Wrote(p) => Wrote(p)'
    BY <1>0, <1>4, EndKeepsWritten DEF ReadFails
  <2>2. \A m \in Names : \A p \in AgentPatches \intersect originals'[m] : Wrote(p)
    BY <1>i, <1>4, <1>k DEF ReadFails, OriginalsAreWritten
  <2>3. disk' = disk /\ staged' = Nothing
    BY <1>4 DEF ReadFails, End
  <2>. QED
    BY <1>0, <1>i, <2>1, <2>2, <2>3
       DEF WInv, ShownAreWritten, OriginalsAreWritten, StagedAreWritten, Nothing
<1>5. ASSUME NEW n \in Names, WriteFile(n)
      PROVE  WInv'
  <2>1. \A f \in Files : \A p \in AgentPatches \intersect disk'[f] : Wrote(p)
    <3>1. \A f \in Files : disk'[f] = disk[f] \/ disk'[f] = staged[n]
      BY <1>0, <1>5 DEF WriteFile, TypeOK
    <3>. QED
      BY <1>i, <1>5, <3>1 DEF WriteFile, ShownAreWritten, StagedAreWritten, BeingRead
  <2>2. CASE todo = {n}
    <3>1. End("applied") /\ patch' = patch /\ UNCHANGED originals /\ staged' = Nothing
      BY <1>5, <2>2 DEF WriteFile, End
    <3>. QED
      BY <1>0, <1>s, <2>1, <3>1, EndKeepsWritten
  <2>3. CASE todo # {n}
    <3>1. UNCHANGED <<originals, staged, patch, pc, outcome>>
      BY <1>5, <2>3 DEF WriteFile
    <3>. QED
      BY <1>0, <1>i, <2>1, <3>1
         DEF WInv, ShownAreWritten, OriginalsAreWritten, StagedAreWritten, Wrote, BeingRead
  <2>. QED
    BY <2>2, <2>3
<1>6. ASSUME NEW n \in Names, WriteFails(n)
      PROVE  WInv'
  <2>1. \A f \in Files : \A p \in AgentPatches \intersect disk'[f] : Wrote(p)
    <3>1. staged[n] \in SUBSET Edits /\ pc = "writing"
      BY <1>0, <1>6 DEF WriteFails, TypeOK
    <3>2. \A f \in Files : disk'[f] = disk[f] \/ disk'[f] \subseteq staged[n]
      BY <1>0, <1>6, <3>1, CutFacts DEF WriteFails
    <3>. QED
      BY <1>i, <3>1, <3>2 DEF ShownAreWritten, StagedAreWritten, BeingRead
  <2>2. End("torn") /\ patch' = patch /\ UNCHANGED originals /\ staged' = Nothing
    BY <1>6 DEF WriteFails, End
  <2>. QED
    BY <1>0, <1>s, <2>1, <2>2, EndKeepsWritten
<1>r. ASSUME NEW n \in Names, pc = "reverting", pc' \in {"reverting", "idle"},
             \A f \in Files : disk'[f] = disk[f] \/ disk'[f] \subseteq originals[n],
             UNCHANGED <<originals, staged, patch, outcome>>
      PROVE  WInv'
  <2>1. \A f \in Files : \A p \in AgentPatches \intersect disk'[f] : Wrote(p)
    BY <1>i, <1>r DEF ShownAreWritten, OriginalsAreWritten
  <2>. QED
    BY <1>0, <1>i, <1>r, <2>1
       DEF WInv, ShownAreWritten, OriginalsAreWritten, StagedAreWritten, Wrote, BeingRead
<1>7. ASSUME NEW n \in Names, RevertFile(n)
      PROVE  WInv'
  <2>1. \A f \in Files : disk'[f] = disk[f] \/ disk'[f] = originals[n]
    BY <1>0, <1>7 DEF RevertFile, TypeOK
  <2>2. pc = "reverting" /\ pc' \in {"reverting", "idle"}
    BY <1>7 DEF RevertFile
  <2>. QED
    BY <1>r, <1>7, <2>1, <2>2 DEF RevertFile
<1>8. ASSUME NEW n \in Names, RevertFails(n)
      PROVE  WInv'
  <2>1. originals[n] \in SUBSET Edits
    BY <1>0 DEF TypeOK
  <2>2. \A f \in Files : disk'[f] = disk[f] \/ disk'[f] \subseteq originals[n]
    BY <1>0, <1>8, <2>1, CutFacts DEF RevertFails
  <2>. QED
    BY <1>r, <1>8, <2>2 DEF RevertFails
<1>e. ASSUME NEW f \in Files, NEW e \in UserEdits \union ToolEdits,
             disk' = [disk EXCEPT ![f] = @ \union {e}],
             UNCHANGED <<originals, pc, patch, staged, outcome>>
      PROVE  WInv'
  <2>1. \A g \in Files : AgentPatches \intersect disk'[g] = AgentPatches \intersect disk[g]
    BY <1>0, <1>e, EditsShowNoPatch
  <2>. QED
    BY <1>0, <1>i, <1>e, <2>1
       DEF WInv, ShownAreWritten, OriginalsAreWritten, StagedAreWritten, Wrote, BeingRead
<1>9. ASSUME NEW f \in Files, NEW u \in UserEdits, UserEditsFile(f, u)
      PROVE  WInv'
  BY <1>9, <1>e DEF UserEditsFile
<1>10. ASSUME NEW f \in Files, NEW e \in ToolEdits, ToolEditsFile(f, e)
       PROVE  WInv'
  BY <1>10, <1>e DEF ToolEditsFile
<1>11. CASE Restart
  <2>1. \A f \in Files : \A p \in AgentPatches \intersect disk'[f] : Wrote(p)
    BY <1>0, <1>11, <1>i, RestartFacts
       DEF TypeOK, ShownAreWritten, OriginalsAreWritten, StagedAreWritten, BeingRead
  <2>2. \A p \in AgentPatches : Wrote(p) => Wrote(p)'
    BY <1>0, <1>11 DEF Restart, Wrote, TypeOK
  <2>3. originals' = Nothing /\ staged' = Nothing
    BY <1>11 DEF Restart
  <2>. QED
    BY <1>s, <2>1, <2>2, <2>3
<1>12. CASE UNCHANGED vars
  BY <1>0, <1>i, <1>12
     DEF vars, WInv, ShownAreWritten, OriginalsAreWritten, StagedAreWritten, Wrote, BeingRead
<1>. QED
  BY <1>1, <1>2, <1>3, <1>4, <1>5, <1>6, <1>7, <1>8, <1>9, <1>10, <1>11, <1>12 DEF Next

\* A patch that does not fit changes no file, under whatever names it changes
\* it, and leaves nothing to be written by a later one: RefusedChangesNothing.
THEOREM RefusalIsClean == Spec => []RefusedChangesNothing
<1>1. WInv => RefusedChangesNothing
  BY DEF WInv, TypeOK, ShownAreWritten, Wrote, RefusedChangesNothing
<1>. QED
  BY WInvInit, WInvStep, <1>1, PTL DEF Spec

-----------------------------------------------------------------------------
(***************************************************************************)
(* Why it holds.  Since the daemon was started, a patch reaches a file     *)
(* only through a write, and a write reaches only files of which a name    *)
(* was recorded when the patch was read; so what is recorded of a file, at *)
(* the first read of it by its first name, is free of patches. If it stays *)
(* the only name, a Revert that visits every recorded name removes all of  *)
(* them.                                                                   *)
(***************************************************************************)
Clean(held) == held \intersect (AgentPatches \ earlier) = {}

Named(f) == \E n \in recorded : FileOf[n] = f
Alone(n) == n \in recorded /\ OneName(FileOf[n])

OriginalsClean == \A n \in recorded : Alone(n) => Clean(originals[n])
UnrecordedClean == \A f \in Files : ~Named(f) => Clean(disk[f])
ReadIsRecorded == pc = "reading" => todo \subseteq files /\ files \ todo \subseteq recorded
WrittenIsRecorded == pc = "writing" => todo \subseteq files /\ files \subseteq recorded
RevertedSoFar ==
    pc = "reverting" =>
        /\ todo \subseteq recorded
        /\ \A n \in recorded \ todo : Alone(n) => Clean(Content(n))
RevertedIsClean == reverted => pc = "idle" /\ \A f \in Files : OneName(f) => Clean(disk[f])

IInv ==
    /\ TypeOK
    /\ OriginalsClean /\ UnrecordedClean
    /\ ReadIsRecorded /\ WrittenIsRecorded
    /\ RevertedSoFar /\ RevertedIsClean

LEMMA IInvInit == Init => IInv
BY TypeOKInit
   DEF Init, IInv, Clean, OriginalsClean, UnrecordedClean, ReadIsRecorded,
       WrittenIsRecorded, RevertedSoFar, RevertedIsClean

\* An edit that is not a patch leaves a clean file clean.
LEMMA EditsKeepClean ==
  ASSUME TypeOK, NEW f \in Files, NEW e \in UserEdits \union ToolEdits,
         disk' = [disk EXCEPT ![f] = @ \union {e}], earlier' = earlier
  PROVE  \A g \in Files : Clean(disk[g]) => Clean(disk[g])'
BY EditsAssumption DEF TypeOK, Clean

\* A file that is read by a new name is free of patches if it had no other.
LEMMA RecordKeepsClean ==
  ASSUME IInv, NEW n \in Names, Record(n), disk' = disk, earlier' = earlier
  PROVE  OriginalsClean' /\ UnrecordedClean'
<1>1. /\ recorded' = recorded \union {n}
      /\ \A m \in Names :
            \/ originals'[m] = originals[m] /\ (m = n => m \in recorded)
            \/ m = n /\ m \notin recorded /\ originals'[m] = Content(n)
  BY RecordFacts DEF IInv
<1>2. FileOf[n] \in Files /\ recorded \subseteq Names
  BY ContentTyped DEF IInv, TypeOK
<1>3. ASSUME NEW m \in recorded', Alone(m)' PROVE Clean(originals[m])'
  <2>1. \A k \in recorded : FileOf[k] = FileOf[m] => k = m
    BY <1>1, <1>3 DEF Alone, OneName
  <2>2. CASE m \in recorded
    <3>1. Alone(m) /\ originals'[m] = originals[m]
      BY <1>1, <1>2, <1>3, <2>1, <2>2 DEF Alone, OneName
    <3>. QED
      BY <2>2, <3>1 DEF IInv, OriginalsClean, Clean
  <2>3. CASE m \notin recorded
    <3>1. m = n /\ originals'[m] = Content(n)
      BY <1>1, <1>3, <2>3
    <3>2. ~Named(FileOf[n])
      BY <2>1, <2>3, <3>1 DEF Named
    <3>. QED
      BY <1>2, <3>1, <3>2 DEF IInv, UnrecordedClean, Content, Clean
  <2>. QED
    BY <2>2, <2>3
<1>4. ASSUME NEW f \in Files, ~Named(f)' PROVE Clean(disk[f])'
  <2>1. ~Named(f)
    BY <1>1, <1>4 DEF Named
  <2>. QED
    BY <2>1 DEF IInv, UnrecordedClean, Clean
<1>. QED
  BY <1>3, <1>4 DEF OriginalsClean, UnrecordedClean

\* A write to a file of which a name is recorded changes no other.
LEMMA WriteKeepsClean ==
  ASSUME IInv, NEW n \in recorded, UNCHANGED <<recorded, originals, earlier>>,
         \A f \in Files : f # FileOf[n] => disk'[f] = disk[f]
  PROVE  OriginalsClean' /\ UnrecordedClean'
<1>1. /\ \A m \in recorded : Alone(m)' <=> Alone(m)
      /\ \A f \in Files : Named(f)' <=> Named(f)
  BY DEF Alone, OneName, Named
<1>2. OriginalsClean'
  BY <1>1 DEF IInv, OriginalsClean, Clean
<1>3. \A f \in Files : ~Named(f) => disk'[f] = disk[f]
  BY DEF Named
<1>. QED
  BY <1>1, <1>2, <1>3 DEF IInv, UnrecordedClean, Clean

\* What names are recorded does not change with a Revert.
LEMMA SameNames ==
  ASSUME recorded' = recorded
  PROVE  /\ \A m \in recorded : Alone(m)' <=> Alone(m)
         /\ \A f \in Files : OneName(f)' <=> OneName(f)
         /\ \A f \in Files : Named(f)' <=> Named(f)
BY DEF Alone, OneName, Named

LEMMA IInvStep == WInv' /\ IInv /\ [Next]_vars => IInv'
<1>. SUFFICES ASSUME WInv', IInv, [Next]_vars
              PROVE  IInv'
  OBVIOUS
<1>0. TypeOK /\ TypeOK'
  BY TypeOKStep DEF IInv
<1>i. /\ OriginalsClean /\ UnrecordedClean /\ ReadIsRecorded /\ WrittenIsRecorded
      /\ RevertedSoFar /\ RevertedIsClean
  BY DEF IInv
<1>f. ASSUME UNCHANGED <<disk, recorded, originals, earlier>>
      PROVE  OriginalsClean' /\ UnrecordedClean'
  BY <1>i, <1>f, SameNames DEF OriginalsClean, UnrecordedClean, Clean
<1>1. ASSUME NEW p \in AgentPatches, BeginApply(p)
      PROVE  IInv'
  <2>1. OriginalsClean' /\ UnrecordedClean'
    BY <1>1, <1>f DEF BeginApply, life
  <2>. QED
    BY <1>0, <1>1, <2>1 DEF BeginApply, IInv, ReadIsRecorded, WrittenIsRecorded,
                            RevertedSoFar, RevertedIsClean
<1>2. CASE BeginRevert
  <2>1. OriginalsClean' /\ UnrecordedClean'
    BY <1>2, <1>f DEF BeginRevert, life
  <2>2. ReadIsRecorded' /\ WrittenIsRecorded'
    BY <1>2 DEF BeginRevert, ReadIsRecorded, WrittenIsRecorded
  <2>3. RevertedSoFar'
    BY <1>2 DEF BeginRevert, RevertedSoFar
  <2>4. RevertedIsClean'
    <3>1. CASE recorded = {}
      <4>1. \A f \in Files : Clean(disk[f])
        BY <1>i, <3>1 DEF UnrecordedClean, Named
      <4>2. pc' = "idle" /\ disk' = disk /\ earlier' = earlier
        BY <1>2, <3>1 DEF BeginRevert, life
      <4>. QED
        BY <4>1, <4>2 DEF RevertedIsClean, Clean
    <3>2. CASE recorded # {}
      BY <1>2, <3>2 DEF BeginRevert, RevertedIsClean
    <3>. QED
      BY <3>1, <3>2
  <2>. QED
    BY <1>0, <2>1, <2>2, <2>3, <2>4 DEF IInv
<1>3. ASSUME NEW n \in Names, ReadFile(n)
      PROVE  IInv'
  <2>1. OriginalsClean' /\ UnrecordedClean'
    BY <1>3, RecordKeepsClean DEF ReadFile, life
  <2>2. recorded' = recorded \union {n}
    BY <1>0, <1>3, RecordFacts DEF ReadFile
  <2>3. ReadIsRecorded' /\ WrittenIsRecorded'
    BY <1>i, <1>3, <2>2 DEF ReadFile, ReadIsRecorded, WrittenIsRecorded
  <2>4. RevertedSoFar' /\ RevertedIsClean'
    BY <1>i, <1>3 DEF ReadFile, RevertedSoFar, RevertedIsClean
  <2>. QED
    BY <1>0, <2>1, <2>3, <2>4 DEF IInv
<1>4. ASSUME NEW n \in Names, ReadFails(n)
      PROVE  IInv'
  <2>1. OriginalsClean' /\ UnrecordedClean'
    <3>1. CASE Record(n)
      BY <1>4, <3>1, RecordKeepsClean DEF ReadFails, life
    <3>2. CASE UNCHANGED <<recorded, originals>>
      BY <1>4, <1>f, <3>2 DEF ReadFails, life
    <3>. QED
      BY <1>4, <3>1, <3>2 DEF ReadFails
  <2>2. pc' = "idle" /\ ~reverted'
    BY <1>i, <1>4 DEF ReadFails, End, RevertedIsClean
  <2>. QED
    BY <1>0, <2>1, <2>2 DEF IInv, ReadIsRecorded, WrittenIsRecorded, RevertedSoFar,
                            RevertedIsClean
<1>5. ASSUME NEW n \in Names, WriteFile(n)
      PROVE  IInv'
  <2>1. n \in recorded /\ ~reverted
    BY <1>i, <1>5 DEF WriteFile, WrittenIsRecorded, RevertedIsClean
  <2>2. \A f \in Files : f # FileOf[n] => disk'[f] = disk[f]
    BY <1>0, <1>5 DEF WriteFile, TypeOK
  <2>3. OriginalsClean' /\ UnrecordedClean'
    BY <1>5, <2>1, <2>2, WriteKeepsClean DEF WriteFile, life
  <2>4. pc' = "idle" \/ (pc' = "writing" /\ todo' \subseteq todo /\ files' = files)
    BY <1>5 DEF WriteFile, End
  <2>5. WrittenIsRecorded'
    BY <1>i, <1>5, <2>4 DEF WriteFile, WrittenIsRecorded
  <2>6. ~reverted'
    BY <1>5, <2>1 DEF WriteFile
  <2>. QED
    BY <1>0, <2>3, <2>4, <2>5, <2>6 DEF IInv, ReadIsRecorded, RevertedSoFar, RevertedIsClean
<1>6. ASSUME NEW n \in Names, WriteFails(n)
      PROVE  IInv'
  <2>1. n \in recorded /\ ~reverted
    BY <1>i, <1>6 DEF WriteFails, WrittenIsRecorded, RevertedIsClean
  <2>2. \A f \in Files : f # FileOf[n] => disk'[f] = disk[f]
    BY <1>0, <1>6, CutFacts DEF WriteFails, TypeOK
  <2>3. OriginalsClean' /\ UnrecordedClean'
    BY <1>6, <2>1, <2>2, WriteKeepsClean DEF WriteFails, life
  <2>4. pc' = "idle" /\ ~reverted'
    BY <1>6, <2>1 DEF WriteFails, End
  <2>. QED
    BY <1>0, <2>3, <2>4 DEF IInv, ReadIsRecorded, WrittenIsRecorded, RevertedSoFar,
                            RevertedIsClean
<1>7. ASSUME NEW n \in Names, RevertFile(n)
      PROVE  IInv'
  <2>1. n \in recorded /\ recorded' = recorded /\ earlier' = earlier
    BY <1>i, <1>7 DEF RevertFile, RevertedSoFar, life
  <2>2. /\ \A f \in Files : f # FileOf[n] => disk'[f] = disk[f]
        /\ FileOf[n] \in Files /\ disk'[FileOf[n]] = originals[n]
    BY <1>0, <1>7, ContentTyped DEF RevertFile, TypeOK
  <2>3. OriginalsClean' /\ UnrecordedClean'
    BY <1>7, <2>1, <2>2, WriteKeepsClean DEF RevertFile, life
  <2>4. ASSUME NEW m \in recorded \ todo', Alone(m) PROVE Clean(disk[FileOf[m]])'
    <3>1. m \in Names /\ FileOf[m] \in Files
      BY <1>0, ContentTyped DEF TypeOK
    <3>2. CASE m = n
      BY <1>i, <2>1, <2>2, <2>4, <3>2 DEF OriginalsClean, Clean
    <3>3. CASE m # n
      <4>1. FileOf[m] # FileOf[n] /\ m \in recorded \ todo
        BY <1>7, <2>1, <2>4, <3>3 DEF Alone, OneName, RevertFile
      <4>. QED
        BY <1>i, <1>7, <2>1, <2>2, <2>4, <3>1, <4>1
           DEF RevertedSoFar, Content, Clean, RevertFile
    <3>. QED
      BY <3>2, <3>3
  <2>5. RevertedSoFar'
    <3>1. todo' \subseteq recorded
      BY <1>i, <1>7 DEF RevertFile, RevertedSoFar
    <3>. QED
      BY <2>1, <2>4, <3>1, SameNames DEF RevertedSoFar, Content
  <2>6. RevertedIsClean'
    <3>1. CASE todo = {n}
      <4>1. todo' = {} /\ pc' = "idle"
        BY <1>7, <3>1 DEF RevertFile
      <4>2. ASSUME NEW f \in Files, OneName(f) PROVE Clean(disk[f])'
        <5>1. CASE Named(f)
          <6>1. PICK m \in recorded : FileOf[m] = f
            BY <5>1 DEF Named
          <6>2. Alone(m) /\ m \in recorded \ todo'
            BY <4>1, <4>2, <6>1 DEF Alone
          <6>. QED
            BY <2>4, <6>1, <6>2
        <5>2. CASE ~Named(f)
          BY <2>1, <2>3, <5>2, SameNames DEF UnrecordedClean
        <5>. QED
          BY <5>1, <5>2
      <4>. QED
        BY <2>1, <4>1, <4>2, SameNames DEF RevertedIsClean
    <3>2. CASE todo # {n}
      BY <1>i, <1>7, <3>2 DEF RevertFile, RevertedIsClean
    <3>. QED
      BY <3>1, <3>2
  <2>7. pc' \in {"idle", "reverting"}
    BY <1>7 DEF RevertFile
  <2>. QED
    BY <1>0, <2>3, <2>5, <2>6, <2>7 DEF IInv, ReadIsRecorded, WrittenIsRecorded
<1>8. ASSUME NEW n \in Names, RevertFails(n)
      PROVE  IInv'
  <2>1. n \in recorded /\ ~reverted
    BY <1>i, <1>8 DEF RevertFails, RevertedSoFar, RevertedIsClean
  <2>2. \A f \in Files : f # FileOf[n] => disk'[f] = disk[f]
    BY <1>0, <1>8, CutFacts DEF RevertFails, TypeOK
  <2>3. OriginalsClean' /\ UnrecordedClean'
    BY <1>8, <2>1, <2>2, WriteKeepsClean DEF RevertFails, life
  <2>4. pc' = "idle" /\ ~reverted'
    BY <1>8, <2>1 DEF RevertFails
  <2>. QED
    BY <1>0, <2>3, <2>4 DEF IInv, ReadIsRecorded, WrittenIsRecorded, RevertedSoFar,
                            RevertedIsClean
<1>e. ASSUME NEW f \in Files, NEW e \in UserEdits \union ToolEdits,
             disk' = [disk EXCEPT ![f] = @ \union {e}],
             UNCHANGED <<recorded, originals, pc, files, todo, life>>,
             reverted' => reverted
      PROVE  IInv'
  <2>1. \A g \in Files : Clean(disk[g]) => Clean(disk[g])'
    BY <1>0, <1>e, EditsKeepClean DEF life
  <2>2. OriginalsClean' /\ UnrecordedClean'
    BY <1>i, <1>e, <2>1, SameNames DEF OriginalsClean, UnrecordedClean, Clean, life
  <2>3. RevertedSoFar' /\ RevertedIsClean'
    <3>1. \A n \in recorded : FileOf[n] \in Files
      BY <1>0, ContentTyped DEF TypeOK
    <3>. QED
      BY <1>i, <1>e, <2>1, <3>1, SameNames DEF RevertedSoFar, RevertedIsClean, Content
  <2>. QED
    BY <1>0, <1>i, <1>e, <2>2, <2>3 DEF IInv, ReadIsRecorded, WrittenIsRecorded
<1>9. ASSUME NEW f \in Files, NEW u \in UserEdits, UserEditsFile(f, u)
      PROVE  IInv'
  BY <1>9, <1>e DEF UserEditsFile
<1>10. ASSUME NEW f \in Files, NEW e \in ToolEdits, ToolEditsFile(f, e)
       PROVE  IInv'
  BY <1>10, <1>e DEF ToolEditsFile
<1>11. CASE Restart
  <2>1. /\ recorded' = {} /\ pc' = "idle" /\ ~reverted'
        /\ earlier' = {p \in AgentPatches : outcome[p] # "new"}
    BY <1>11 DEF Restart
  <2>2. \A p \in AgentPatches : Wrote(p)' => p \in earlier'
    BY <1>0, <1>11 DEF Restart, Wrote, TypeOK
  <2>3. UnrecordedClean'
    BY <2>2 DEF WInv, ShownAreWritten, UnrecordedClean, Clean
  <2>. QED
    BY <1>0, <2>1, <2>3 DEF IInv, OriginalsClean, ReadIsRecorded, WrittenIsRecorded,
                            RevertedSoFar, RevertedIsClean
<1>12. CASE UNCHANGED vars
  <2>1. UNCHANGED <<disk, recorded, originals, pc, files, todo, earlier, reverted>>
    BY <1>12 DEF vars, life
  <2>. QED
    BY <1>0, <1>i, <1>f, <2>1, SameNames
       DEF IInv, ReadIsRecorded, WrittenIsRecorded, RevertedSoFar, RevertedIsClean, Content, Clean
<1>. QED
  BY <1>1, <1>2, <1>3, <1>4, <1>5, <1>6, <1>7, <1>8, <1>9, <1>10, <1>11, <1>12 DEF Next

\* A Revert that succeeds leaves no trace of any patch since the daemon was started, torn
\* ones included, in any file that was patched under one name: RevertDiscardsPatches.
THEOREM RevertIsThorough == Spec => []RevertDiscardsPatches
<1>1. IInv => RevertDiscardsPatches
  BY DEF IInv, RevertedIsClean, Clean, RevertDiscardsPatches
<1>. QED
  BY WInvInit, WInvStep, IInvInit, IInvStep, <1>1, PTL DEF Spec

-----------------------------------------------------------------------------
(***************************************************************************)
(* UnifiedDiff.  Why its two properties hold.  A script lists the lines of *)
(* a file before and after; OldTo and NewTo count them.  The parser reads  *)
(* the diff of one file back into hunks that start where OldTo says, and   *)
(* the offset of applyHunks is NewTo - OldTo of the lines done: so after   *)
(* each line of the script the file is what the script makes of it that    *)
(* far, or it was refused because a line that is shown is not where OldTo  *)
(* puts it (Arrives).  At the last line, that is the new side of the       *)
(* script; and the inverse of the script, with both counts swapped, leads  *)
(* back.                                                                   *)
(***************************************************************************)
\* What holds of 0 and passes from each number to the next holds up to n.
LEMMA Induction ==
    ASSUME NEW n \in Nat, NEW S, 0 \in S,
           \A i \in 0 .. n - 1 : i \in S => i + 1 \in S
    PROVE  \A i \in 0 .. n : i \in S
<1> SUFFICES ASSUME NEW m \in 0 .. n, m \notin S PROVE FALSE
  OBVIOUS
<1> DEFINE T == {i \in 0 .. n : i \notin S}
<1>1. PICK x \in T : \A y \in T : <<y, x>> \notin OpToRel(<, Nat)
  <2>1. T \subseteq Nat /\ m \in T
    OBVIOUS
  <2> HIDE DEF T
  <2> QED
    BY <2>1, NatLessThanWellFounded, WFMin
<1>2. x # 0 /\ x - 1 \in 0 .. n - 1
  OBVIOUS
<1>3. x - 1 \notin S
  BY <1>2
<1>4. x - 1 \in T /\ <<x - 1, x>> \in OpToRel(<, Nat)
  BY <1>2, <1>3 DEF OpToRel
<1> QED
  BY <1>1, <1>4

-----------------------------------------------------------------------------
(***************************************************************************)
(* The loops: over the lines of a diff, the lines of a hunk, the hunks of  *)
(* a file, and the parts of a text. f[i] is what a loop holds after i      *)
(* turns.                                                                  *)
(***************************************************************************)
Turn(loop, held, x) ==
    CASE loop = "parse" -> ParseLine(held, x)
      [] loop = "match" -> ApplyLine(held, x)
      [] loop = "patch" -> ApplyHunk(held, x)
      [] OTHER -> held \o x

\* f is what the loop holds after each of its n turns.
Runs(f, loop, start, n, s) ==
    f = [i \in 0 .. n |-> IF i = 0 THEN start ELSE Turn(loop, f[i - 1], s[i])]

\* Every loop ends.
LEMMA LoopsEnd ==
    ASSUME NEW n \in Nat, NEW loop, NEW start, NEW s
    PROVE  \E f : Runs(f, loop, start, n, s)
<1> DEFINE S == {k \in 0 .. n : \E f : Runs(f, loop, start, k, s)}
           Holds(f, i) == IF i = 0 THEN start ELSE Turn(loop, f[i - 1], s[i])
<1>1. 0 \in S
  <2>1. Runs([i \in 0 .. 0 |-> start], loop, start, 0, s)
    BY DEF Runs
  <2> QED
    BY <2>1
<1>2. ASSUME NEW k \in 0 .. n - 1, k \in S PROVE k + 1 \in S
  <2>1. PICK f : Runs(f, loop, start, k, s)
    BY <1>2
  <2> DEFINE g == [i \in 0 .. k + 1 |->
                     IF i = k + 1 THEN Turn(loop, f[k], s[k + 1]) ELSE f[i]]
  <2>2. ASSUME NEW i \in 0 .. k + 1 PROVE g[i] = Holds(g, i)
    <3>1. CASE i = k + 1
      <4>1. g[i - 1] = f[k] /\ i # 0
        BY <3>1
      <4>2. g[i] = Turn(loop, f[k], s[k + 1])
        BY <3>1
      <4> QED
        BY <4>1, <4>2, <3>1
    <3>2. CASE i # k + 1
      <4>1. i \in 0 .. k /\ g[i] = f[i] /\ (i # 0 => g[i - 1] = f[i - 1])
        BY <3>2
      <4>2. f[i] = Holds(f, i)
        BY <2>1, <4>1 DEF Runs
      <4> HIDE DEF g
      <4> QED
        BY <4>1, <4>2
    <3> QED
      BY <3>1, <3>2
  <2>3. Runs(g, loop, start, k + 1, s)
    <3>1. g = [i \in 0 .. k + 1 |-> g[i]]
      OBVIOUS
    <3> HIDE DEF g
    <3> QED
      BY <2>2, <3>1 DEF Runs
  <2> QED
    BY <2>3
<1>3. n \in S
  <2>1. n \in 0 .. n
    OBVIOUS
  <2> HIDE DEF S
  <2> QED
    BY <1>1, <1>2, <2>1, Induction
<1> QED
  BY <1>3

\* Loops that start alike and see the same come to the same.
LEMMA LoopsAgree ==
    ASSUME NEW n \in Nat, NEW m \in 0 .. n, NEW loop, NEW start, NEW s, NEW t,
           \A i \in 1 .. m : t[i] = s[i],
           NEW f, NEW g, Runs(f, loop, start, m, s), Runs(g, loop, start, n, t)
    PROVE  g[m] = f[m]
<1> DEFINE S == {k \in 0 .. m : g[k] = f[k]}
<1>1. 0 \in S
  BY DEF Runs
<1>2. ASSUME NEW k \in 0 .. m - 1, k \in S PROVE k + 1 \in S
  <2>1. k + 1 \in 0 .. m /\ k + 1 \in 0 .. n /\ k + 1 # 0 /\ k + 1 - 1 = k /\ t[k + 1] = s[k + 1]
    OBVIOUS
  <2>2. f[k + 1] = Turn(loop, f[k], s[k + 1])
    BY <2>1 DEF Runs
  <2>3. g[k + 1] = Turn(loop, g[k], t[k + 1])
    BY <2>1 DEF Runs
  <2> QED
    BY <2>1, <2>2, <2>3, <1>2
<1>3. m \in S
  <2>1. m \in 0 .. m
    OBVIOUS
  <2> HIDE DEF S
  <2> QED
    BY <1>1, <1>2, <2>1, Induction
<1> QED
  BY <1>3

\* One turn more for one element more.
LEMMA LoopTurns ==
    ASSUME NEW T, NEW s \in Seq(T), NEW x \in T, NEW loop, NEW start, NEW f, NEW g,
           Runs(f, loop, start, Len(s), s),
           Runs(g, loop, start, Len(s) + 1, Append(s, x))
    PROVE  g[Len(s) + 1] = Turn(loop, f[Len(s)], x)
<1> DEFINE t == Append(s, x)  m == Len(s)
<1>1. m \in Nat /\ m + 1 \in Nat /\ m \in 0 .. m + 1 /\ m + 1 \in 0 .. m + 1 /\ m + 1 # 0
      /\ m + 1 - 1 = m /\ (\A i \in 1 .. m : t[i] = s[i]) /\ t[m + 1] = x
  OBVIOUS
<1>2. Runs(f, loop, start, m, s) /\ Runs(g, loop, start, m + 1, t)
  OBVIOUS
<1> HIDE DEF t, m
<1>3. g[m] = f[m]
  BY <1>1, <1>2, LoopsAgree
<1>4. g[m + 1] = Turn(loop, g[m], t[m + 1])
  BY <1>1, <1>2 DEF Runs
<1> QED
  BY <1>1, <1>3, <1>4 DEF m

-----------------------------------------------------------------------------
\* What is parsed of a diff.
Parsed(s) == Parsing(s)[Len(s)]

\* One line more is parsed by ParseLine.
LEMMA ParsedTurn ==
    ASSUME NEW T, NEW s \in Seq(T), NEW x \in T
    PROVE  Parsed(Append(s, x)) = ParseLine(Parsed(s), x)
<1> DEFINE t == Append(s, x)  m == Len(s)  f == Parsing(s)  g == Parsing(t)
<1>1. m \in Nat /\ m + 1 \in Nat /\ Len(t) = m + 1
  OBVIOUS
<1>2. Runs(f, "parse", NothingParsed, m, s)
  <2>1. \E h : Runs(h, "parse", NothingParsed, m, s)
    BY <1>1, LoopsEnd
  <2> QED
    BY <1>1, <2>1 DEF Runs, Turn, Parsing
<1>3. Runs(g, "parse", NothingParsed, m + 1, t)
  <2> HIDE DEF t
  <2>1. \E h : Runs(h, "parse", NothingParsed, m + 1, t)
    BY <1>1, LoopsEnd
  <2> QED
    BY <1>1, <2>1 DEF Runs, Turn, Parsing
<1>4. g[m + 1] = Turn("parse", f[m], x)
  <2> HIDE DEF f, g
  <2> QED
    BY <1>2, <1>3, LoopTurns
<1> HIDE DEF t
<1> QED
  BY <1>1, <1>4 DEF Parsed, Turn, t

\* Nothing is parsed of no line.
LEMMA ParsedNothing == Parsed(<<>>) = NothingParsed
<1> SUFFICES ASSUME TRUE PROVE Parsed(<<>>) = NothingParsed
  OBVIOUS
<1>1. \E h : Runs(h, "parse", NothingParsed, 0, <<>>)
  BY LoopsEnd
<1>2. Runs(Parsing(<<>>), "parse", NothingParsed, 0, <<>>)
  BY <1>1 DEF Runs, Turn, Parsing
<1> QED
  BY <1>2 DEF Runs, Parsed

\* What a hunk comes to.
Matched(lines, idx, s) == Matching(lines, idx, s)[Len(s)]

\* One line more of a hunk is matched by ApplyLine.
LEMMA MatchedTurn ==
    ASSUME NEW lines, NEW idx, NEW T, NEW s \in Seq(T), NEW x \in T
    PROVE  Matched(lines, idx, Append(s, x)) = ApplyLine(Matched(lines, idx, s), x)
<1> DEFINE t == Append(s, x)  m == Len(s)  f == Matching(lines, idx, s)  g == Matching(lines, idx, t)
<1>1. m \in Nat /\ m + 1 \in Nat /\ Len(t) = m + 1
  OBVIOUS
<1>2. Runs(f, "match", AtHunk(lines, idx), m, s)
  <2>1. \E h : Runs(h, "match", AtHunk(lines, idx), m, s)
    BY <1>1, LoopsEnd
  <2> QED
    BY <1>1, <2>1 DEF Runs, Turn, Matching
<1>3. Runs(g, "match", AtHunk(lines, idx), m + 1, t)
  <2> HIDE DEF t
  <2>1. \E h : Runs(h, "match", AtHunk(lines, idx), m + 1, t)
    BY <1>1, LoopsEnd
  <2> QED
    BY <1>1, <2>1 DEF Runs, Turn, Matching
<1>4. g[m + 1] = Turn("match", f[m], x)
  <2> HIDE DEF f, g
  <2> QED
    BY <1>2, <1>3, LoopTurns
<1> HIDE DEF t
<1> QED
  BY <1>1, <1>4 DEF Matched, Turn, t

\* A hunk without a line leaves the hunk at work as it starts.
LEMMA MatchedNothing == \A lines, idx : Matched(lines, idx, <<>>) = AtHunk(lines, idx)
<1> SUFFICES ASSUME NEW lines, NEW idx PROVE Matched(lines, idx, <<>>) = AtHunk(lines, idx)
  OBVIOUS
<1>1. \E h : Runs(h, "match", AtHunk(lines, idx), 0, <<>>)
  BY LoopsEnd
<1>2. Runs(Matching(lines, idx, <<>>), "match", AtHunk(lines, idx), 0, <<>>)
  BY <1>1 DEF Runs, Turn, Matching
<1> QED
  BY <1>2 DEF Runs, Matched

\* What the hunks of a file come to.
Patched(lines, s) == Patching(lines, s)[Len(s)]

\* One hunk more is applied by ApplyHunk.
LEMMA PatchedTurn ==
    ASSUME NEW lines, NEW T, NEW s \in Seq(T), NEW x \in T
    PROVE  Patched(lines, Append(s, x)) = ApplyHunk(Patched(lines, s), x)
<1> DEFINE t == Append(s, x)  m == Len(s)  f == Patching(lines, s)  g == Patching(lines, t)
<1>1. m \in Nat /\ m + 1 \in Nat /\ Len(t) = m + 1
  OBVIOUS
<1>2. Runs(f, "patch", Untouched(lines), m, s)
  <2>1. \E h : Runs(h, "patch", Untouched(lines), m, s)
    BY <1>1, LoopsEnd
  <2> QED
    BY <1>1, <2>1 DEF Runs, Turn, Patching
<1>3. Runs(g, "patch", Untouched(lines), m + 1, t)
  <2> HIDE DEF t
  <2>1. \E h : Runs(h, "patch", Untouched(lines), m + 1, t)
    BY <1>1, LoopsEnd
  <2> QED
    BY <1>1, <2>1 DEF Runs, Turn, Patching
<1>4. g[m + 1] = Turn("patch", f[m], x)
  <2> HIDE DEF f, g
  <2> QED
    BY <1>2, <1>3, LoopTurns
<1> HIDE DEF t
<1> QED
  BY <1>1, <1>4 DEF Patched, Turn, t

\* No hunk leaves the file as it is.
LEMMA PatchedNothing == \A lines : Patched(lines, <<>>) = Untouched(lines)
<1> SUFFICES ASSUME NEW lines PROVE Patched(lines, <<>>) = Untouched(lines)
  OBVIOUS
<1>1. \E h : Runs(h, "patch", Untouched(lines), 0, <<>>)
  BY LoopsEnd
<1>2. Runs(Patching(lines, <<>>), "patch", Untouched(lines), 0, <<>>)
  BY <1>1 DEF Runs, Turn, Patching
<1> QED
  BY <1>2 DEF Runs, Patched

\* FlattenSeq joins one part more, and nothing of nothing.
LEMMA Flattened ==
    ASSUME NEW T, NEW s \in Seq(Seq(T)), s # <<>>,
           NEW f, Runs(f, "flatten", <<>>, Len(s), s)
    PROVE  f[Len(s)] = FlattenSeq(s)
<1> DEFINE n == Len(s)
           Joins(g) == g = [i \in 1 .. n |-> IF i = 1 THEN s[i] ELSE g[i - 1] \o s[i]]
           flat == CHOOSE g : Joins(g)
           h == [i \in 0 .. n |-> IF i = 0 THEN <<>> ELSE flat[i]]
           k == [i \in 1 .. n |-> f[i]]
<1>1. n \in Nat /\ n # 0 /\ n \in 0 .. n /\ (\A i \in 1 .. n : s[i] \in Seq(T))
  OBVIOUS
<1>t. \A g, x : Turn("flatten", g, x) = g \o x
  BY DEF Turn
<1>f. f = [i \in 0 .. n |-> IF i = 0 THEN <<>> ELSE f[i - 1] \o s[i]]
  BY <1>t DEF Runs
<1>2. Joins(k)
  <2>1. ASSUME NEW i \in 1 .. n PROVE k[i] = IF i = 1 THEN s[i] ELSE k[i - 1] \o s[i]
    <3>1. f[i] = f[i - 1] \o s[i]
      <4>1. i \in 0 .. n /\ i # 0
        OBVIOUS
      <4> HIDE DEF n
      <4>2. f[i] = IF i = 0 THEN <<>> ELSE f[i - 1] \o s[i]
        BY <1>f, <4>1, Zenon
      <4> QED
        BY <4>1, <4>2, Zenon
    <3>k. k[i] = f[i] /\ (i # 1 => k[i - 1] = f[i - 1])
      OBVIOUS
    <3>0. f[0] = <<>>
      BY <1>1, <1>f
    <3> HIDE DEF k, n
    <3>2. CASE i = 1
      <4>1. s[1] \in Seq(T) /\ <<>> \o s[1] = s[1]
        BY <1>1
      <4>2. f[1] = <<>> \o s[1]
        <5>1. i - 1 = 0
          BY <3>2
        <5> QED
          BY <3>0, <3>1, <3>2, <5>1, Zenon
      <4> QED
        BY <4>1, <4>2, <3>2, <3>k
    <3>3. CASE i # 1
      BY <3>1, <3>3, <3>k, Zenon
    <3> QED
      BY <3>2, <3>3
  <2>2. k = [i \in 1 .. n |-> k[i]]
    OBVIOUS
  <2> HIDE DEF k, n
  <2> QED
    BY <2>1, <2>2
<1>3. Joins(flat)
  <2> HIDE DEF k, n
  <2> QED
    BY <1>2
<1>4. Runs(h, "flatten", <<>>, n, s)
  <2>1. ASSUME NEW i \in 1 .. n PROVE h[i] = h[i - 1] \o s[i]
    <3>1. flat[i] = IF i = 1 THEN s[i] ELSE flat[i - 1] \o s[i]
      <4> HIDE DEF flat, n
      <4> QED
        BY <1>3
    <3> HIDE DEF flat
    <3>h. h[i] = flat[i] /\ h[i - 1] = IF i = 1 THEN <<>> ELSE flat[i - 1]
      OBVIOUS
    <3> HIDE DEF h, n
    <3>2. CASE i = 1
      <4>1. s[i] \in Seq(T) /\ <<>> \o s[i] = s[i]
        BY <1>1
      <4> QED
        BY <3>1, <3>2, <3>h, <4>1
    <3>3. CASE i # 1
      BY <3>1, <3>3, <3>h, Zenon
    <3> QED
      BY <3>2, <3>3
  <2>2. h[0] = <<>>
    BY <1>1
  <2>3. h = [i \in 0 .. n |-> h[i]]
    OBVIOUS
  <2> HIDE DEF h, n
  <2> QED
    <3>1. \A i \in 0 .. n : h[i] = IF i = 0 THEN <<>> ELSE Turn("flatten", h[i - 1], s[i])
      <4>1. \A i \in 0 .. n : i = 0 \/ i \in 1 .. n
        BY <1>1
      <4> QED
        BY <2>1, <2>2, <1>t, <4>1, Zenon
    <3> QED
      BY <2>3, <3>1 DEF Runs
<1>5. h[n] = f[n]
  <2> HIDE DEF h, n
  <2> QED
    BY <1>1, <1>4, LoopsAgree DEF n
<1>6. FlattenSeq(s) = flat[n]
  BY <1>1 DEF FlattenSeq
<1> QED
  BY <1>1, <1>5, <1>6

\* FlattenSeq joins one part more.
LEMMA FlattenTurn ==
    ASSUME NEW T, NEW s \in Seq(Seq(T)), NEW x \in Seq(T)
    PROVE  FlattenSeq(Append(s, x)) = FlattenSeq(s) \o x
<1> DEFINE t == Append(s, x)
<1>1. t \in Seq(Seq(T)) /\ t # <<>> /\ Len(t) = Len(s) + 1 /\ Len(s) \in Nat /\ Len(t) \in Nat
  OBVIOUS
<1>2. PICK f : Runs(f, "flatten", <<>>, Len(s), s)
  BY <1>1, LoopsEnd
<1>3. PICK g : Runs(g, "flatten", <<>>, Len(t), t)
  <2> HIDE DEF t
  <2> QED
    BY <1>1, LoopsEnd
<1>4. g[Len(t)] = Turn("flatten", f[Len(s)], x)
  BY <1>1, <1>2, <1>3, LoopTurns
<1>5. g[Len(t)] = FlattenSeq(t)
  <2> HIDE DEF t
  <2> QED
    BY <1>1, <1>3, Flattened
<1>6. f[Len(s)] = FlattenSeq(s)
  <2>1. CASE s = <<>>
    BY <1>2, <2>1 DEF Runs, FlattenSeq
  <2>2. CASE s # <<>>
    BY <1>2, <2>2, Flattened
  <2> QED
    BY <2>1, <2>2
<1> QED
  BY <1>4, <1>5, <1>6 DEF Turn

\* FlattenSeq makes nothing of nothing.
LEMMA FlattenNothing == FlattenSeq(<<>>) = <<>>
  BY DEF FlattenSeq

(***************************************************************************)
(* Scripts. Count(s, P, k) of the first k lines of s are on the side that  *)
(* the prefixes P make.                                                    *)
(***************************************************************************)
Ops == [prefix : {" ", "+", "-"}, text : Texts]

\* How many of the first k lines are on the side.
Count(s, P, k) == Len(Side(SubSeq(s, 1, k), P))

\* What a line adds to a side.
Part(x, P) == IF x.prefix \in P THEN <<x.text>> ELSE <<>>

\* A line of a script is its prefix and its text.
LEMMA OfOps == ASSUME NEW x \in Ops PROVE x.text \in Texts /\ x.prefix \in {" ", "+", "-"} /\ x = Line(x.prefix, x.text)
  BY DEF Ops, Line

\* A line is on a side once or not at all.
LEMMA PartType == ASSUME NEW x \in Ops, NEW P PROVE
      /\ Part(x, P) \in Seq(Texts)
      /\ Len(Part(x, P)) = IF x.prefix \in P THEN 1 ELSE 0
<1>1. x.text \in Texts
  BY OfOps
<1>2. CASE x.prefix \in P
  <2>1. Part(x, P) = <<x.text>>
    BY <1>2 DEF Part
  <2> DEFINE t == x.text
  <2> HIDE DEF t
  <2>2. <<t>> \in Seq(Texts) /\ Len(<<t>>) = 1
    BY <1>1 DEF t
  <2> QED
    BY <2>1, <2>2, <1>2 DEF t
<1>3. CASE x.prefix \notin P
  <2>1. Part(x, P) = <<>>
    BY <1>3 DEF Part
  <2> QED
    BY <2>1, <1>3
<1> QED
  BY <1>2, <1>3

\* A function that adds one place to a sequence appends to it.
LEMMA Appended ==
    ASSUME NEW T, NEW s \in Seq(T), NEW x \in T, NEW q,
           q = [i \in 1 .. Len(s) + 1 |-> IF i = Len(s) + 1 THEN x ELSE s[i]]
    PROVE  q = Append(s, x)
<1>1. q \in Seq(T)
  OBVIOUS
<1>2. Len(q) = Len(s) + 1
  OBVIOUS
<1>3. Append(s, x) \in Seq(T) /\ Len(Append(s, x)) = Len(s) + 1
  OBVIOUS
<1>4. \A i \in 1 .. Len(q) : q[i] = Append(s, x)[i]
  BY <1>2
<1> QED
  BY <1>1, <1>2, <1>3, <1>4, SeqEqual

\* One line more adds to a side what is on it of that line.
LEMMA SideTurn ==
    ASSUME NEW s \in Seq(Ops), NEW x \in Ops, NEW P
    PROVE  Side(Append(s, x), P) = Side(s, P) \o Part(x, P)
<1> DEFINE t == Append(s, x)
           ps == [i \in DOMAIN s |-> Part(s[i], P)]
           qs == [i \in DOMAIN t |-> Part(t[i], P)]
<1>2. DOMAIN s = 1 .. Len(s) /\ DOMAIN t = 1 .. Len(s) + 1 /\ Len(s) \in Nat
      /\ (\A i \in 1 .. Len(s) : t[i] = s[i] /\ s[i] \in Ops) /\ t[Len(s) + 1] = x
  OBVIOUS
<1> HIDE DEF t
<1>3. ps \in Seq(Seq(Texts)) /\ Len(ps) = Len(s)
  <2>1. \A i \in 1 .. Len(s) : Part(s[i], P) \in Seq(Texts)
    BY PartType, <1>2
  <2> QED
    BY <1>2, <2>1
<1>4. qs = Append(ps, Part(x, P))
  <2> DEFINE y == Part(x, P)  m == Len(ps)
  <2>1. \A i \in 1 .. m : qs[i] = ps[i]
    BY <1>2, <1>3
  <2>2. qs[m + 1] = y
    BY <1>2, <1>3
  <2>4. qs = [i \in 1 .. m + 1 |-> qs[i]]
    BY <1>2, <1>3
  <2>5. y \in Seq(Texts) /\ m \in Nat
    BY PartType, <1>3
  <2> HIDE DEF qs, y, m
  <2>6. qs = [i \in 1 .. m + 1 |-> IF i = m + 1 THEN y ELSE ps[i]]
    <3>1. \A i \in 1 .. m + 1 : qs[i] = IF i = m + 1 THEN y ELSE ps[i]
      BY <2>1, <2>2, <2>5
    <3> QED
      BY <2>4, <3>1
  <2> HIDE DEF ps
  <2>7. qs = Append(ps, y)
    BY <1>3, <2>5, <2>6, Appended DEF m
  <2> QED
    BY <2>7 DEF y
<1>5. Side(t, P) = FlattenSeq(qs) /\ Side(s, P) = FlattenSeq(ps)
  BY DEF Side, Part
<1> HIDE DEF ps, qs
<1> QED
  BY PartType, <1>3, <1>4, <1>5, FlattenTurn DEF t

\* The first k + 1 lines are the first k and one more.
LEMMA OneMore ==
    ASSUME NEW T, NEW s \in Seq(T), NEW k \in 1 .. Len(s)
    PROVE  /\ SubSeq(s, 1, k - 1) \in Seq(T)
           /\ SubSeq(s, 1, k) = Append(SubSeq(s, 1, k - 1), s[k])
  OBVIOUS

\* The sides of the first lines of a script, one line after the other.
LEMMA Sides ==
    ASSUME NEW s \in Seq(Ops), NEW P
    PROVE  /\ Side(SubSeq(s, 1, 0), P) = <<>>
           /\ \A k \in 0 .. Len(s) : Side(SubSeq(s, 1, k), P) \in Seq(Texts)
           /\ \A k \in 1 .. Len(s) :
                 /\ Side(SubSeq(s, 1, k - 1), P) \in Seq(Texts)
                 /\ Side(SubSeq(s, 1, k), P) = Side(SubSeq(s, 1, k - 1), P) \o Part(s[k], P)
                 /\ Part(s[k], P) \in Seq(Texts)
<1> DEFINE n == Len(s)
           side(k) == Side(SubSeq(s, 1, k), P)
           S == {k \in 0 .. n : side(k) \in Seq(Texts)}
<1>1. side(0) = <<>>
  <2>1. SubSeq(s, 1, 0) = <<>>
    OBVIOUS
  <2>2. [i \in DOMAIN <<>> |-> IF <<>>[i].prefix \in P THEN <<(<<>>[i]).text>> ELSE <<>>] = <<>>
    OBVIOUS
  <2> QED
    BY <2>1, <2>2, FlattenNothing DEF Side
<1>n. n \in Nat /\ \A k \in 1 .. n : s[k] \in Ops
  OBVIOUS
<1>2. ASSUME NEW k \in 1 .. n
      PROVE  side(k) = side(k - 1) \o Part(s[k], P) /\ Part(s[k], P) \in Seq(Texts)
  <2>1. s[k] \in Ops
    OBVIOUS
  <2>2. SubSeq(s, 1, k) = Append(SubSeq(s, 1, k - 1), s[k]) /\ SubSeq(s, 1, k - 1) \in Seq(Ops)
    BY OneMore
  <2> QED
    BY <2>1, <2>2, SideTurn, PartType
<1> HIDE DEF side, n
<1>3. 0 \in S
  <2>1. <<>> \in Seq(Texts) /\ 0 \in 0 .. n
    BY <1>n
  <2> QED
    BY <1>1, <2>1
<1>4. ASSUME NEW k \in 0 .. n - 1, k \in S PROVE k + 1 \in S
  <2>1. k + 1 \in 1 .. n /\ k + 1 - 1 = k /\ k + 1 \in 0 .. n
    BY <1>n
  <2>3. side(k + 1) = side(k) \o Part(s[k + 1], P) /\ Part(s[k + 1], P) \in Seq(Texts)
    BY <1>2, <2>1
  <2>4. side(k) \in Seq(Texts)
    BY <1>4
  <2> DEFINE p == Part(s[k + 1], P)  q == side(k)
  <2> HIDE DEF p, q
  <2>5. q \o p \in Seq(Texts)
    BY <2>3, <2>4 DEF p, q
  <2> QED
    BY <2>1, <2>3, <2>5 DEF p, q
<1>5. \A k \in 0 .. n : k \in S
  <2> HIDE DEF S
  <2> QED
    BY <1>3, <1>4, <1>n, Induction
<1>6. \A k \in 1 .. n : side(k - 1) \in Seq(Texts)
  <2>1. \A k \in 1 .. n : k - 1 \in 0 .. n
    BY <1>n
  <2> QED
    BY <2>1, <1>5
<1> QED
  BY <1>1, <1>2, <1>5, <1>6 DEF side, n

\* The count of a side, line by line.
Counting(s, P) ==
    /\ Len(s) \in Nat
    /\ Count(s, P, 0) = 0
    /\ Count(s, P, Len(s)) = Len(Side(s, P))
    /\ Side(s, P) \in Seq(Texts)
    /\ \A k \in 0 .. Len(s) : Count(s, P, k) \in Nat
    /\ \A k \in 1 .. Len(s) :
          Count(s, P, k) = Count(s, P, k - 1) + (IF s[k].prefix \in P THEN 1 ELSE 0)

\* The lines on a side are counted one by one.
LEMMA Counts == \A s \in Seq(Ops) : \A P : Counting(s, P)
<1> SUFFICES ASSUME NEW s \in Seq(Ops), NEW P PROVE Counting(s, P)
  OBVIOUS
<1>1. SubSeq(s, 1, Len(s)) = s /\ Len(s) \in 0 .. Len(s) /\ Len(s) \in Nat
  OBVIOUS
<1>2. ASSUME NEW k \in 1 .. Len(s)
      PROVE  Count(s, P, k) = Count(s, P, k - 1) + (IF s[k].prefix \in P THEN 1 ELSE 0)
  <2>1. Side(SubSeq(s, 1, k - 1), P) \in Seq(Texts) /\ Part(s[k], P) \in Seq(Texts)
        /\ Side(SubSeq(s, 1, k), P) = Side(SubSeq(s, 1, k - 1), P) \o Part(s[k], P)
    BY Sides
  <2>2. Len(Part(s[k], P)) = IF s[k].prefix \in P THEN 1 ELSE 0
    <3>1. s[k] \in Ops
      OBVIOUS
    <3> QED
      BY <3>1, PartType
  <2> DEFINE p == Part(s[k], P)  q == Side(SubSeq(s, 1, k - 1), P)
  <2> HIDE DEF p, q
  <2>3. Len(q \o p) = Len(q) + Len(p)
    BY <2>1 DEF p, q
  <2> QED
    BY <2>1, <2>2, <2>3 DEF Count, p, q
<1>3. ASSUME NEW k \in 0 .. Len(s) PROVE Count(s, P, k) \in Nat
  <2>1. Side(SubSeq(s, 1, k), P) \in Seq(Texts)
    BY Sides
  <2> QED
    BY <2>1 DEF Count
<1>4. Count(s, P, 0) = 0
  BY Sides DEF Count
<1>5. Side(SubSeq(s, 1, Len(s)), P) \in Seq(Texts)
  BY <1>1, Sides
<1> QED
  BY <1>1, <1>2, <1>3, <1>4, <1>5 DEF Count, Counting

\* Between two lines there are at most so many lines of a side.
LEMMA CountGrows ==
    ASSUME NEW s \in Seq(Ops), NEW P
    PROVE  \A i \in 0 .. Len(s) : \A j \in i .. Len(s) :
              Count(s, P, i) <= Count(s, P, j) /\ Count(s, P, j) <= Count(s, P, i) + (j - i)
<1> DEFINE c(k) == Count(s, P, k)
           n == Len(s)
<1>c. /\ c(0) = 0
      /\ \A k \in 0 .. n : c(k) \in Nat
      /\ \A k \in 1 .. n : c(k) = c(k - 1) + (IF s[k].prefix \in P THEN 1 ELSE 0)
  <2>1. Counting(s, P)
    BY Counts
  <2> QED
    BY <2>1 DEF Counting
<1>l. n \in Nat
  OBVIOUS
<1> HIDE DEF c, n
<1> SUFFICES ASSUME NEW i \in 0 .. n, NEW j \in i .. n
             PROVE  c(i) <= c(j) /\ c(j) <= c(i) + (j - i)
  BY DEF c, n
<1> DEFINE S == {d \in 0 .. j - i : c(i) <= c(i + d) /\ c(i + d) <= c(i) + d}
<1>n. n \in Nat /\ i \in 0 .. n /\ j \in i .. n
  BY <1>l
<1>1. j - i \in Nat /\ j - i \in 0 .. j - i
  BY <1>n
<1>2. 0 \in S
  BY <1>1, <1>c, <1>n
<1>3. ASSUME NEW d \in 0 .. j - i - 1, d \in S PROVE d + 1 \in S
  <2>1. i + d + 1 \in 1 .. n /\ i + d + 1 - 1 = i + d /\ i + d \in 0 .. n /\ d + 1 \in 0 .. j - i
    BY <1>1, <1>n
  <2>2. c(i + d + 1) = c(i + d) + (IF s[i + d + 1].prefix \in P THEN 1 ELSE 0)
    BY <2>1, <1>c
  <2>3. c(i + d) \in Nat /\ c(i) \in Nat /\ c(i) <= c(i + d) /\ c(i + d) <= c(i) + d
    BY <1>c, <1>n, <1>3, <2>1
  <2>4. i + (d + 1) = i + d + 1 /\ d \in Nat
    BY <1>n, <1>1
  <2>5. c(i) <= c(i + d + 1) /\ c(i + d + 1) <= c(i) + (d + 1)
    BY <2>2, <2>3, <2>4
  <2> QED
    BY <2>1, <2>4, <2>5
<1>4. j - i \in S
  <2> HIDE DEF S
  <2> QED
    BY <1>1, <1>2, <1>3, Induction
<1>5. i + (j - i) = j
  BY <1>n
<1> QED
  BY <1>4, <1>5

\* A line of a side is where the count says.
LEMMA SideElements ==
    ASSUME NEW s \in Seq(Ops), NEW P, NEW i \in 1 .. Len(s), s[i].prefix \in P
    PROVE  /\ Count(s, P, i) \in 1 .. Len(Side(s, P))
           /\ Side(s, P)[Count(s, P, i)] = s[i].text
<1> DEFINE n == Len(s)
           side(k) == Side(SubSeq(s, 1, k), P)
           part(k) == Part(s[k], P)
           c == Count(s, P, i)
           S == {d \in 0 .. n - i : c <= Len(side(i + d)) /\ side(i + d)[c] = s[i].text}
<1>n. n \in Nat /\ i \in 1 .. n /\ SubSeq(s, 1, n) = s /\ s[i] \in Ops
  OBVIOUS
<1>t. s[i].text \in Texts
  BY <1>n, OfOps
<1>2. \A k \in 0 .. n : side(k) \in Seq(Texts)
  BY Sides
<1>3. \A k \in 1 .. n : side(k) = side(k - 1) \o part(k) /\ part(k) \in Seq(Texts)
                        /\ side(k - 1) \in Seq(Texts)
  BY Sides
<1>c. c = Len(side(i))
  BY DEF Count
<1>p. part(i) = <<s[i].text>>
  BY DEF Part
<1>s. side(n) = Side(s, P)
  BY <1>n
<1> HIDE DEF n, side, part, c
<1>1. n - i \in Nat /\ n - i \in 0 .. n - i /\ i - 1 \in 0 .. n /\ i \in 0 .. n
  BY <1>n
<1>4. c = Len(side(i - 1)) + 1 /\ side(i)[c] = s[i].text /\ c \in Nat /\ c >= 1
  <2> DEFINE q == side(i - 1)  t == s[i].text
  <2>1. side(i) = q \o <<t>> /\ q \in Seq(Texts)
    BY <1>3, <1>n, <1>p
  <2> HIDE DEF t, q
  <2>2. Len(q \o <<t>>) = Len(q) + 1 /\ (q \o <<t>>)[Len(q) + 1] = t /\ Len(q) \in Nat
    BY <2>1
  <2> QED
    BY <2>1, <2>2, <1>c DEF t, q
<1>5. 0 \in S
  <2>1. i + 0 = i
    BY <1>n
  <2> QED
    BY <1>1, <1>4, <1>c, <2>1
<1>6. ASSUME NEW d \in 0 .. n - i - 1, d \in S PROVE d + 1 \in S
  <2>1. i + d + 1 \in 1 .. n /\ i + d + 1 - 1 = i + d /\ i + d \in 0 .. n /\ i + (d + 1) = i + d + 1
        /\ d + 1 \in 0 .. n - i
    BY <1>1, <1>n
  <2> DEFINE q == side(i + d)  p == part(i + d + 1)
  <2>2. side(i + d + 1) = q \o p /\ q \in Seq(Texts) /\ p \in Seq(Texts)
    BY <2>1, <1>3
  <2>5. c <= Len(q) /\ q[c] = s[i].text
    BY <1>6
  <2> HIDE DEF q, p
  <2>3. c <= Len(q \o p) /\ (q \o p)[c] = q[c]
    BY <1>4, <2>2, <2>5
  <2> QED
    BY <2>1, <2>2, <2>3, <2>5
<1>7. n - i \in S
  <2> HIDE DEF S
  <2> QED
    BY <1>1, <1>5, <1>6, Induction
<1>8. i + (n - i) = n
  BY <1>n
<1>9. c <= Len(Side(s, P)) /\ Side(s, P)[c] = s[i].text
  BY <1>7, <1>8, <1>s
<1>10. Len(Side(s, P)) \in Nat
  <2>1. Counting(s, P)
    BY Counts
  <2> QED
    BY <2>1 DEF Counting
<1> QED
  BY <1>4, <1>9, <1>10 DEF c

\* A side has no other elements.
LEMMA SideOnto ==
    ASSUME NEW s \in Seq(Ops), NEW P, NEW k \in 0 .. Len(s), NEW j \in 1 .. Count(s, P, k)
    PROVE  \E i \in 1 .. k : s[i].prefix \in P /\ Count(s, P, i) = j
<1> DEFINE n == Len(s)
           c(m) == Count(s, P, m)
           S == {m \in 0 .. k : j <= c(m) => \E i \in 1 .. m : s[i].prefix \in P /\ c(i) = j}
<1>n. n \in Nat /\ k \in 0 .. n /\ j \in 1 .. c(k)
  OBVIOUS
<1>c. /\ c(0) = 0
      /\ \A m \in 0 .. n : c(m) \in Nat
      /\ \A m \in 1 .. n : c(m) = c(m - 1) + (IF s[m].prefix \in P THEN 1 ELSE 0)
  <2>1. Counting(s, P)
    BY Counts
  <2> QED
    BY <2>1 DEF Counting
<1> HIDE DEF n, c
<1>1. k \in Nat /\ k \in 0 .. k /\ j \in Nat /\ j >= 1 /\ j <= c(k) /\ c(k) \in Nat
  BY <1>n, <1>c
<1>2. 0 \in S
  BY <1>1, <1>c
<1>3. ASSUME NEW m \in 0 .. k - 1, m \in S PROVE m + 1 \in S
  <2>1. m + 1 \in 1 .. n /\ m + 1 - 1 = m /\ m \in 0 .. n /\ m + 1 \in 0 .. k /\ m + 1 \in 1 .. m + 1
    BY <1>1, <1>n
  <2>2. c(m + 1) = c(m) + (IF s[m + 1].prefix \in P THEN 1 ELSE 0)
    BY <2>1, <1>c
  <2>3. c(m) \in Nat
    BY <2>1, <1>c
  <2>4. j <= c(m) => \E i \in 1 .. m : s[i].prefix \in P /\ c(i) = j
    BY <1>3
  <2>5. CASE j <= c(m)
    <3>1. 1 .. m \subseteq 1 .. m + 1
      BY <2>1
    <3> QED
      BY <2>1, <2>4, <2>5, <3>1
  <2>6. CASE ~(j <= c(m))
    <3>1. ASSUME j <= c(m + 1) PROVE s[m + 1].prefix \in P /\ c(m + 1) = j
      BY <2>2, <2>3, <2>6, <3>1, <1>1
    <3> QED
      BY <2>1, <3>1
  <2> QED
    BY <2>5, <2>6
<1>4. k \in S
  <2> HIDE DEF S
  <2> QED
    BY <1>1, <1>2, <1>3, Induction
<1> QED
  BY <1>1, <1>4 DEF c

\* Scripts whose lines are on corresponding sides count alike.
LEMMA CountsAlike ==
    ASSUME NEW s \in Seq(Ops), NEW t \in Seq(Ops), Len(t) = Len(s), NEW P, NEW Q,
           \A i \in 1 .. Len(s) : s[i].prefix \in P <=> t[i].prefix \in Q
    PROVE  \A k \in 0 .. Len(s) : Count(t, Q, k) = Count(s, P, k)
<1> DEFINE n == Len(s)
           c(k) == Count(s, P, k)
           e(k) == Count(t, Q, k)
           S == {k \in 0 .. n : e(k) = c(k)}
<1>n. n \in Nat /\ \A i \in 1 .. n : s[i].prefix \in P <=> t[i].prefix \in Q
  OBVIOUS
<1>c. c(0) = 0 /\ \A k \in 1 .. n : c(k) = c(k - 1) + (IF s[k].prefix \in P THEN 1 ELSE 0)
  <2>1. Counting(s, P)
    BY Counts
  <2> QED
    BY <2>1 DEF Counting
<1>e. e(0) = 0 /\ \A k \in 1 .. n : e(k) = e(k - 1) + (IF t[k].prefix \in Q THEN 1 ELSE 0)
  <2>1. Counting(t, Q)
    BY Counts
  <2> QED
    BY <2>1 DEF Counting
<1> HIDE DEF n, c, e
<1>2. 0 \in S
  BY <1>n, <1>c, <1>e
<1>3. ASSUME NEW k \in 0 .. n - 1, k \in S PROVE k + 1 \in S
  <2>1. k + 1 \in 1 .. n /\ k + 1 - 1 = k /\ k + 1 \in 0 .. n /\ e(k) = c(k)
    BY <1>n, <1>3
  <2>2. c(k + 1) = c(k) + (IF s[k + 1].prefix \in P THEN 1 ELSE 0)
    BY <2>1, <1>c
  <2>3. e(k + 1) = e(k) + (IF t[k + 1].prefix \in Q THEN 1 ELSE 0)
    BY <2>1, <1>e
  <2> QED
    BY <2>1, <2>2, <2>3, <1>n
<1>4. \A k \in 0 .. n : k \in S
  <2> HIDE DEF S
  <2> QED
    BY <1>n, <1>2, <1>3, Induction
<1> QED
  BY <1>4 DEF n, c, e

\* How many of the first k lines of a script the file has before and after.
OldTo(s, k) == Count(s, {" ", "-"}, k)
NewTo(s, k) == Count(s, {" ", "+"}, k)

\* Both counts, line by line.
Tallies(s) ==
    /\ Len(s) \in Nat /\ OldTo(s, 0) = 0 /\ NewTo(s, 0) = 0
    /\ \A k \in 0 .. Len(s) : OldTo(s, k) \in Nat /\ NewTo(s, k) \in Nat
    /\ \A k \in 1 .. Len(s) :
          /\ s[k].prefix \in {" ", "+", "-"} /\ s[k].text \in Texts
          /\ OldTo(s, k) = OldTo(s, k - 1) + (IF s[k].prefix = "+" THEN 0 ELSE 1)
          /\ NewTo(s, k) = NewTo(s, k - 1) + (IF s[k].prefix = "-" THEN 0 ELSE 1)
    /\ \A k \in 0 .. Len(s) - 1 :
          /\ OldTo(s, k + 1) = OldTo(s, k) + (IF s[k + 1].prefix = "+" THEN 0 ELSE 1)
          /\ NewTo(s, k + 1) = NewTo(s, k) + (IF s[k + 1].prefix = "-" THEN 0 ELSE 1)
    /\ \A i \in 0 .. Len(s) : \A j \in i .. Len(s) :
          OldTo(s, i) <= OldTo(s, j) /\ NewTo(s, i) <= NewTo(s, j)

\* What a script, and a file, is a sequence of.
IsScript(s) == s \in Seq(Ops)
IsFile(f) == f \in Seq(Texts)

\* Both sides of a script are counted as OldTo and NewTo say.
LEMMA Tallied == \A s : IsScript(s) => Tallies(s)
<1> SUFFICES ASSUME NEW s \in Seq(Ops) PROVE Tallies(s)
  BY DEF IsScript
<1>1. Counting(s, {" ", "-"}) /\ Counting(s, {" ", "+"})
  BY Counts
<1>2. \A i \in 0 .. Len(s) : \A j \in i .. Len(s) : OldTo(s, i) <= OldTo(s, j)
  BY CountGrows, Zenon DEF OldTo
<1>3. \A i \in 0 .. Len(s) : \A j \in i .. Len(s) : NewTo(s, i) <= NewTo(s, j)
  BY CountGrows, Zenon DEF NewTo
<1>4. ASSUME NEW k \in 1 .. Len(s)
      PROVE  /\ s[k].prefix \in {" ", "+", "-"} /\ s[k].text \in Texts
             /\ OldTo(s, k) = OldTo(s, k - 1) + (IF s[k].prefix = "+" THEN 0 ELSE 1)
             /\ NewTo(s, k) = NewTo(s, k - 1) + (IF s[k].prefix = "-" THEN 0 ELSE 1)
  <2>1. s[k] \in Ops
    OBVIOUS
  <2>2. s[k].prefix \in {" ", "+", "-"} /\ s[k].text \in Texts
    BY <2>1, OfOps
  <2> DEFINE p == s[k].prefix
  <2>3. OldTo(s, k) = OldTo(s, k - 1) + (IF p \in {" ", "-"} THEN 1 ELSE 0)
    BY <1>1 DEF Counting, OldTo
  <2>4. NewTo(s, k) = NewTo(s, k - 1) + (IF p \in {" ", "+"} THEN 1 ELSE 0)
    BY <1>1 DEF Counting, NewTo
  <2> HIDE DEF p
  <2> QED
    BY <2>2, <2>3, <2>4 DEF p
<1>5. /\ Len(s) \in Nat /\ OldTo(s, 0) = 0 /\ NewTo(s, 0) = 0
      /\ \A k \in 0 .. Len(s) : OldTo(s, k) \in Nat /\ NewTo(s, k) \in Nat
  BY <1>1 DEF Counting, OldTo, NewTo
<1>6. ASSUME NEW k \in 0 .. Len(s) - 1
      PROVE  /\ OldTo(s, k + 1) = OldTo(s, k) + (IF s[k + 1].prefix = "+" THEN 0 ELSE 1)
             /\ NewTo(s, k + 1) = NewTo(s, k) + (IF s[k + 1].prefix = "-" THEN 0 ELSE 1)
  <2>1. k + 1 \in 1 .. Len(s) /\ k + 1 - 1 = k
    OBVIOUS
  <2> DEFINE m == k + 1
  <2>2. /\ OldTo(s, m) = OldTo(s, m - 1) + (IF s[m].prefix = "+" THEN 0 ELSE 1)
        /\ NewTo(s, m) = NewTo(s, m - 1) + (IF s[m].prefix = "-" THEN 0 ELSE 1)
    <3>1. m \in 1 .. Len(s)
      BY <2>1
    <3> HIDE DEF m
    <3> QED
      BY <1>4, <3>1
  <2> QED
    BY <2>1, <2>2
<1> QED
  BY <1>2, <1>3, <1>4, <1>5, <1>6 DEF Tallies

\* The file has the lines that are shown between the line lo and the line k.
FitsTo(s, shown, before, lo, k) ==
    \A i \in lo + 1 .. k : i \in shown /\ s[i].prefix # "+" =>
        OldTo(s, i) <= Len(before) /\ before[OldTo(s, i)] = s[i].text

\* What the script makes of the file with its first k lines.
IsPatched(s, shown, before, after, k) ==
    /\ Len(after) = Len(before) + NewTo(s, k) - OldTo(s, k)
    /\ \A i \in 1 .. k : i \in shown /\ s[i].prefix # "-" =>
          NewTo(s, i) <= Len(after) /\ after[NewTo(s, i)] = s[i].text
    /\ \A i \in 1 .. k : i \notin shown =>
          /\ NewTo(s, i) <= Len(after) <=> OldTo(s, i) <= Len(before)
          /\ NewTo(s, i) <= Len(after) => after[NewTo(s, i)] = before[OldTo(s, i)]
    /\ \A j \in 1 .. Len(after) : j > NewTo(s, k) =>
          after[j] = before[j - NewTo(s, k) + OldTo(s, k)]

\* Every line that changes is shown.
ShowsChanges(s, shown) == \A i \in 1 .. Len(s) : i \notin shown => s[i].prefix = " "

\* A line that is not shown leaves the file as it is.
LEMMA HiddenLine ==
    ASSUME NEW s, IsScript(s), NEW shown, ShowsChanges(s, shown), NEW k, k \in 0 .. Len(s) - 1,
           k + 1 \notin shown, NEW before, IsFile(before), NEW after, IsFile(after)
    PROVE  /\ FitsTo(s, shown, before, 0, k + 1) <=> FitsTo(s, shown, before, 0, k)
           /\ NewTo(s, k + 1) - OldTo(s, k + 1) = NewTo(s, k) - OldTo(s, k)
           /\ IsPatched(s, shown, before, after, k) => IsPatched(s, shown, before, after, k + 1)
<1> DEFINE n == Len(s)  O(i) == OldTo(s, i)  W(i) == NewTo(s, i)
           b == Len(before)  a == Len(after)
<1>t. Tallies(s)
  BY Tallied
<1>n. n \in Nat /\ k \in Nat /\ k + 1 \in 1 .. n /\ k \in 0 .. n /\ a \in Nat /\ b \in Nat
      /\ k + 1 - 1 = k /\ 1 .. k + 1 = 1 .. k \cup {k + 1} /\ 0 + 1 = 1
  BY DEF IsScript, IsFile
<1>1. O(k + 1) = O(k) + 1 /\ W(k + 1) = W(k) + 1 /\ O(k) \in Nat /\ W(k) \in Nat
  <2>1. s[k + 1].prefix = " "
    BY <1>n DEF ShowsChanges
  <2>2. /\ \A i \in 0 .. n : O(i) \in Nat /\ W(i) \in Nat
        /\ \A i \in 0 .. n - 1 :
              /\ O(i + 1) = O(i) + (IF s[i + 1].prefix = "+" THEN 0 ELSE 1)
              /\ W(i + 1) = W(i) + (IF s[i + 1].prefix = "-" THEN 0 ELSE 1)
    BY <1>t DEF Tallies
  <2>3. k \in 0 .. n - 1 /\ k \in 0 .. n
    BY <1>n
  <2> HIDE DEF n, O, W
  <2>4. /\ O(k) \in Nat /\ W(k) \in Nat
        /\ O(k + 1) = O(k) + (IF s[k + 1].prefix = "+" THEN 0 ELSE 1)
        /\ W(k + 1) = W(k) + (IF s[k + 1].prefix = "-" THEN 0 ELSE 1)
    BY ONLY <2>2, <2>3
  <2> QED
    BY ONLY <2>1, <2>4
<1>2. FitsTo(s, shown, before, 0, k + 1) <=> FitsTo(s, shown, before, 0, k)
  BY <1>n DEF FitsTo
<1>3. ASSUME IsPatched(s, shown, before, after, k)
      PROVE  IsPatched(s, shown, before, after, k + 1)
  <2>1. /\ a = b + W(k) - O(k)
        /\ \A i \in 1 .. k : i \in shown /\ s[i].prefix # "-" => W(i) <= a /\ after[W(i)] = s[i].text
        /\ \A i \in 1 .. k : i \notin shown =>
              /\ W(i) <= a <=> O(i) <= b
              /\ W(i) <= a => after[W(i)] = before[O(i)]
        /\ \A j \in 1 .. a : j > W(k) => after[j] = before[j - W(k) + O(k)]
    BY <1>3 DEF IsPatched
  <2> HIDE DEF n, O, W, a, b
  <2>2. a = b + W(k + 1) - O(k + 1)
    BY <1>1, <1>n, <2>1
  <2>3. (W(k + 1) <= a <=> O(k + 1) <= b) /\ (W(k + 1) <= a => after[W(k + 1)] = before[O(k + 1)])
    <3>1. W(k + 1) <= a <=> O(k + 1) <= b
      BY <1>1, <1>n, <2>1
    <3>2. ASSUME W(k + 1) <= a PROVE after[W(k + 1)] = before[O(k + 1)]
      <4>1. W(k + 1) \in 1 .. a /\ W(k + 1) > W(k) /\ W(k + 1) - W(k) + O(k) = O(k + 1)
        BY <1>1, <1>n, <3>2
      <4> QED
        BY <2>1, <4>1
    <3> QED
      BY <3>1, <3>2
  <2>4. \A j \in 1 .. a : j > W(k + 1) => after[j] = before[j - W(k + 1) + O(k + 1)]
    <3>1. ASSUME NEW j \in 1 .. a, j > W(k + 1) PROVE after[j] = before[j - W(k + 1) + O(k + 1)]
      <4>1. j > W(k) /\ j - W(k + 1) + O(k + 1) = j - W(k) + O(k)
        BY <1>1, <1>n, <3>1
      <4> QED
        BY <2>1, <4>1
    <3> QED
      BY <3>1
  <2>5. \A i \in 1 .. k + 1 : i \in shown /\ s[i].prefix # "-" => W(i) <= a /\ after[W(i)] = s[i].text
    BY <1>n, <2>1
  <2>6. \A i \in 1 .. k + 1 : i \notin shown =>
              /\ W(i) <= a <=> O(i) <= b
              /\ W(i) <= a => after[W(i)] = before[O(i)]
    BY <1>n, <2>1, <2>3
  <2> QED
    BY <2>2, <2>4, <2>5, <2>6 DEF IsPatched, a, b, O, W
<1> QED
  BY <1>1, <1>2, <1>3

-----------------------------------------------------------------------------
\* What a hunk has come to after its lines up to k: it replaces the lines of the
\* file from the next after lo.
HunkRecord ==
    [ok : BOOLEAN, lines : Seq(Texts), cursor : Nat, new : Seq(Texts), removed : Nat, added : Nat]

\* The hunk at work after the lines lo + 1 to k.
Reaches(h, s, shown, before, lines, lo, k) ==
    /\ h \in HunkRecord /\ h.lines = lines
    /\ h.ok <=> FitsTo(s, shown, before, lo, k)
    /\ h.ok =>
          /\ h.cursor <= Len(lines)
          /\ h.cursor = NewTo(s, lo) + OldTo(s, k) - OldTo(s, lo)
          /\ Len(h.new) = NewTo(s, k) - NewTo(s, lo)
          /\ h.added - h.removed = Len(h.new) - (OldTo(s, k) - OldTo(s, lo))
          /\ \A i \in lo + 1 .. k : s[i].prefix # "-" => h.new[NewTo(s, i) - NewTo(s, lo)] = s[i].text

\* A line of a hunk that is at work takes it one line further.
LEMMA LineApplied ==
    ASSUME NEW h, NEW x, h = [ok |-> h.ok, lines |-> h.lines, cursor |-> h.cursor, new |-> h.new,
                              removed |-> h.removed, added |-> h.added]
    PROVE  /\ x.prefix = "+" =>
                 ApplyLine(h, x) = [ok |-> h.ok, lines |-> h.lines, cursor |-> h.cursor,
                                    new |-> Append(h.new, x.text),
                                    removed |-> h.removed, added |-> h.added + 1]
           /\ x.prefix = " " /\ Fits(h, x) =>
                 ApplyLine(h, x) = [ok |-> h.ok, lines |-> h.lines, cursor |-> h.cursor + 1,
                                    new |-> Append(h.new, x.text),
                                    removed |-> h.removed, added |-> h.added]
           /\ x.prefix = "-" /\ Fits(h, x) =>
                 ApplyLine(h, x) = [ok |-> h.ok, lines |-> h.lines, cursor |-> h.cursor + 1,
                                    new |-> h.new, removed |-> h.removed + 1, added |-> h.added]
           /\ x.prefix \in {" ", "-"} /\ ~Fits(h, x) =>
                 ApplyLine(h, x) = [ok |-> FALSE, lines |-> h.lines, cursor |-> h.cursor,
                                    new |-> h.new, removed |-> h.removed, added |-> h.added]
<1>1. CASE x.prefix = "+"
  <2>1. ApplyLine(h, x) = [h EXCEPT !.new = Append(@, x.text), !.added = @ + 1]
    BY <1>1 DEF ApplyLine
  <2> QED
    BY <2>1, <1>1
<1>2. CASE x.prefix = " " /\ Fits(h, x)
  <2>1. ApplyLine(h, x) = [h EXCEPT !.cursor = @ + 1, !.new = Append(@, x.text)]
    BY <1>2 DEF ApplyLine
  <2> QED
    BY <2>1, <1>2
<1>3. CASE x.prefix = "-" /\ Fits(h, x)
  <2>1. ApplyLine(h, x) = [h EXCEPT !.cursor = @ + 1, !.removed = @ + 1]
    BY <1>3 DEF ApplyLine
  <2> QED
    BY <2>1, <1>3
<1>4. CASE x.prefix \in {" ", "-"} /\ ~Fits(h, x)
  <2>1. ApplyLine(h, x) = [h EXCEPT !.ok = FALSE]
    BY <1>4 DEF ApplyLine
  <2> QED
    BY <2>1, <1>4
<1> QED
  BY <1>1, <1>2, <1>3, <1>4

\* One line more of a hunk.
LEMMA ShownLine ==
    ASSUME NEW s, IsScript(s), NEW shown, NEW lo, NEW k, lo \in 0 .. Len(s), k \in lo .. Len(s) - 1,
           k + 1 \in shown, NEW before, IsFile(before), NEW lines, IsFile(lines),
           IsPatched(s, shown, before, lines, lo),
           NEW h, Reaches(h, s, shown, before, lines, lo, k)
    PROVE  Reaches(ApplyLine(h, s[k + 1]), s, shown, before, lines, lo, k + 1)
<1> DEFINE n == Len(s)  O(i) == OldTo(s, i)  W(i) == NewTo(s, i)
           b == Len(before)  a == Len(lines)  x == s[k + 1]  g == ApplyLine(h, x)
           Written(u, j) == \A i \in lo + 1 .. j : s[i].prefix # "-" => u[W(i) - W(lo)] = s[i].text
<1>n. n \in Nat /\ lo \in Nat /\ k \in Nat /\ k + 1 \in 1 .. n /\ k \in 0 .. n /\ lo \in 0 .. n /\ k + 1 \in 0 .. n
      /\ k \in lo .. n /\ a \in Nat /\ b \in Nat /\ k + 1 - 1 = k /\ lo + 1 .. k + 1 = lo + 1 .. k \cup {k + 1}
  BY DEF IsScript, IsFile
<1>t. /\ \A i \in 0 .. n : O(i) \in Nat /\ W(i) \in Nat
      /\ \A i \in 1 .. n :
            /\ s[i].prefix \in {" ", "+", "-"} /\ s[i].text \in Texts
            /\ O(i) = O(i - 1) + (IF s[i].prefix = "+" THEN 0 ELSE 1)
            /\ W(i) = W(i - 1) + (IF s[i].prefix = "-" THEN 0 ELSE 1)
      /\ \A i \in 0 .. n - 1 :
            /\ O(i + 1) = O(i) + (IF s[i + 1].prefix = "+" THEN 0 ELSE 1)
            /\ W(i + 1) = W(i) + (IF s[i + 1].prefix = "-" THEN 0 ELSE 1)
      /\ \A i \in 0 .. n : \A j \in i .. n : O(i) <= O(j) /\ W(i) <= W(j)
  <2>1. Tallies(s)
    BY Tallied
  <2> QED
    BY <2>1 DEF Tallies
<1>h. /\ h \in HunkRecord /\ h.lines = lines
      /\ h.ok <=> FitsTo(s, shown, before, lo, k)
      /\ h.ok => /\ h.cursor <= a /\ h.cursor = W(lo) + O(k) - O(lo)
                 /\ Len(h.new) = W(k) - W(lo)
                 /\ h.added - h.removed = Len(h.new) - (O(k) - O(lo))
                 /\ Written(h.new, k)
  BY DEF Reaches
<1>p. /\ a = b + W(lo) - O(lo)
      /\ \A j \in 1 .. a : j > W(lo) => lines[j] = before[j - W(lo) + O(lo)]
  BY DEF IsPatched
<1>f. FitsTo(s, shown, before, lo, k + 1) <=>
         FitsTo(s, shown, before, lo, k) /\ (x.prefix # "+" => O(k + 1) <= b /\ before[O(k + 1)] = x.text)
  BY <1>n DEF FitsTo
<1> SUFFICES /\ g \in HunkRecord /\ g.lines = lines
             /\ g.ok <=> FitsTo(s, shown, before, lo, k + 1)
             /\ g.ok => /\ g.cursor <= a /\ g.cursor = W(lo) + O(k + 1) - O(lo)
                        /\ Len(g.new) = W(k + 1) - W(lo)
                        /\ g.added - g.removed = Len(g.new) - (O(k + 1) - O(lo))
                        /\ Written(g.new, k + 1)
  BY DEF Reaches
<1> HIDE DEF n, O, W, b, a
<1>x. x.prefix \in {" ", "+", "-"} /\ x.text \in Texts
  <2>1. k + 1 \in 1 .. n
    BY <1>n
  <2> QED
    BY <1>t, <2>1
<1>y. /\ O(k + 1) = O(k) + (IF x.prefix = "+" THEN 0 ELSE 1)
      /\ W(k + 1) = W(k) + (IF x.prefix = "-" THEN 0 ELSE 1)
  <2>1. k \in 0 .. n - 1
    BY <1>n
  <2> QED
    BY ONLY <1>t, <2>1
<1>z. O(k) \in Nat /\ W(k) \in Nat /\ O(lo) \in Nat /\ W(lo) \in Nat /\ O(lo) <= O(k) /\ W(lo) <= W(k)
  <2>1. k \in 0 .. n /\ lo \in 0 .. n /\ k \in lo .. n
    BY <1>n
  <2> QED
    BY <1>t, <2>1
<1>r. h.ok \in BOOLEAN /\ h.cursor \in Nat /\ h.new \in Seq(Texts) /\ h.removed \in Nat /\ h.added \in Nat
  BY <1>h DEF HunkRecord
<1>q. h = [ok |-> h.ok, lines |-> h.lines, cursor |-> h.cursor, new |-> h.new,
           removed |-> h.removed, added |-> h.added] /\ h.lines = lines
  BY <1>h DEF HunkRecord
<1> DEFINE u == Len(h.new)  new == Append(h.new, x.text)
<1>k. h.ok => /\ h.cursor <= a /\ h.cursor = W(lo) + O(k) - O(lo)
              /\ u = W(k) - W(lo)
              /\ h.added - h.removed = u - (O(k) - O(lo))
  BY <1>h
<1>l. a \in Nat /\ b \in Nat /\ a = b + W(lo) - O(lo)
  BY <1>n, <1>p
<1>m. h.cursor \in Nat /\ h.removed \in Nat /\ h.added \in Nat /\ u \in Nat
  BY <1>r
<1> HIDE DEF x, g
<1>w. /\ new \in Seq(Texts) /\ Len(new) = u + 1 /\ new[u + 1] = x.text
      /\ \A j \in 1 .. u : new[j] = h.new[j]
  <2> DEFINE v == h.new  e == x.text
  <2>1. v \in Seq(Texts) /\ e \in Texts
    BY <1>r, <1>x
  <2> SUFFICES Append(v, e) \in Seq(Texts) /\ Len(Append(v, e)) = Len(v) + 1 /\ Append(v, e)[Len(v) + 1] = e
               /\ \A j \in 1 .. Len(v) : Append(v, e)[j] = v[j]
    OBVIOUS
  <2> HIDE DEF v, e
  <2> QED
    BY ONLY <2>1
<1> HIDE DEF u, new
<1>i. \A i \in lo + 1 .. k : s[i].prefix # "-" => W(i) - W(lo) \in 1 .. W(k) - W(lo)
  <2>1. ASSUME NEW i \in lo + 1 .. k, s[i].prefix # "-" PROVE W(i) - W(lo) \in 1 .. W(k) - W(lo)
    <3>1. i \in 1 .. n /\ i \in 0 .. n /\ i - 1 \in 0 .. n /\ i - 1 \in lo .. n /\ k \in i .. n
      BY <1>n
    <3>2. W(i) = W(i - 1) + 1 /\ W(i - 1) \in Nat /\ W(i) \in Nat
      BY <1>t, <3>1, <2>1
    <3>3. W(lo) <= W(i - 1) /\ W(i) <= W(k)
      BY <1>t, <1>n, <3>1
    <3> QED
      BY ONLY <1>z, <3>2, <3>3
  <2> QED
    BY <2>1
<1> HIDE DEF Written
<1>a. ASSUME h.ok, x.prefix # "-" PROVE Written(new, k + 1)
  <2>1. u = W(k) - W(lo) /\ Written(h.new, k)
    BY <1>h, <1>k, <1>a
  <2>2. W(k + 1) = W(k) + 1
    BY <1>y, <1>a
  <2>3. new[W(k + 1) - W(lo)] = x.text
    <3>1. W(k + 1) - W(lo) = u + 1
      BY ONLY <1>z, <2>1, <2>2
    <3> QED
      BY <3>1, <1>w
  <2>4. ASSUME NEW i \in lo + 1 .. k, s[i].prefix # "-" PROVE new[W(i) - W(lo)] = s[i].text
    <3>1. W(i) - W(lo) \in 1 .. u
      BY <2>1, <2>4, <1>i
    <3>2. h.new[W(i) - W(lo)] = s[i].text
      BY <2>1, <2>4 DEF Written
    <3> QED
      BY <3>1, <3>2, <1>w
  <2> QED
    BY <2>3, <2>4, <1>n DEF Written, x
\* The conjuncts but the last, from those of h.
<1> DEFINE Done(c, v, r, d) == /\ c <= a /\ c = W(lo) + O(k + 1) - O(lo)
                               /\ v = W(k + 1) - W(lo)
                               /\ d - r = v - (O(k + 1) - O(lo))
<1>s. SUFFICES /\ g \in HunkRecord /\ g.lines = lines
               /\ g.ok <=> FitsTo(s, shown, before, lo, k + 1)
               /\ g.ok => Done(g.cursor, Len(g.new), g.removed, g.added) /\ Written(g.new, k + 1)
  OBVIOUS
<1>1. CASE x.prefix = "+"
  <2>1. g = [ok |-> h.ok, lines |-> lines, cursor |-> h.cursor, new |-> new,
             removed |-> h.removed, added |-> h.added + 1]
    BY <1>1, <1>q, LineApplied DEF new, g
  <2>2. g \in HunkRecord /\ g.lines = lines
    BY <2>1, <1>r, <1>w, <1>h DEF HunkRecord
  <2>4. g.cursor = h.cursor /\ g.new = new /\ g.added = h.added + 1 /\ g.removed = h.removed /\ g.ok = h.ok
    BY <2>1
  <2>3. g.ok <=> FitsTo(s, shown, before, lo, k + 1)
    BY <2>4, <1>f, <1>h, <1>1
  <2>5. ASSUME h.ok PROVE Done(h.cursor, u + 1, h.removed, h.added + 1)
    <3>1. O(k + 1) = O(k) /\ W(k + 1) = W(k) + 1
      BY <1>1, <1>y, <1>z
    <3> QED
      BY ONLY <3>1, <1>k, <2>5, <1>m, <1>z, <1>l
  <2> QED
    BY <2>2, <2>3, <2>4, <2>5, <1>a, <1>1, <1>w
<1>2. CASE x.prefix # "+"
  <2>o. O(k + 1) = O(k) + 1
    BY <1>2, <1>y
  <2>1. ASSUME h.ok PROVE Fits(h, x) <=> O(k + 1) <= b /\ before[O(k + 1)] = x.text
    <3>1. h.cursor = W(lo) + O(k) - O(lo) /\ h.cursor <= a
      BY <1>k, <2>1
    <3>2. h.cursor < a <=> O(k + 1) <= b
      BY ONLY <3>1, <1>l, <1>z, <2>o, <1>m
    <3>3. ASSUME h.cursor < a PROVE lines[h.cursor + 1] = before[O(k + 1)]
      <4> DEFINE j == h.cursor + 1
      <4>2. j \in 1 .. a /\ j > W(lo) /\ j - W(lo) + O(lo) = O(k + 1)
        BY ONLY <3>1, <3>3, <1>l, <1>z, <2>o, <1>m
      <4> HIDE DEF j
      <4>3. lines[j] = before[j - W(lo) + O(lo)]
        BY ONLY <4>2, <1>p
      <4> QED
        BY <4>2, <4>3 DEF j
    <3> QED
      BY <3>2, <3>3, <1>q DEF Fits, a
  <2>2. CASE ~Fits(h, x)
    <3>1. g = [ok |-> FALSE, lines |-> lines, cursor |-> h.cursor, new |-> h.new,
               removed |-> h.removed, added |-> h.added]
      BY <2>2, <1>q, <1>2, <1>x, LineApplied DEF g
    <3>2. ~FitsTo(s, shown, before, lo, k + 1)
      BY <2>1, <2>2, <1>f, <1>h, <1>2
    <3> QED
      BY <3>1, <3>2, <1>r, <1>h DEF HunkRecord
  <2>3. CASE Fits(h, x) /\ x.prefix = " "
    <3>1. g = [ok |-> h.ok, lines |-> lines, cursor |-> h.cursor + 1, new |-> new,
               removed |-> h.removed, added |-> h.added]
      BY <2>3, <1>q, LineApplied DEF new, g
    <3>2. g \in HunkRecord /\ g.lines = lines
      BY <3>1, <1>r, <1>w, <1>h DEF HunkRecord
    <3>4. g.cursor = h.cursor + 1 /\ g.new = new /\ g.added = h.added /\ g.removed = h.removed /\ g.ok = h.ok
      BY <3>1
    <3>3. g.ok <=> FitsTo(s, shown, before, lo, k + 1)
      BY <3>4, <1>f, <1>h, <1>2, <2>1, <2>3
    <3>6. h.cursor < a
      BY <2>3, <1>q DEF Fits, a
    <3>5. ASSUME h.ok PROVE Done(h.cursor + 1, u + 1, h.removed, h.added)
      <4>1. W(k + 1) = W(k) + 1
        BY <2>3, <1>y
      <4> QED
        BY ONLY <4>1, <2>o, <3>6, <1>k, <3>5, <1>m, <1>z, <1>l
    <3> QED
      BY <3>2, <3>3, <3>4, <3>5, <1>a, <2>3, <1>w
  <2>4. CASE Fits(h, x) /\ x.prefix = "-"
    <3>1. g = [ok |-> h.ok, lines |-> lines, cursor |-> h.cursor + 1, new |-> h.new,
               removed |-> h.removed + 1, added |-> h.added]
      BY <2>4, <1>q, LineApplied DEF g
    <3>2. g \in HunkRecord /\ g.lines = lines
      BY <3>1, <1>r, <1>h DEF HunkRecord
    <3>4. g.cursor = h.cursor + 1 /\ g.new = h.new /\ g.added = h.added /\ g.removed = h.removed + 1 /\ g.ok = h.ok
      BY <3>1
    <3>3. g.ok <=> FitsTo(s, shown, before, lo, k + 1)
      BY <3>4, <1>f, <1>h, <1>2, <2>1, <2>4
    <3>6. h.cursor < a
      BY <2>4, <1>q DEF Fits, a
    <3>5. ASSUME h.ok PROVE Done(h.cursor + 1, u, h.removed + 1, h.added)
      <4>1. W(k + 1) = W(k)
        BY <2>4, <1>y, <1>z
      <4> QED
        BY ONLY <4>1, <2>o, <3>6, <1>k, <3>5, <1>m, <1>z, <1>l
    <3>7. ASSUME h.ok PROVE Written(h.new, k + 1)
      <4>1. Written(h.new, k)
        BY <1>h, <3>7
      <4>2. s[k + 1].prefix = "-"
        BY <2>4 DEF x
      <4> QED
        BY <4>1, <4>2, <1>n DEF Written
    <3> QED
      BY <3>2, <3>3, <3>4, <3>5, <3>7 DEF u
  <2> QED
    BY <2>2, <2>3, <2>4, <1>2, <1>x
<1> QED
  BY <1>1, <1>2

\* A run of elements that is one longer has one element more.
LEMMA RunTurn ==
    ASSUME NEW T, NEW s \in Seq(T), NEW i \in 1 .. Len(s), NEW j \in i - 1 .. Len(s) - 1
    PROVE  /\ SubSeq(s, i, j) \in Seq(T) /\ s[j + 1] \in T
           /\ SubSeq(s, i, j + 1) = Append(SubSeq(s, i, j), s[j + 1])
<1> DEFINE p == SubSeq(s, i, j)  q == SubSeq(s, i, j + 1)  x == s[j + 1]
<1>1. p \in Seq(T) /\ x \in T /\ q \in Seq(T) /\ Len(q) = j + 1 - i + 1 /\ Len(p) = j - i + 1
  OBVIOUS
<1>2. \A k \in 1 .. Len(p) : p[k] = s[i + k - 1]
  OBVIOUS
<1>3. \A k \in 1 .. Len(q) : q[k] = s[i + k - 1]
  OBVIOUS
<1>4. \A k \in 1 .. Len(q) : Append(p, x)[k] = q[k]
  BY <1>1, <1>2, <1>3
<1> QED
  BY <1>1, <1>4, SeqEqual

\* A hunk, line by line.
LEMMA HunkMatched ==
    ASSUME NEW s, IsScript(s), NEW shown, NEW lo, NEW hi, lo \in 0 .. Len(s), hi \in lo .. Len(s),
           \A i \in lo + 1 .. hi : i \in shown, NEW before, IsFile(before), NEW lines, IsFile(lines),
           IsPatched(s, shown, before, lines, lo), NewTo(s, lo) <= Len(lines)
    PROVE  Reaches(Matched(lines, NewTo(s, lo), SubSeq(s, lo + 1, hi)), s, shown, before, lines, lo, hi)
<1> DEFINE n == Len(s)
           h(k) == Matched(lines, NewTo(s, lo), SubSeq(s, lo + 1, k))
           R(k) == Reaches(h(k), s, shown, before, lines, lo, k)
           S == {d \in 0 .. hi - lo : R(lo + d)}
<1>n. n \in Nat /\ lo \in 0 .. n /\ hi \in lo .. n
  BY DEF IsScript
<1>t. NewTo(s, lo) \in Nat /\ OldTo(s, lo) \in Nat
  <2>1. Tallies(s)
    BY Tallied
  <2> QED
    BY <2>1 DEF Tallies
<1>1. R(lo)
  <2>1. SubSeq(s, lo + 1, lo) = <<>>
    BY DEF IsScript
  <2> DEFINE g == h(lo)
  <2>2. g = AtHunk(lines, NewTo(s, lo))
    BY <2>1, MatchedNothing
  <2> HIDE DEF g
  <2>3. g \in HunkRecord
    <3>1. <<>> \in Seq(Texts) /\ lines \in Seq(Texts)
      BY DEF IsFile
    <3> QED
      BY <2>2, <1>t, <3>1 DEF HunkRecord, AtHunk
  <2>4. g.lines = lines /\ g.ok /\ g.cursor = NewTo(s, lo) /\ g.new = <<>> /\ g.removed = 0 /\ g.added = 0
    BY <2>2 DEF AtHunk
  <2>5. \A i \in lo + 1 .. lo : FALSE
    BY <1>n
  <2>6. FitsTo(s, shown, before, lo, lo)
    BY <2>5 DEF FitsTo
  <2>7. Len(g.new) = 0
    BY <2>4
  <2>8. /\ g.cursor = NewTo(s, lo) + OldTo(s, lo) - OldTo(s, lo)
        /\ Len(g.new) = NewTo(s, lo) - NewTo(s, lo)
        /\ g.added - g.removed = Len(g.new) - (OldTo(s, lo) - OldTo(s, lo))
    BY ONLY <2>4, <2>7, <1>t
  <2>9. Reaches(g, s, shown, before, lines, lo, lo)
    BY ONLY <2>3, <2>4, <2>5, <2>6, <2>8, NewTo(s, lo) <= Len(lines) DEF Reaches
  <2> QED
    BY <2>9 DEF g
<1>2. ASSUME NEW k, k \in lo .. hi - 1, R(k) PROVE R(k + 1)
  <2>1. k \in lo .. n - 1 /\ k + 1 \in lo + 1 .. hi /\ lo + 1 \in 1 .. n /\ k \in lo + 1 - 1 .. n - 1
    BY ONLY <1>2, <1>n
  <2>2. SubSeq(s, lo + 1, k + 1) = Append(SubSeq(s, lo + 1, k), s[k + 1])
        /\ SubSeq(s, lo + 1, k) \in Seq(Ops) /\ s[k + 1] \in Ops
    BY <2>1, RunTurn DEF IsScript
  <2>3. h(k + 1) = ApplyLine(h(k), s[k + 1])
    <3> DEFINE p == SubSeq(s, lo + 1, k)  x == s[k + 1]  m == NewTo(s, lo)
    <3>1. p \in Seq(Ops) /\ x \in Ops
      BY <2>2
    <3> HIDE DEF p, x, m
    <3>2. Matched(lines, m, Append(p, x)) = ApplyLine(Matched(lines, m, p), x)
      BY ONLY <3>1, MatchedTurn
    <3> QED
      BY <2>2, <3>2 DEF p, x, m
  <2> HIDE DEF h
  <2>4. k + 1 \in shown
    BY <2>1
  <2>5. Reaches(ApplyLine(h(k), s[k + 1]), s, shown, before, lines, lo, k + 1)
    BY <1>2, <2>1, <2>4, <1>n, ShownLine
  <2> QED
    BY <2>3, <2>5
<1> HIDE DEF R
<1>3. 0 \in S /\ hi - lo \in Nat /\ hi - lo \in 0 .. hi - lo
  <2>1. lo + 0 = lo /\ hi - lo \in Nat
    BY ONLY <1>n
  <2> QED
    BY ONLY <2>1, <1>1
<1>4. ASSUME NEW d \in 0 .. hi - lo - 1, d \in S PROVE d + 1 \in S
  <2>1. lo + d \in lo .. hi - 1 /\ lo + (d + 1) = lo + d + 1 /\ d + 1 \in 0 .. hi - lo
    BY ONLY <1>n, d \in 0 .. hi - lo - 1
  <2>2. R(lo + d)
    BY <1>4
  <2> DEFINE k == lo + d
  <2>3. k \in lo .. hi - 1 /\ R(k)
    BY <2>1, <2>2
  <2> HIDE DEF k
  <2>4. R(k + 1)
    BY <1>2, <2>3
  <2> QED
    BY <2>1, <2>4 DEF k
<1>5. hi - lo \in S
  <2> HIDE DEF S
  <2> QED
    BY <1>3, <1>4, Induction
<1>6. lo + (hi - lo) = hi
  BY ONLY <1>n
<1> QED
  BY <1>5, <1>6 DEF R, h

\* The elements of r are those of p and then those of q.
Concatenates(r, p, q) ==
    /\ r \in Seq(Texts) /\ Len(r) = Len(p) + Len(q)
    /\ \A j \in 1 .. Len(p) : r[j] = p[j]
    /\ \A j \in 1 .. Len(q) : r[Len(p) + j] = q[j]

\* Where the elements of a concatenation come from.
LEMMA Concatenated == \A p, q : IsFile(p) /\ IsFile(q) => Concatenates(p \o q, p, q)
<1> SUFFICES ASSUME NEW p \in Seq(Texts), NEW q \in Seq(Texts) PROVE Concatenates(p \o q, p, q)
  BY DEF IsFile
<1>1. p \o q \in Seq(Texts) /\ Len(p \o q) = Len(p) + Len(q)
  OBVIOUS
<1>2. \A j \in 1 .. Len(p) : (p \o q)[j] = p[j]
  OBVIOUS
<1>3. \A j \in 1 .. Len(q) : (p \o q)[Len(p) + j] = q[j]
  OBVIOUS
<1> QED
  BY <1>1, <1>2, <1>3 DEF Concatenates

\* A file with a range of its lines replaced.
Splices(r, L, u, i, c) ==
    /\ r \in Seq(Texts) /\ Len(r) = i + Len(u) + Len(L) - c
    /\ \A j \in 1 .. i : r[j] = L[j]
    /\ \A j \in 1 .. Len(u) : r[i + j] = u[j]
    /\ \A j \in i + Len(u) + 1 .. Len(r) : r[j] = L[j - i - Len(u) + c]

\* What applyHunks puts together has a range of lines replaced.
LEMMA Spliced ==
    \A L, u, i, c : IsFile(L) /\ IsFile(u) /\ i \in 0 .. Len(L) /\ c \in i .. Len(L) =>
        Splices(SubSeq(L, 1, i) \o u \o SubSeq(L, c + 1, Len(L)), L, u, i, c)
<1> SUFFICES ASSUME NEW L \in Seq(Texts), NEW u \in Seq(Texts), NEW i \in 0 .. Len(L), NEW c \in i .. Len(L), NEW r,
                    r = SubSeq(L, 1, i) \o u \o SubSeq(L, c + 1, Len(L))
             PROVE  Splices(r, L, u, i, c)
  BY DEF IsFile
<1> DEFINE p == SubSeq(L, 1, i)  q == SubSeq(L, c + 1, Len(L))  m == Len(L)  v == Len(u)
           pu == p \o u
<1>1. p \in Seq(Texts) /\ Len(p) = i /\ (\A j \in 1 .. i : p[j] = L[j]) /\ m \in Nat /\ v \in Nat
  OBVIOUS
<1>2. q \in Seq(Texts) /\ Len(q) = m - c /\ (\A j \in 1 .. m - c : q[j] = L[c + j])
  OBVIOUS
<1> HIDE DEF p, q
<1>3. pu \in Seq(Texts) /\ Len(pu) = i + v /\ (\A j \in 1 .. i : pu[j] = p[j])
      /\ (\A j \in 1 .. v : pu[i + j] = u[j])
  <2>1. Concatenates(p \o u, p, u)
    BY <1>1, Concatenated DEF IsFile
  <2> QED
    BY ONLY <2>1, <1>1 DEF Concatenates
<1> HIDE DEF pu
<1>4. r = pu \o q
  BY DEF p, q, pu
<1>5. r \in Seq(Texts) /\ Len(r) = i + v + (m - c) /\ (\A j \in 1 .. i + v : r[j] = pu[j])
      /\ (\A j \in 1 .. m - c : r[i + v + j] = q[j])
  <2>1. Concatenates(pu \o q, pu, q)
    BY <1>2, <1>3, Concatenated DEF IsFile
  <2> QED
    BY ONLY <2>1, <1>2, <1>3, <1>4 DEF Concatenates
<1> HIDE DEF m, v
<1>n. i \in 0 .. m /\ c \in i .. m /\ i \in Nat /\ c \in Nat
  BY <1>1 DEF m
<1>6. ASSUME NEW j \in 1 .. i PROVE r[j] = L[j]
  <2>1. j \in 1 .. i + v
    BY ONLY <1>1, <1>n, j \in 1 .. i
  <2> QED
    BY <2>1, <1>5, <1>3, <1>1
<1>7. ASSUME NEW j \in 1 .. v PROVE r[i + j] = u[j]
  <2>1. i + j \in 1 .. i + v
    BY ONLY <1>1, <1>n, j \in 1 .. v
  <2> QED
    BY <2>1, <1>5, <1>3
<1>8. ASSUME NEW j \in i + v + 1 .. Len(r) PROVE r[j] = L[j - i - v + c]
  <2> DEFINE k == j - i - v
  <2>1. k \in 1 .. m - c /\ i + v + k = j /\ c + k = j - i - v + c
    BY ONLY <1>1, <1>n, <1>5, j \in i + v + 1 .. Len(r)
  <2> HIDE DEF k
  <2>2. r[i + v + k] = q[k] /\ q[k] = L[c + k]
    BY <2>1, <1>5, <1>2
  <2> QED
    BY <2>1, <2>2
<1>9. Len(r) = i + v + m - c
  BY ONLY <1>5, <1>1, <1>n
<1> QED
  BY <1>5, <1>6, <1>7, <1>8, <1>9 DEF Splices, m, v

-----------------------------------------------------------------------------
\* What the hunks of the first k lines have come to.
FileRecord == [ok : BOOLEAN, lines : Seq(Texts), offset : Int]

\* a is what applyHunks has after the first k lines of the script.
Arrives(a, s, shown, before, k) ==
    /\ a \in FileRecord
    /\ a.ok <=> FitsTo(s, shown, before, 0, k)
    /\ a.ok => a.offset = NewTo(s, k) - OldTo(s, k) /\ IsPatched(s, shown, before, a.lines, k)

\* What ApplyHunk does with a hunk that was matched.
HunkEnds(g, a, idx, h) ==
    /\ (~a.ok \/ idx \notin 0 .. Len(a.lines) \/ ~h.ok) => g = [a EXCEPT !.ok = FALSE]
    /\ ~(~a.ok \/ idx \notin 0 .. Len(a.lines) \/ ~h.ok) =>
          g = [ok |-> TRUE, offset |-> a.offset + h.added - h.removed,
               lines |-> SubSeq(a.lines, 1, idx) \o h.new
                             \o SubSeq(a.lines, h.cursor + 1, Len(a.lines))]

\* applyHunks' two ways to leave a hunk.
LEMMA HunkDone ==
    ASSUME NEW a, NEW start, NEW body
    PROVE  HunkEnds(ApplyHunk(a, [oldStart |-> start, lines |-> body]), a, start - 1 + a.offset,
                    Matched(a.lines, start - 1 + a.offset, body))
<1> DEFINE idx == start - 1 + a.offset
           h == Matched(a.lines, idx, body)
           g == ApplyHunk(a, [oldStart |-> start, lines |-> body])
<1>1. Matching(a.lines, idx, body)[Len(body)] = h
  BY DEF Matched
<1>2. g = IF ~a.ok \/ idx \notin 0 .. Len(a.lines) \/ ~h.ok THEN [a EXCEPT !.ok = FALSE]
          ELSE [ok |-> TRUE, offset |-> Shift(a.offset, h),
                lines |-> SubSeq(a.lines, 1, idx) \o h.new
                              \o SubSeq(a.lines, h.cursor + 1, Len(a.lines))]
  <2>1. [oldStart |-> start, lines |-> body].oldStart = start /\ [oldStart |-> start, lines |-> body].lines = body
    OBVIOUS
  <2> DEFINE hunk == [oldStart |-> start, lines |-> body]
  <2>2. g = ApplyHunk(a, hunk) /\ idx = hunk.oldStart - 1 + a.offset
        /\ h = Matching(a.lines, hunk.oldStart - 1 + a.offset, hunk.lines)[Len(hunk.lines)]
    BY <1>1, <2>1
  <2> HIDE DEF hunk, g, h, idx
  <2> QED
    BY <2>2, Zenon DEF ApplyHunk
<1> HIDE DEF g, h, idx
<1>3. HunkEnds(g, a, idx, h)
  BY <1>2 DEF Shift, HunkEnds
<1> QED
  BY <1>3 DEF g, h, idx

\* A hunk that starts where the lines shown do takes the file to their end:
\* it is refused exactly when one of them is not there.
LEMMA HunkApplied ==
    ASSUME NEW s, IsScript(s), NEW shown, ShowsChanges(s, shown), NEW lo, NEW hi, lo \in 0 .. Len(s), hi \in lo .. Len(s),
           \A i \in lo + 1 .. hi : i \in shown, \E i \in lo + 1 .. hi : s[i].prefix # "+",
           NEW before, IsFile(before), NEW a, Arrives(a, s, shown, before, lo)
    PROVE  Arrives(ApplyHunk(a, [oldStart |-> OldTo(s, lo) + 1, lines |-> SubSeq(s, lo + 1, hi)]),
                   s, shown, before, hi)
<1> DEFINE n == Len(s)  O(i) == OldTo(s, i)  W(i) == NewTo(s, i)
           b == Len(before)  m == Len(a.lines)
           body == SubSeq(s, lo + 1, hi)
           hunk == [oldStart |-> O(lo) + 1, lines |-> body]
           g == ApplyHunk(a, hunk)
           idx == (O(lo) + 1) - 1 + a.offset
           h == Matched(a.lines, idx, body)
           u == Len(h.new)
<1>n. n \in Nat /\ lo \in 0 .. n /\ hi \in lo .. n /\ b \in Nat
  BY DEF IsScript, IsFile
<1>t. /\ \A i \in 0 .. n : O(i) \in Nat /\ W(i) \in Nat
      /\ \A i \in 1 .. n :
            /\ s[i].prefix \in {" ", "+", "-"} /\ s[i].text \in Texts
            /\ O(i) = O(i - 1) + (IF s[i].prefix = "+" THEN 0 ELSE 1)
            /\ W(i) = W(i - 1) + (IF s[i].prefix = "-" THEN 0 ELSE 1)
      /\ \A i \in 0 .. n : \A j \in i .. n : O(i) <= O(j) /\ W(i) <= W(j)
  <2>1. Tallies(s)
    BY Tallied
  <2> QED
    BY <2>1 DEF Tallies
<1>a. /\ a \in FileRecord
      /\ a.ok <=> FitsTo(s, shown, before, 0, lo)
      /\ a.ok => a.offset = W(lo) - O(lo) /\ IsPatched(s, shown, before, a.lines, lo)
  BY DEF Arrives
<1>r. a.ok \in BOOLEAN /\ a.lines \in Seq(Texts) /\ a.offset \in Int /\ m \in Nat
  BY <1>a DEF FileRecord
<1>m. a.offset \in Int /\ m \in Nat
  BY <1>r
<1>q. a = [ok |-> a.ok, lines |-> a.lines, offset |-> a.offset]
  BY <1>a DEF FileRecord
<1>f. FitsTo(s, shown, before, 0, hi) <=>
         FitsTo(s, shown, before, 0, lo) /\ FitsTo(s, shown, before, lo, hi)
  <2>1. 0 + 1 .. hi = (0 + 1 .. lo) \cup (lo + 1 .. hi)
    BY ONLY <1>n
  <2> QED
    BY ONLY <2>1 DEF FitsTo
<1> HIDE DEF n, O, W, b, m
<1>z. lo \in Nat /\ hi \in Nat /\ O(lo) \in Nat /\ W(lo) \in Nat /\ O(hi) \in Nat /\ W(hi) \in Nat
      /\ O(lo) <= O(hi) /\ W(lo) <= W(hi)
  <2>1. lo \in 0 .. n /\ hi \in 0 .. n /\ hi \in lo .. n /\ lo \in Nat /\ hi \in Nat
    BY ONLY <1>n
  <2> QED
    BY ONLY <1>t, <2>1
<1>g. /\ (~a.ok \/ idx \notin 0 .. m \/ ~h.ok) => g = [a EXCEPT !.ok = FALSE]
      /\ ~(~a.ok \/ idx \notin 0 .. m \/ ~h.ok) =>
            g = [ok |-> TRUE, offset |-> a.offset + h.added - h.removed,
                 lines |-> SubSeq(a.lines, 1, idx) \o h.new \o SubSeq(a.lines, h.cursor + 1, m)]
  <2> DEFINE start == O(lo) + 1
  <2> HIDE DEF start, body
  <2>1. HunkEnds(ApplyHunk(a, [oldStart |-> start, lines |-> body]), a, start - 1 + a.offset,
                 Matched(a.lines, start - 1 + a.offset, body))
    BY ONLY HunkDone
  <2>3. start - 1 + a.offset = idx
    BY ONLY DEF start
  <2>4. ApplyHunk(a, [oldStart |-> start, lines |-> body]) = g
    BY ONLY DEF start
  <2>5. Matched(a.lines, idx, body) = h
    OBVIOUS
  <2> HIDE DEF idx, h, g
  <2>2. HunkEnds(g, a, idx, h)
    BY ONLY <2>1, <2>3, <2>4, <2>5
  <2> QED
    BY ONLY <2>2 DEF m, HunkEnds
<1>1. ASSUME ~FitsTo(s, shown, before, 0, hi), g = [a EXCEPT !.ok = FALSE]
      PROVE  Arrives(g, s, shown, before, hi)
  <2>1. g = [ok |-> FALSE, lines |-> a.lines, offset |-> a.offset]
    BY <1>1, <1>q, Zenon
  <2> HIDE DEF g
  <2>2. g \in FileRecord /\ ~g.ok
    BY <2>1, <1>r DEF FileRecord
  <2> QED
    BY <2>2, <1>1 DEF Arrives
<1> SUFFICES Arrives(g, s, shown, before, hi)
  BY DEF O
<1> HIDE DEF g, hunk
<1>2. CASE ~a.ok
  BY <1>1, <1>2, <1>a, <1>f, <1>g
<1>3. CASE a.ok
  <2>i. idx = W(lo) /\ idx \in Nat
    BY ONLY <1>3, <1>a, <1>z, <1>m
  <2>p. /\ m = b + W(lo) - O(lo)
        /\ \A i \in 1 .. lo : i \in shown /\ s[i].prefix # "-" => W(i) <= m /\ a.lines[W(i)] = s[i].text
        /\ \A i \in 1 .. lo : i \notin shown =>
              /\ W(i) <= m <=> O(i) <= b
              /\ W(i) <= m => a.lines[W(i)] = before[O(i)]
        /\ \A j \in 1 .. m : j > W(lo) => a.lines[j] = before[j - W(lo) + O(lo)]
    BY <1>3, <1>a DEF IsPatched, b, m, O, W
  <2>1. CASE ~(W(lo) <= m)
    <3>1. PICK i \in lo + 1 .. hi : s[i].prefix # "+"
      OBVIOUS
    <3>2. i \in 1 .. n /\ i - 1 \in 0 .. n /\ i - 1 \in lo .. n /\ i \in shown
      BY <1>n
    <3>3. O(i) = O(i - 1) + 1 /\ O(lo) <= O(i - 1) /\ O(i - 1) \in Nat
      BY <1>t, <1>n, <3>1, <3>2
    <3>4. ~(O(i) <= b)
      BY ONLY <3>3, <2>1, <2>p, <1>z, <1>n, <1>m
    <3>5. ~FitsTo(s, shown, before, lo, hi)
      BY <3>1, <3>2, <3>4 DEF FitsTo, O, b
    <3> QED
      BY <3>5, <2>i, <2>1, <1>1, <1>f, <1>g
  <2>2. CASE W(lo) <= m
    <3>1. Reaches(h, s, shown, before, a.lines, lo, hi)
      <4>1. IsFile(a.lines) /\ IsPatched(s, shown, before, a.lines, lo)
        BY <1>r, <1>a, <1>3 DEF IsFile
      <4>2. NewTo(s, lo) <= Len(a.lines) /\ idx = NewTo(s, lo)
        BY <2>2, <2>i DEF W, m
      <4> HIDE DEF idx
      <4> QED
        BY <4>1, <4>2, HunkMatched DEF n, body
    <3>2. /\ h \in HunkRecord /\ h.lines = a.lines
          /\ h.ok <=> FitsTo(s, shown, before, lo, hi)
          /\ h.ok => /\ h.cursor <= m /\ h.cursor = W(lo) + O(hi) - O(lo)
                     /\ u = W(hi) - W(lo)
                     /\ h.added - h.removed = u - (O(hi) - O(lo))
                     /\ \A i \in lo + 1 .. hi : s[i].prefix # "-" => h.new[W(i) - W(lo)] = s[i].text
      BY <3>1 DEF Reaches, W, O, m
    <3>r. h.cursor \in Nat /\ h.new \in Seq(Texts) /\ h.removed \in Nat /\ h.added \in Nat /\ u \in Nat
      BY <3>2 DEF HunkRecord
    <3>m. h.cursor \in Nat /\ h.removed \in Nat /\ h.added \in Nat /\ u \in Nat
      BY <3>r
    <3> HIDE DEF h, u
    <3>3. CASE ~h.ok
      BY <3>3, <3>2, <1>f, <1>1, <1>g
    <3>4. CASE h.ok
      <4>c. /\ h.cursor <= m /\ h.cursor = W(lo) + O(hi) - O(lo)
            /\ u = W(hi) - W(lo)
            /\ h.added - h.removed = u - (O(hi) - O(lo))
        BY <3>2, <3>4
      <4> DEFINE r == SubSeq(a.lines, 1, idx) \o h.new \o SubSeq(a.lines, h.cursor + 1, m)
                 w == Len(r)
      <4>1. g = [ok |-> TRUE, offset |-> a.offset + h.added - h.removed, lines |-> r]
        <5>1. idx \in 0 .. m
          BY ONLY <2>i, <2>2, <1>z, <1>m
        <5> QED
          BY <5>1, <1>g, <1>3, <3>4
      <4>2. /\ r \in Seq(Texts) /\ w = W(lo) + u + m - h.cursor
            /\ \A j \in 1 .. W(lo) : r[j] = a.lines[j]
            /\ \A j \in 1 .. u : r[W(lo) + j] = h.new[j]
            /\ \A j \in W(lo) + u + 1 .. w : r[j] = a.lines[j - W(lo) - u + h.cursor]
        <5> DEFINE L == a.lines  v == h.new  c == h.cursor
        <5>1. IsFile(L) /\ IsFile(v) /\ idx \in 0 .. Len(L) /\ c \in idx .. Len(L)
          <6>1. idx \in 0 .. m /\ c \in idx .. m
            BY ONLY <2>i, <2>2, <1>z, <1>m, <4>c, <3>m
          <6> QED
            BY <6>1, <1>r, <3>r DEF m, IsFile
        <5>2. r = SubSeq(L, 1, idx) \o v \o SubSeq(L, c + 1, Len(L))
          BY DEF m
        <5> HIDE DEF L, v, c, r
        <5>3. Splices(r, L, v, idx, c)
          BY <5>1, <5>2, Spliced
        <5> QED
          BY <5>3, <2>i DEF Splices, L, v, c, m, u
      <4>w. w = W(lo) + u + m - h.cursor
        BY <4>2
      <4> HIDE DEF r, w
      <4>3. g \in FileRecord /\ g.ok /\ g.lines = r
        <5>1. a.offset + h.added - h.removed \in Int
          BY ONLY <1>m, <3>m
        <5> QED
          BY <5>1, <4>1, <4>2 DEF FileRecord
      <4>4. g.offset = W(hi) - O(hi)
        <5>1. g.offset = a.offset + h.added - h.removed /\ a.offset = W(lo) - O(lo)
          BY <4>1, <1>a, <1>3
        <5> QED
          BY ONLY <5>1, <4>c, <1>z, <3>m
      <4>5. w = b + W(hi) - O(hi) /\ w \in Nat
        BY ONLY <4>w, <4>c, <2>p, <1>z, <1>n, <1>m, <3>m
      <4>6. ASSUME NEW i \in 1 .. lo PROVE W(i) \in Nat /\ W(i) <= W(lo) /\ O(i) \in Nat /\ O(i) <= O(lo)
        <5>1. i \in 0 .. n /\ lo \in i .. n
          BY ONLY <1>n, i \in 1 .. lo
        <5> QED
          BY <5>1, <1>t
      <4>7. ASSUME NEW i \in 1 .. lo, W(i) >= 1 PROVE W(i) <= w /\ W(i) <= m /\ r[W(i)] = a.lines[W(i)]
        <5>1. W(i) \in 1 .. W(lo) /\ W(i) <= m /\ W(i) <= w
          BY ONLY <4>6, <4>7, i \in 1 .. lo, <1>z, <2>2, <4>w, <4>c, <3>m, <1>m
        <5> QED
          BY <5>1, <4>2
      <4>8. ASSUME NEW i \in lo + 1 .. hi, s[i].prefix # "-" PROVE W(i) <= w /\ r[W(i)] = s[i].text
        <5>1. i \in 1 .. n /\ i - 1 \in 0 .. n /\ i - 1 \in lo .. n /\ i \in 0 .. n /\ hi \in i .. n
          BY ONLY <1>n, i \in lo + 1 .. hi
        <5>2. W(i) = W(i - 1) + 1 /\ W(lo) <= W(i - 1) /\ W(i) <= W(hi) /\ W(i - 1) \in Nat
          BY <1>t, <1>n, <5>1, <4>8
        <5> DEFINE j == W(i) - W(lo)
        <5>3. j \in 1 .. u /\ W(lo) + j = W(i) /\ W(i) <= w
          BY ONLY <5>2, <4>c, <4>w, <1>z, <1>m, <3>m
        <5>4. h.new[j] = s[i].text
          BY <3>2, <3>4, <4>8
        <5> HIDE DEF j
        <5>5. r[W(lo) + j] = h.new[j]
          BY <4>2, <5>3
        <5> QED
          BY <5>3, <5>4, <5>5
      <4>9. ASSUME NEW j \in 1 .. w, j > W(hi) PROVE r[j] = before[j - W(hi) + O(hi)]
        <5> DEFINE k == j - W(lo) - u + h.cursor
        <5>1. k \in 1 .. m /\ k > W(lo) /\ k - W(lo) + O(lo) = j - W(hi) + O(hi) /\ j \in W(lo) + u + 1 .. w
          BY ONLY <4>9, j \in 1 .. w, <4>c, <4>w, <4>5, <1>z, <1>m, <3>m, <2>p, <1>n
        <5>2. r[j] = a.lines[k]
          BY <5>1, <4>2
        <5> HIDE DEF k
        <5>3. a.lines[k] = before[k - W(lo) + O(lo)]
          BY <5>1, <2>p
        <5> QED
          BY <5>1, <5>2, <5>3
      <4>10. ASSUME NEW i \in 1 .. hi, i \in shown, s[i].prefix # "-"
             PROVE  W(i) <= w /\ r[W(i)] = s[i].text
        <5>1. CASE i \in lo + 1 .. hi
          BY <5>1, <4>8, <4>10
        <5>2. CASE i \in 1 .. lo
          <6>1. W(i) >= 1
            <7>1. i \in 1 .. n /\ i - 1 \in 0 .. n
              BY ONLY <1>n, <5>2
            <7>2. W(i) = W(i - 1) + 1 /\ W(i - 1) \in Nat
              BY <7>1, <1>t, <4>10
            <7> QED
              BY ONLY <7>2
          <6>2. a.lines[W(i)] = s[i].text
            BY <2>p, <4>10, <5>2
          <6> QED
            BY <6>1, <6>2, <4>7, <5>2
        <5>3. i \in lo + 1 .. hi \/ i \in 1 .. lo
          BY ONLY <1>n, i \in 1 .. hi
        <5> QED
          BY <5>1, <5>2, <5>3
      <4>11. ASSUME NEW i \in 1 .. hi, i \notin shown
             PROVE  /\ W(i) <= w <=> O(i) <= b
                    /\ W(i) <= w => r[W(i)] = before[O(i)]
        <5>1. i \in 1 .. lo
          <6>1. i \notin lo + 1 .. hi
            BY <4>11
          <6> QED
            BY ONLY <6>1, <1>n, i \in 1 .. hi
        <5>2. W(i) <= m /\ W(i) <= w
          BY ONLY <4>6, <5>1, <1>z, <2>2, <4>w, <4>c, <3>m, <1>m
        <5>3. O(i) <= b /\ a.lines[W(i)] = before[O(i)]
          BY <2>p, <4>11, <5>1, <5>2
        <5>4. W(i) >= 1
          <6>1. i \in 1 .. n /\ i - 1 \in 0 .. n
            BY ONLY <1>n, <5>1
          <6>2. s[i].prefix = " "
            BY <6>1, <4>11 DEF ShowsChanges, n
          <6>3. W(i) = W(i - 1) + 1 /\ W(i - 1) \in Nat
            BY <6>1, <6>2, <1>t
          <6> QED
            BY ONLY <6>3
        <5> QED
          BY <5>1, <5>2, <5>3, <5>4, <4>7
      <4>12. IsPatched(s, shown, before, r, hi)
        BY <4>5, <4>9, <4>10, <4>11 DEF IsPatched, W, O, w, b
      <4>13. FitsTo(s, shown, before, 0, hi)
        BY <1>f, <1>a, <1>3, <3>2, <3>4
      <4> QED
        BY <4>3, <4>4, <4>12, <4>13 DEF Arrives, W, O
    <3> QED
      BY <3>3, <3>4
  <2> QED
    BY <2>1, <2>2
<1>4. a.ok \/ ~a.ok
  OBVIOUS
<1> QED
  BY <1>2, <1>3, <1>4

\* A script is a finite sequence.
LEMMA ScriptLength == \A s : IsScript(s) => Len(s) \in Nat /\ DOMAIN s = 1 .. Len(s)
  BY DEF IsScript

(***************************************************************************)
(* What a diff shows.                                                      *)
(***************************************************************************)
ShowsAround(s, shown) ==
    /\ shown \subseteq 1 .. Len(s)
    /\ ShowsChanges(s, shown)
    /\ \A i \in 1 .. Len(s) - 1 : s[i].prefix # " " => i + 1 \in shown
    /\ \A i \in 1 .. Len(s) - 1 : s[i + 1].prefix # " " => i \in shown

\* With some lines shown around it, no change is at the edge of what is shown.
LEMMA ShownAround ==
    ASSUME NEW s, IsScript(s), NEW c \in Nat, c > 0 PROVE ShowsAround(s, Shown(s, c))
<1>1. DOMAIN s = 1 .. Len(s) /\ Len(s) \in Nat
  BY DEF IsScript
<1> DEFINE n == Len(s)  shown == Shown(s, c)
<1>2. \A i \in 1 .. n : i \in shown <=> \E j \in 1 .. n : s[j].prefix # " " /\ j \in (i - c) .. (i + c)
  BY <1>1 DEF Shown
<1>3. shown \subseteq 1 .. n
  BY <1>1 DEF Shown
<1>n. n \in Nat
  BY <1>1
<1> HIDE DEF n, shown
<1>4. ASSUME NEW i \in 1 .. n, i \notin shown PROVE s[i].prefix = " "
  <2>1. i \in (i - c) .. (i + c)
    OBVIOUS
  <2> QED
    BY <2>1, <1>2, <1>4
<1>5. ASSUME NEW i \in 1 .. n - 1, s[i].prefix # " " PROVE i + 1 \in shown
  <2>1. i + 1 \in 1 .. n /\ i \in 1 .. n /\ i \in (i + 1 - c) .. (i + 1 + c)
    BY <1>n
  <2> DEFINE k == i + 1
  <2>2. k \in 1 .. n /\ i \in (k - c) .. (k + c)
    BY <2>1
  <2> HIDE DEF k
  <2>3. k \in shown
    BY <2>1, <2>2, <1>2, <1>5
  <2> QED
    BY <2>3 DEF k
<1>6. ASSUME NEW i \in 1 .. n - 1, s[i + 1].prefix # " " PROVE i \in shown
  <2>1. i + 1 \in 1 .. n /\ i \in 1 .. n /\ i + 1 \in (i - c) .. (i + c)
    BY <1>n
  <2> QED
    BY <2>1, <1>2, <1>6
<1> QED
  BY <1>3, <1>4, <1>5, <1>6 DEF ShowsAround, ShowsChanges, n, shown

\* A side is empty when no line is on it.
LEMMA NoSide ==
    ASSUME NEW s, IsScript(s), NEW P, \A i \in 1 .. Len(s) : s[i].prefix \notin P
    PROVE  Side(s, P) = <<>>
<1>1. Counting(s, P) /\ s \in Seq(Ops)
  BY Counts DEF IsScript
<1>2. Len(s) \in 0 .. Len(s) /\ Count(s, P, Len(s)) = Len(Side(s, P)) /\ Side(s, P) \in Seq(Texts)
  BY <1>1 DEF Counting
<1>3. ASSUME NEW j \in 1 .. Count(s, P, Len(s)) PROVE FALSE
  <2>1. \E i \in 1 .. Len(s) : s[i].prefix \in P /\ Count(s, P, i) = j
    BY <1>1, <1>2, SideOnto
  <2> QED
    BY <2>1
<1> QED
  BY <1>2, <1>3

\* What holds of a line and passes to the next, and what passes to both neighbours.
LEMMA Onward ==
    ASSUME NEW n \in Nat, NEW j \in 1 .. n, NEW S, j \in S,
           \A i \in j .. n - 1 : i \in S => i + 1 \in S
    PROVE  \A i \in j .. n : i \in S
<1> DEFINE U == {d \in 0 .. n - j : j + d \in S}
<1>1. 0 \in U /\ n - j \in Nat
  <2>1. j + 0 = j
    OBVIOUS
  <2> QED
    BY <2>1
<1>2. ASSUME NEW d \in 0 .. n - j - 1, d \in U PROVE d + 1 \in U
  <2> DEFINE i == j + d
  <2>1. i \in j .. n - 1 /\ j + (d + 1) = i + 1 /\ d + 1 \in 0 .. n - j
    OBVIOUS
  <2>2. i \in S
    BY <1>2
  <2> HIDE DEF i
  <2>3. i + 1 \in S
    BY <2>1, <2>2
  <2> QED
    BY <2>1, <2>3
<1>3. \A d \in 0 .. n - j : d \in U
  <2> HIDE DEF U
  <2> QED
    BY ONLY <1>1, <1>2, Induction
<1>4. ASSUME NEW i \in j .. n PROVE i \in S
  <2> DEFINE d == i - j
  <2>1. d \in 0 .. n - j /\ j + d = i
    OBVIOUS
  <2> HIDE DEF d
  <2> QED
    BY <2>1, <1>3
<1> QED
  BY <1>4

\* What is shown, and hidden, somewhere is so next to each other.
LEMMA BothWays ==
    ASSUME NEW n \in Nat, NEW j \in 1 .. n, NEW S, j \in S,
           \A i \in 1 .. n - 1 : i \in S <=> i + 1 \in S
    PROVE  \A i \in 1 .. n : i \in S
<1> DEFINE D == {d \in 0 .. j - 1 : j - d \in S}
<1>1. 0 \in D /\ j - 1 \in Nat
  <2>1. j - 0 = j
    OBVIOUS
  <2> QED
    BY <2>1
<1>2. ASSUME NEW d \in 0 .. j - 1 - 1, d \in D PROVE d + 1 \in D
  <2> DEFINE i == j - (d + 1)
  <2>1. i \in 1 .. n - 1 /\ j - d = i + 1 /\ d + 1 \in 0 .. j - 1
    OBVIOUS
  <2>2. j - d \in S
    BY <1>2
  <2>4. i = j - (d + 1)
    OBVIOUS
  <2> HIDE DEF i
  <2>3. i \in S
    BY <2>1, <2>2
  <2> QED
    BY <2>1, <2>3, <2>4
<1>3. \A d \in 0 .. j - 1 : d \in D
  <2> HIDE DEF D
  <2> QED
    BY ONLY <1>1, <1>2, Induction
<1>4. \A i \in j .. n : i \in S
  <2>1. \A i \in j .. n - 1 : i \in S => i + 1 \in S
    OBVIOUS
  <2> QED
    BY <2>1, Onward
<1>5. ASSUME NEW i \in 1 .. j PROVE i \in S
  <2> DEFINE d == j - i
  <2>1. d \in 0 .. j - 1 /\ j - d = i
    OBVIOUS
  <2> HIDE DEF d
  <2> QED
    BY <2>1, <1>3
<1> QED
  BY <1>4, <1>5

\* When all the lines that are shown are added, or all are deleted, there are no others.
LEMMA Spreads ==
    ASSUME NEW s, IsScript(s), NEW shown, ShowsAround(s, shown), NEW x, x # " ",
           \A i \in shown : s[i].prefix = x, NEW j, j \in shown
    PROVE  \A i \in 1 .. Len(s) : s[i].prefix = x
<1> DEFINE n == Len(s)
           S == {i \in 1 .. n : s[i].prefix = x}
<1>n. n \in Nat /\ shown \subseteq 1 .. n
  BY ScriptLength DEF ShowsAround
<1>s. /\ \A i \in 1 .. n - 1 : s[i].prefix # " " => i + 1 \in shown
      /\ \A i \in 1 .. n - 1 : s[i + 1].prefix # " " => i \in shown
  BY DEF ShowsAround
<1> HIDE DEF n
<1>1. j \in 1 .. n /\ j \in S
  BY <1>n
<1>2. ASSUME NEW i \in 1 .. n - 1 PROVE i \in S <=> i + 1 \in S
  <2>1. i \in 1 .. n /\ i + 1 \in 1 .. n
    BY ONLY <1>n, i \in 1 .. n - 1
  <2> DEFINE k == i + 1
  <2>2. s[i].prefix = x => k \in shown
    BY <1>s
  <2>3. s[k].prefix = x => i \in shown
    BY <1>s
  <2>4. k \in 1 .. n
    BY <2>1
  <2> HIDE DEF k
  <2>5. i \in S <=> k \in S
    BY <2>1, <2>2, <2>3, <2>4
  <2> QED
    BY <2>5 DEF k
<1>3. \A i \in 1 .. n : i \in S
  <2> HIDE DEF S
  <2> QED
    BY ONLY <1>n, <1>1, <1>2, BothWays
<1> QED
  BY <1>3 DEF n

\* Every hunk has a line that the file has before, unless the file is empty.
LEMMA EveryHunkHasOld ==
    ASSUME NEW s, IsScript(s), NEW shown, ShowsAround(s, shown), Old(s) # <<>>,
           NEW i, i \in shown, i - 1 \notin shown
    PROVE  HasOld(s, shown, i)
<1> SUFFICES ASSUME ~HasOld(s, shown, i) PROVE FALSE
  OBVIOUS
<1> DEFINE n == Len(s)
           S == {j \in i .. n : i .. j \subseteq shown /\ s[j].prefix = "+"}
<1>n. n \in Nat /\ shown \subseteq 1 .. n
  BY ScriptLength DEF ShowsAround
<1>s. /\ \A k \in 1 .. n - 1 : s[k].prefix # " " => k + 1 \in shown
      /\ \A k \in 1 .. n - 1 : s[k + 1].prefix # " " => k \in shown
  BY DEF ShowsAround
<1>h. \A j \in i .. n : i .. j \subseteq shown => s[j].prefix = "+"
  BY DEF HasOld
<1>p. \A P : (\A k \in 1 .. n : s[k].prefix \notin P) => Side(s, P) = <<>>
  BY NoSide
<1> HIDE DEF n
<1>i. i \in 1 .. n
  BY <1>n
<1>1. i \in S
  <2>1. i .. i = {i} /\ i \in i .. n
    BY ONLY <1>i, <1>n
  <2> QED
    BY <2>1, <1>h
<1>2. ASSUME NEW j \in i .. n - 1, j \in S PROVE j + 1 \in S
  <2>1. j \in 1 .. n - 1 /\ j + 1 \in i .. n /\ i .. j + 1 = i .. j \cup {j + 1}
    BY ONLY <1>n, <1>i, j \in i .. n - 1
  <2>2. i .. j \subseteq shown /\ s[j].prefix = "+"
    BY <1>2
  <2>3. j + 1 \in shown
    BY <2>1, <2>2, <1>s
  <2> DEFINE k == j + 1
  <2>4. i .. k \subseteq shown /\ k \in i .. n
    BY <2>1, <2>2, <2>3
  <2> HIDE DEF k
  <2>5. s[k].prefix = "+"
    BY <2>4, <1>h
  <2>6. k \in S
    BY <2>4, <2>5
  <2> QED
    BY <2>6 DEF k
<1>3. \A j \in i .. n : j \in S
  <2> HIDE DEF S
  <2> QED
    BY ONLY <1>n, <1>i, <1>1, <1>2, Onward
<1>4. i = 1
  <2> SUFFICES ASSUME i # 1 PROVE FALSE
    OBVIOUS
  <2> DEFINE k == i - 1
  <2>1. k \in 1 .. n - 1 /\ k + 1 = i
    BY ONLY <1>n, <1>i, i # 1
  <2>2. s[i].prefix = "+"
    BY <1>1
  <2>3. k \notin shown
    OBVIOUS
  <2> HIDE DEF k
  <2>4. s[k + 1].prefix # " "
    BY <2>1, <2>2
  <2> QED
    BY <2>1, <2>3, <2>4, <1>s
<1>5. ASSUME NEW k \in 1 .. n PROVE s[k].prefix \notin {" ", "-"}
  <2>1. k \in i .. n
    BY <1>4
  <2> QED
    BY <2>1, <1>3
<1> QED
  BY <1>5, <1>p DEF Old

(***************************************************************************)
(* What is parsed of the diff of one file.                                 *)
(***************************************************************************)
DiffLines == [prefix : {" ", "+", "-", "@@", "+++ b/", "diff --git", ""},
              text : Texts \cup Paths \cup {NoPath} \cup Nat]

\* A hunk as it is parsed.
HunkDesc == [oldStart : Nat, lines : Seq(DiffLines)]

\* The parser after the header of the file f: its hunks are G.
AtFile(f, within, G) ==
    [ok |-> TRUE, file |-> f, files |-> <<f>>, inHunk |-> within,
     hunks |-> [g \in Paths |-> IF g = f THEN G ELSE <<>>]]

\* What the parser has of the hunks of the one file.
LEMMA HunksOf == \A f \in Paths : \A b, G : AtFile(f, b, G).hunks[f] = G
  BY DEF AtFile

\* Setting the hunks of f, and whether the lines that follow are a hunk's.
Begins(f, b, c, G, H) == [AtFile(f, b, G) EXCEPT !.inHunk = c, !.hunks[f] = H] = AtFile(f, c, H)

\* The parser's record, with the hunks of the one file and the flag set.
LEMMA HunksReplaced == \A f \in Paths : \A b, c, G, H : Begins(f, b, c, G, H)
<1> SUFFICES ASSUME NEW f \in Paths, NEW b, NEW c, NEW G, NEW H PROVE Begins(f, b, c, G, H)
  OBVIOUS
<1> DEFINE k == [g \in Paths |-> IF g = f THEN G ELSE <<>>]
           l == [g \in Paths |-> IF g = f THEN H ELSE <<>>]
           p == AtFile(f, b, G)  q == [p EXCEPT !.inHunk = c]  r == AtFile(f, c, H)
           fs == <<f>>  yes == TRUE
<1>1. [k EXCEPT ![f] = H] = l /\ k[f] = G
  OBVIOUS
<1>2. /\ p = [ok |-> yes, file |-> f, files |-> fs, inHunk |-> b, hunks |-> k]
      /\ r = [ok |-> yes, file |-> f, files |-> fs, inHunk |-> c, hunks |-> l]
  BY DEF AtFile
<1> HIDE DEF k, l, p, r, fs, yes
<1>3. q = [ok |-> yes, file |-> f, files |-> fs, inHunk |-> c, hunks |-> k]
  BY ONLY <1>2
<1>4. [p EXCEPT !.inHunk = c, !.hunks[f] = H] = [q EXCEPT !.hunks[f] = H]
  BY ONLY <1>2
<1> HIDE DEF q
<1>5. [q EXCEPT !.hunks[f] = H] = r
  BY ONLY <1>1, <1>2, <1>3
<1> QED
  BY <1>4, <1>5 DEF p, r, Begins

\* The parser's record, with the hunks of the one file set.
LEMMA HunksKept ==
    ASSUME NEW f, f \in Paths, NEW b, NEW G, NEW H
    PROVE  [AtFile(f, b, G) EXCEPT !.hunks[f] = H] = AtFile(f, b, H)
<1> DEFINE k == [g \in Paths |-> IF g = f THEN G ELSE <<>>]
           l == [g \in Paths |-> IF g = f THEN H ELSE <<>>]
           p == AtFile(f, b, G)  r == AtFile(f, b, H)
           fs == <<f>>  yes == TRUE
<1>1. [k EXCEPT ![f] = H] = l /\ k[f] = G
  OBVIOUS
<1>2. /\ p = [ok |-> yes, file |-> f, files |-> fs, inHunk |-> b, hunks |-> k]
      /\ r = [ok |-> yes, file |-> f, files |-> fs, inHunk |-> b, hunks |-> l]
  BY DEF AtFile
<1> HIDE DEF k, l, p, r, fs, yes
<1>5. [p EXCEPT !.hunks[f] = H] = r
  BY ONLY <1>1, <1>2
<1> QED
  BY <1>5 DEF p, r

\* A header of a hunk opens one.
BeginsHunk(f, x, b, G) ==
    ParseLine(AtFile(f, b, G), x) = AtFile(f, TRUE, Append(G, [oldStart |-> x.text, lines |-> <<>>]))

\* What the parser makes of each kind of line outside a hunk.
LEMMA LinesRead ==
    ASSUME NEW f \in Paths, NEW x, x \in DiffLines
    PROVE  /\ x.prefix \in {"diff --git", "-"} => ParseLine(NothingParsed, x) = NothingParsed
           /\ x = ToFile(f) => ParseLine(NothingParsed, x) = AtFile(f, FALSE, <<>>)
           /\ \A G, b : x.prefix = "@@" => BeginsHunk(f, x, b, G)
           /\ \A G : x.prefix \notin {"+++ b/", "@@"} => ParseLine(AtFile(f, FALSE, G), x) = AtFile(f, FALSE, G)
<1>f. f # NoPath
  BY FilesAssumption
<1>1. ASSUME x.prefix \in {"diff --git", "-"} PROVE ParseLine(NothingParsed, x) = NothingParsed
  BY <1>1 DEF ParseLine, NothingParsed
<1>2. ASSUME x = ToFile(f) PROVE ParseLine(NothingParsed, x) = AtFile(f, FALSE, <<>>)
  <2>1. x.prefix = "+++ b/" /\ x.text = f
    BY <1>2 DEF ToFile, Line
  <2>2. ParseLine(NothingParsed, x) = [NothingParsed EXCEPT !.file = f, !.files = Append(@, f), !.inHunk = FALSE]
    BY <2>1 DEF ParseLine
  <2>3. Append(<<>>, f) = <<f>>
    OBVIOUS
  <2>4. [g \in Paths |-> <<>>] = [g \in Paths |-> IF g = f THEN <<>> ELSE <<>>]
    OBVIOUS
  <2> QED
    BY <2>2, <2>3, <2>4 DEF NothingParsed, AtFile
<1>3. ASSUME NEW G, NEW b, x.prefix = "@@"
      PROVE  ParseLine(AtFile(f, b, G), x) = AtFile(f, TRUE, Append(G, [oldStart |-> x.text, lines |-> <<>>]))
  <2> DEFINE p == AtFile(f, b, G)  h == [oldStart |-> x.text, lines |-> <<>>]
  <2>1. p.file = f
    BY DEF AtFile
  <2>2. ParseLine(p, x) = [p EXCEPT !.inHunk = TRUE, !.hunks[p.file] = Append(@, h)]
    BY <1>3, <1>f, <2>1 DEF ParseLine
  <2> HIDE DEF h
  <2>3. [p EXCEPT !.inHunk = TRUE, !.hunks[f] = Append(@, h)] = AtFile(f, TRUE, Append(G, h))
    <3> DEFINE H == Append(G, h)
    <3>1. p.hunks[f] = G
      BY HunksOf
    <3>2. [p EXCEPT !.inHunk = TRUE, !.hunks[f] = Append(@, h)] = [p EXCEPT !.inHunk = TRUE, !.hunks[f] = H]
      <4> HIDE DEF p
      <4> QED
        BY <3>1
    <3> DEFINE yes == TRUE
    <3> HIDE DEF H, yes
    <3>4. Begins(f, b, yes, G, H)
      BY HunksReplaced
    <3>3. [p EXCEPT !.inHunk = TRUE, !.hunks[f] = H] = AtFile(f, TRUE, H)
      BY <3>4 DEF yes, Begins
    <3> QED
      BY <3>2, <3>3 DEF H
  <2> QED
    BY <2>1, <2>2, <2>3 DEF h
<1>4. ASSUME NEW G, x.prefix \notin {"+++ b/", "@@"}
      PROVE  ParseLine(AtFile(f, FALSE, G), x) = AtFile(f, FALSE, G)
  BY <1>4 DEF ParseLine, AtFile
<1> QED
  BY <1>1, <1>2, <1>3, <1>4 DEF BeginsHunk

\* The last element of Append(s, x) set to y.
LastSet(s, x, y) ==
    /\ Len(Append(s, x)) = Len(s) + 1 /\ Append(s, x)[Len(s) + 1] = x
    /\ [Append(s, x) EXCEPT ![Len(s) + 1] = y] = Append(s, y)

\* Setting the last element.
LEMMA LastReplaced == \A T : \A s \in Seq(T) : \A x, y \in T : LastSet(s, x, y)
<1> SUFFICES ASSUME NEW T, NEW s \in Seq(T), NEW x \in T, NEW y \in T PROVE LastSet(s, x, y)
  OBVIOUS
<1> DEFINE t == Append(s, x)  q == [t EXCEPT ![Len(s) + 1] = y]  m == Len(s) + 1
<1>1. DOMAIN t = 1 .. m /\ (\A i \in 1 .. m : i # m => t[i] = s[i]) /\ Len(t) = m /\ t[m] = x
  OBVIOUS
<1> HIDE DEF t
<1>2. q = [i \in 1 .. Len(s) + 1 |-> IF i = Len(s) + 1 THEN y ELSE s[i]]
  BY <1>1
<1> HIDE DEF q
<1>3. q = Append(s, y)
  BY <1>2, Appended
<1> QED
  BY <1>1, <1>3 DEF q, t, LastSet

\* The line x is read into the last hunk.
ReadsOn(f, x, G, o, L) ==
    ParseLine(AtFile(f, TRUE, Append(G, [oldStart |-> o, lines |-> L])), x)
       = AtFile(f, TRUE, Append(G, [oldStart |-> o, lines |-> Append(L, x)]))

\* A line that is no header goes to the last hunk.
LEMMA LineOfHunkRead ==
    \A f \in Paths, x \in DiffLines, G \in Seq(HunkDesc), o \in Nat, L \in Seq(DiffLines) :
        x.prefix \notin {"+++ b/", "@@"} => ReadsOn(f, x, G, o, L)
<1> SUFFICES ASSUME NEW f \in Paths, NEW x, x \in DiffLines, x.prefix \notin {"+++ b/", "@@"},
                    NEW G, G \in Seq(HunkDesc), NEW o, o \in Nat, NEW L, L \in Seq(DiffLines)
             PROVE  ReadsOn(f, x, G, o, L)
  OBVIOUS
<1> DEFINE M == Append(L, x)
           h == [oldStart |-> o, lines |-> L]  g == [oldStart |-> o, lines |-> M]
           H == Append(G, h)  K == Append(G, g)  m == Len(H)
           p == AtFile(f, TRUE, H)  y == [h EXCEPT !.lines = M]
<1>0. h \in HunkDesc /\ g \in HunkDesc /\ h.lines = L
  <2>1. M \in Seq(DiffLines)
    BY ONLY L \in Seq(DiffLines), x \in DiffLines
  <2> HIDE DEF M
  <2> QED
    BY <2>1 DEF HunkDesc
<1>y. y = g
  <2> HIDE DEF M
  <2> QED
    BY ONLY DEF g
<1> HIDE DEF h, g, M, y
<1>3. m = Len(G) + 1 /\ H[m] = h /\ [H EXCEPT ![m] = g] = K
  <2>1. Len(H) = Len(G) + 1 /\ H[Len(G) + 1] = h /\ [H EXCEPT ![Len(G) + 1] = g] = K
    <3>1. LastSet(G, h, g)
      BY <1>0, LastReplaced
    <3> QED
      BY <3>1 DEF LastSet
  <2> HIDE DEF H, K
  <2> QED
    BY <2>1
<1> HIDE DEF H, K, m
<1>1. p.hunks[f] = H /\ p.inHunk /\ p.file = f /\ m = Len(H)
  BY HunksOf DEF AtFile, m
<1>5. [p EXCEPT !.hunks[f] = K] = AtFile(f, TRUE, K)
  BY HunksKept
<1>l. p.hunks[f][m].lines = L
  BY <1>0, <1>1, <1>3
<1> HIDE DEF p
<1>2. ParseLine(p, x) = [p EXCEPT !.hunks[p.file][Len(p.hunks[p.file])].lines = Append(@, x)]
  BY <1>1 DEF ParseLine
<1>4. ParseLine(p, x) = [p EXCEPT !.hunks[f] = [H EXCEPT ![m] = y]]
  <2>1. ParseLine(p, x) = [p EXCEPT !.hunks[f][m].lines = Append(@, x)]
    BY <1>1, <1>2
  <2>3. ParseLine(p, x) = [p EXCEPT !.hunks[f][m].lines = M]
    BY <2>1, <1>l DEF M
  <2> QED
    BY <2>3, <1>1, <1>3 DEF y
<1>6. ParseLine(p, x) = AtFile(f, TRUE, K)
  BY <1>3, <1>4, <1>5, <1>y
<1> QED
  BY <1>6 DEF p, H, K, h, g, M, ReadsOn

\* The empty text after the last line changes nothing.
LEMMA EndOfTextIgnored ==
    ASSUME NEW a, NEW o, NEW L \in Seq(DiffLines)
    PROVE  ApplyHunk(a, [oldStart |-> o, lines |-> Append(L, EndOfText)])
              = ApplyHunk(a, [oldStart |-> o, lines |-> L])
<1> DEFINE idx == o - 1 + a.offset
           h == Matched(a.lines, idx, L)
           k == Matched(a.lines, idx, Append(L, EndOfText))
           g1 == ApplyHunk(a, [oldStart |-> o, lines |-> Append(L, EndOfText)])
           g2 == ApplyHunk(a, [oldStart |-> o, lines |-> L])
<1>1. EndOfText \in DiffLines
  BY DEF EndOfText, Line, DiffLines
<1>2. k = h
  <2>1. k = ApplyLine(h, EndOfText)
    BY <1>1, MatchedTurn
  <2> HIDE DEF h, k
  <2> QED
    BY <2>1 DEF ApplyLine, EndOfText, Line
<1>3. HunkEnds(g1, a, idx, k)
  BY HunkDone
<1>4. HunkEnds(g2, a, idx, h)
  BY HunkDone
<1> HIDE DEF g1, g2, idx, h, k
<1>5. g1 = g2
  BY <1>2, <1>3, <1>4, Zenon DEF HunkEnds
<1> QED
  BY <1>5 DEF g1, g2

-----------------------------------------------------------------------------
\* The hunks of the first lines of a script.
HunkPart(s, shown, i) ==
    IF i \notin shown THEN <<>>
    ELSE IF i - 1 \in shown THEN <<s[i]>>
    ELSE <<HunkHeader(s, shown, i), s[i]>>

\* The lines of the diff that come of the first k lines of the script.
HunksTo(s, shown, k) == FlattenSeq([i \in 1 .. k |-> HunkPart(s, shown, i)])

\* The lines of a script are lines of a diff, and no headers.
LEMMA OpsAreLines == \A x \in Ops : x \in DiffLines /\ x.prefix \notin {"+++ b/", "@@"}
<1> SUFFICES ASSUME NEW x \in Ops PROVE x \in DiffLines /\ x.prefix \notin {"+++ b/", "@@"}
  OBVIOUS
<1>1. x.text \in Texts /\ x.prefix \in {" ", "+", "-"} /\ x = Line(x.prefix, x.text)
  BY OfOps
<1> QED
  BY <1>1 DEF DiffLines, Line

\* What a line of the script adds to the diff; a hunk with a line of the file
\* starts at the line that follows those above it.
LEMMA HunkPartType ==
    ASSUME NEW s, IsScript(s), NEW shown, NEW i, i \in 1 .. Len(s)
    PROVE  /\ HunkPart(s, shown, i) \in Seq(DiffLines)
           /\ s[i] \in DiffLines /\ s[i].prefix \notin {"+++ b/", "@@"}
           /\ HunkHeader(s, shown, i) \in DiffLines /\ HunkHeader(s, shown, i).prefix = "@@"
           /\ HunkHeader(s, shown, i).text \in Nat
           /\ HasOld(s, shown, i) => HunkHeader(s, shown, i).text = OldTo(s, i - 1) + 1
<1>1. s[i] \in Ops
  BY DEF IsScript
<1>2. Len(Old(SubSeq(s, 1, i - 1))) = OldTo(s, i - 1)
  BY DEF OldTo, Count, Old
<1>3. OldTo(s, i - 1) \in Nat
  <2>1. Tallies(s)
    BY Tallied
  <2>2. Len(s) \in Nat
    BY ScriptLength
  <2>3. i - 1 \in 0 .. Len(s)
    BY ONLY <2>2, i \in 1 .. Len(s)
  <2> QED
    BY <2>1, <2>3 DEF Tallies
<1> DEFINE o == OldTo(s, i - 1)  b == HasOld(s, shown, i)  x == HunkHeader(s, shown, i)  y == s[i]
<1>4. x = At(IF b THEN o + 1 ELSE o)
  BY <1>2 DEF HunkHeader
<1>5. o \in Nat /\ y \in DiffLines /\ y.prefix \notin {"+++ b/", "@@"}
  BY <1>1, <1>3, OpsAreLines
<1>6. HunkPart(s, shown, i) \in {<<>>, <<y>>, <<x, y>>}
  BY DEF HunkPart
<1>9. o \in Nat
  BY <1>5
<1> HIDE DEF o, b, x, y
<1>7. x \in DiffLines /\ x.prefix = "@@" /\ x.text \in Nat /\ (b => x.text = o + 1)
  <2> DEFINE m == IF b THEN o + 1 ELSE o
  <2>1. m \in Nat /\ (b => m = o + 1)
    BY ONLY <1>9
  <2> HIDE DEF m
  <2>2. x = [prefix |-> "@@", text |-> m]
    BY <1>4 DEF At, Line, m
  <2> QED
    BY <2>1, <2>2 DEF DiffLines
<1>8. <<>> \in Seq(DiffLines) /\ <<y>> \in Seq(DiffLines) /\ <<x, y>> \in Seq(DiffLines)
  <2> DEFINE Q == DiffLines
  <2>1. x \in Q /\ y \in Q
    BY <1>5, <1>7
  <2> HIDE DEF Q
  <2>2. <<>> \in Seq(Q) /\ <<y>> \in Seq(Q) /\ <<x, y>> \in Seq(Q)
    BY ONLY <2>1
  <2> QED
    BY <2>2 DEF Q
<1> QED
  BY <1>5, <1>6, <1>7, <1>8 DEF o, b, x, y

\* The hunks of a script, one line after the other.
LEMMA HunksTurn ==
    ASSUME NEW s, IsScript(s), NEW shown
    PROVE  /\ HunksTo(s, shown, 0) = <<>>
           /\ HunksTo(s, shown, Len(s)) = Hunks(s, shown)
           /\ \A k \in 0 .. Len(s) : HunksTo(s, shown, k) \in Seq(DiffLines)
           /\ \A k \in 0 .. Len(s) - 1 :
                 HunksTo(s, shown, k + 1) = HunksTo(s, shown, k) \o HunkPart(s, shown, k + 1)
<1> DEFINE n == Len(s)
           E(k) == [i \in 1 .. k |-> HunkPart(s, shown, i)]
           S == {k \in 0 .. n : HunksTo(s, shown, k) \in Seq(DiffLines)}
<1>n. n \in Nat /\ DOMAIN s = 1 .. n
  BY ScriptLength
<1>p. \A i \in 1 .. n : HunkPart(s, shown, i) \in Seq(DiffLines)
  BY HunkPartType
<1>1. HunksTo(s, shown, 0) = <<>>
  <2>1. E(0) = <<>>
    OBVIOUS
  <2> QED
    BY <2>1, FlattenNothing DEF HunksTo
<1>2. HunksTo(s, shown, n) = Hunks(s, shown)
  BY <1>n DEF HunksTo, Hunks, HunkPart
<1> HIDE DEF n
<1>3. ASSUME NEW k, k \in 0 .. n - 1
      PROVE  HunksTo(s, shown, k + 1) = HunksTo(s, shown, k) \o HunkPart(s, shown, k + 1)
  <2> DEFINE P(i) == HunkPart(s, shown, i)
             e == [i \in 1 .. k |-> P(i)]  d == [i \in 1 .. k + 1 |-> P(i)]  x == P(k + 1)
             Q == Seq(DiffLines)
  <2>n. k \in Nat /\ k + 1 \in 1 .. n /\ (\A i \in 1 .. k : i \in 1 .. n)
    BY ONLY <1>n, <1>3
  <2>p. (\A i \in 1 .. k : P(i) \in Q) /\ x \in Q
    BY <2>n, <1>p
  <2> HIDE DEF P, Q
  <2>1. e \in Seq(Q) /\ Len(e) = k
    BY ONLY <2>n, <2>p
  <2>2. d = [i \in 1 .. Len(e) + 1 |-> IF i = Len(e) + 1 THEN x ELSE e[i]]
    <3> HIDE DEF e
    <3>1. \A i \in 1 .. k : e[i] = P(i)
      BY DEF e
    <3> QED
      BY ONLY <2>1, <2>n, <3>1
  <2> HIDE DEF d, e, x
  <2>3. d = Append(e, x)
    BY <2>1, <2>2, <2>p, Appended
  <2>4. FlattenSeq(d) = FlattenSeq(e) \o x
    BY <2>1, <2>3, <2>p, FlattenTurn DEF Q
  <2> QED
    BY <2>4 DEF HunksTo, d, e, x, P
<1>4. 0 \in S
  <2>1. <<>> \in Seq(DiffLines) /\ 0 \in 0 .. n
    BY <1>n
  <2> QED
    BY <2>1, <1>1
<1>5. ASSUME NEW k \in 0 .. n - 1, k \in S PROVE k + 1 \in S
  <2> DEFINE u == HunksTo(s, shown, k)  v == HunkPart(s, shown, k + 1)
  <2>0. k + 1 \in 1 .. n /\ k + 1 \in 0 .. n
    BY <1>n
  <2>1. u \in Seq(DiffLines) /\ v \in Seq(DiffLines) /\ HunksTo(s, shown, k + 1) = u \o v
    BY <1>5, <2>0, <1>p, <1>3
  <2> HIDE DEF u, v
  <2>2. u \o v \in Seq(DiffLines)
    BY <2>1
  <2> QED
    BY <2>0, <2>1, <2>2
<1>6. \A k \in 0 .. n : k \in S
  <2> HIDE DEF S
  <2> QED
    BY ONLY <1>n, <1>4, <1>5, Induction
<1> QED
  BY <1>1, <1>2, <1>3, <1>6 DEF n

\* The typing of what is appended to p.
Glues(T, p, x, y) ==
    /\ p \o <<x>> = Append(p, x) /\ p \o <<>> = p /\ <<>> \o p = p
    /\ p \o <<x, y>> = Append(Append(p, x), y)
    /\ Append(p, x) \in Seq(T) /\ <<x>> \in Seq(T)

\* Appending one element, and two.
LEMMA Glued == \A T : \A p \in Seq(T) : \A x, y \in T : Glues(T, p, x, y)
<1> SUFFICES ASSUME NEW T, NEW p \in Seq(T), NEW x \in T, NEW y \in T PROVE Glues(T, p, x, y)
  OBVIOUS
<1>1. Append(p, x) \in Seq(T) /\ p \o <<x>> = Append(p, x) /\ p \o <<>> = p /\ <<>> \o p = p /\ <<x>> \in Seq(T)
  OBVIOUS
<1>2. p \o <<x, y>> = Append(Append(p, x), y)
  <2> DEFINE q == p \o <<x, y>>  r == Append(Append(p, x), y)
  <2>1. q \in Seq(T) /\ r \in Seq(T) /\ Len(q) = Len(p) + 2 /\ Len(r) = Len(p) + 2
    OBVIOUS
  <2>2. \A i \in 1 .. Len(p) + 2 : q[i] = r[i]
    OBVIOUS
  <2> HIDE DEF q, r
  <2>3. q = r
    BY <2>1, <2>2, SeqEqual
  <2> QED
    BY <2>3 DEF q, r
<1> QED
  BY <1>1, <1>2 DEF Glues

\* The header of the diff of one file.
Headed(f, git) == (IF git THEN <<GitHeader(f)>> ELSE <<>>) \o <<FromFile(f), ToFile(f)>>

\* The header of the one file.
LEMMA HeadRead ==
    ASSUME NEW f \in Paths, NEW git \in BOOLEAN
    PROVE  Headed(f, git) \in Seq(DiffLines) /\ Parsed(Headed(f, git)) = AtFile(f, FALSE, <<>>)
<1> DEFINE x == GitHeader(f)  y == FromFile(f)  z == ToFile(f)  p == IF git THEN <<x>> ELSE <<>>
           T == DiffLines
<1>1. /\ x \in T /\ y \in T /\ z \in T
      /\ x.prefix = "diff --git" /\ y.prefix = "-"
  BY DEF GitHeader, FromFile, ToFile, Line, DiffLines
<1>2. /\ ParseLine(NothingParsed, x) = NothingParsed /\ ParseLine(NothingParsed, y) = NothingParsed
      /\ ParseLine(NothingParsed, z) = AtFile(f, FALSE, <<>>)
  BY <1>1, LinesRead
<1> HIDE DEF x, y, z, T
<1>e. <<>> \in Seq(T)
  OBVIOUS
<1>3. p \in Seq(T) /\ Parsed(p) = NothingParsed
  <2>1. CASE git
    <3>1. <<>> \o <<x>> = Append(<<>>, x) /\ <<>> \o <<x>> = <<x>> /\ <<x>> \in Seq(T)
      <4> DEFINE q == <<x>>
      <4>1. Glues(T, <<>>, x, y)
        BY <1>1, <1>e, Glued
      <4>2. q \in Seq(T) /\ <<>> \o q = Append(<<>>, x)
        BY <4>1 DEF Glues
      <4> HIDE DEF q
      <4>3. Glues(T, q, y, y)
        BY <1>1, <4>2, Glued
      <4>4. <<>> \o q = q
        BY <4>3 DEF Glues
      <4> QED
        BY <4>2, <4>4 DEF q
    <3>2. Parsed(Append(<<>>, x)) = ParseLine(Parsed(<<>>), x)
      BY <1>1, <1>e, ParsedTurn
    <3> QED
      BY <3>1, <3>2, <1>2, <2>1, ParsedNothing
  <2>2. CASE ~git
    BY <2>2, <1>e, ParsedNothing
  <2> QED
    BY <2>1, <2>2
<1> HIDE DEF p
<1>4. p \o <<y, z>> = Append(Append(p, y), z) /\ Append(p, y) \in Seq(T)
  <2>1. Glues(T, p, y, z)
    BY <1>1, <1>3, Glued
  <2> QED
    BY <2>1 DEF Glues
<1> DEFINE q == Append(p, y)
<1>5. Parsed(q) = NothingParsed
  <2>1. Parsed(q) = ParseLine(Parsed(p), y)
    BY <1>1, <1>3, ParsedTurn
  <2> QED
    BY <2>1, <1>2, <1>3
<1>6. q \in Seq(T)
  BY <1>4
<1>8. p \o <<y, z>> = Append(q, z)
  BY <1>4
<1> HIDE DEF q
<1>7. Parsed(Append(q, z)) = AtFile(f, FALSE, <<>>) /\ Append(q, z) \in Seq(T)
  <2>1. Parsed(Append(q, z)) = ParseLine(Parsed(q), z)
    BY <1>1, <1>6, ParsedTurn
  <2> QED
    <3>1. Glues(T, q, z, z)
      BY <1>1, <1>6, Glued
    <3> QED
      BY <2>1, <3>1, <1>2, <1>5 DEF Glues
<1> QED
  BY <1>7, <1>8 DEF Headed, p, x, y, z, T

-----------------------------------------------------------------------------
\* The hunks read up to the line k of a script: the last of them is open
\* while the lines are shown.
Read(p, f, G) == IF G = <<>> THEN p = AtFile(f, FALSE, <<>>) ELSE p = AtFile(f, TRUE, G)

\* The last hunk of G has the lines shown up to the line k.
OpenHunk(G, s, shown, before, k) ==
    \E H, lo :
       /\ H \in Seq(HunkDesc) /\ lo \in 0 .. k - 1 /\ lo \notin shown
       /\ \A i \in lo + 1 .. k : i \in shown
       /\ Arrives(Patched(before, H), s, shown, before, lo)
       /\ G = Append(H, [oldStart |-> OldTo(s, lo) + 1, lines |-> SubSeq(s, lo + 1, k)])

\* What is parsed of the diff up to the line k of the script.
ParsedTo(p, f, s, shown, before, k) ==
    \E G : /\ G \in Seq(HunkDesc) /\ Read(p, f, G)
           /\ k \notin shown => Arrives(Patched(before, G), s, shown, before, k)
           /\ k \in shown => OpenHunk(G, s, shown, before, k)

\* The lines that are shown in a row make a hunk.
LEMMA RunType ==
    ASSUME NEW s, IsScript(s), NEW lo, NEW k, lo \in 0 .. Len(s), k \in lo .. Len(s)
    PROVE  /\ SubSeq(s, lo + 1, k) \in Seq(DiffLines)
           /\ OldTo(s, lo) \in Nat
           /\ [oldStart |-> OldTo(s, lo) + 1, lines |-> SubSeq(s, lo + 1, k)] \in HunkDesc
<1> DEFINE L == SubSeq(s, lo + 1, k)  o == OldTo(s, lo)
<1>1. L \in Seq(Ops)
  <2>1. s \in Seq(Ops) /\ Len(s) \in Nat
    BY ScriptLength DEF IsScript
  <2>2. \A i \in lo + 1 .. k : i \in 1 .. Len(s)
    BY ONLY <2>1, lo \in 0 .. Len(s), k \in lo .. Len(s)
  <2>3. lo + 1 \in Int /\ k \in Int
    BY ONLY <2>1, lo \in 0 .. Len(s), k \in lo .. Len(s)
  <2>4. \A i \in lo + 1 .. k : s[i] \in Ops
    BY <2>1, <2>2
  <2> QED
    BY <2>1, <2>3, <2>4, SubSeqProperties
<1>2. L \in Seq(DiffLines)
  <2> DEFINE T == Ops  U == DiffLines
  <2>1. T \subseteq U /\ L \in Seq(T)
    BY <1>1, OpsAreLines
  <2> HIDE DEF L, T, U
  <2>2. L \in Seq(U)
    BY <2>1
  <2> QED
    BY <2>2 DEF U
<1>3. o \in Nat
  <2>1. Tallies(s)
    BY Tallied
  <2> QED
    BY <2>1 DEF Tallies
<1> HIDE DEF L, o
<1>4. [oldStart |-> o + 1, lines |-> L] \in HunkDesc
  <2>1. o + 1 \in Nat
    BY ONLY <1>3
  <2> QED
    BY <2>1, <1>2 DEF HunkDesc
<1> QED
  BY <1>2, <1>3, <1>4 DEF L, o

\* A line that is not shown takes the file one line further as it is.
LEMMA HiddenArrives ==
    ASSUME NEW s, IsScript(s), NEW shown, ShowsChanges(s, shown), NEW k, k \in 0 .. Len(s) - 1,
           k + 1 \notin shown, NEW before, IsFile(before), NEW a, Arrives(a, s, shown, before, k)
    PROVE  Arrives(a, s, shown, before, k + 1)
<1>1. IsFile(a.lines)
  BY DEF Arrives, FileRecord, IsFile
<1>2. /\ FitsTo(s, shown, before, 0, k + 1) <=> FitsTo(s, shown, before, 0, k)
      /\ NewTo(s, k + 1) - OldTo(s, k + 1) = NewTo(s, k) - OldTo(s, k)
      /\ IsPatched(s, shown, before, a.lines, k) => IsPatched(s, shown, before, a.lines, k + 1)
  BY <1>1, HiddenLine
<1> QED
  BY <1>2, Zenon DEF Arrives

\* A hunk that is closed takes the file to its last line.
LEMMA HunkCloses ==
    ASSUME NEW s, IsScript(s), NEW shown, ShowsAround(s, shown), Old(s) # <<>>, NEW before, IsFile(before),
           NEW k, k \in 0 .. Len(s), k + 1 \notin shown, NEW G, OpenHunk(G, s, shown, before, k)
    PROVE  Arrives(Patched(before, G), s, shown, before, k)
<1> DEFINE n == Len(s)
<1>n. n \in Nat
  BY ScriptLength
<1>1. PICK H, lo :
         /\ H \in Seq(HunkDesc) /\ lo \in 0 .. k - 1 /\ lo \notin shown
         /\ \A i \in lo + 1 .. k : i \in shown
         /\ Arrives(Patched(before, H), s, shown, before, lo)
         /\ G = Append(H, [oldStart |-> OldTo(s, lo) + 1, lines |-> SubSeq(s, lo + 1, k)])
  BY DEF OpenHunk
<1>2. lo \in 0 .. n /\ k \in lo .. n /\ lo + 1 \in lo + 1 .. k /\ lo + 1 - 1 = lo
  BY ONLY <1>n, <1>1, k \in 0 .. n
<1> DEFINE h == [oldStart |-> OldTo(s, lo) + 1, lines |-> SubSeq(s, lo + 1, k)]
<1>3. h \in HunkDesc
  BY <1>2, RunType
<1>4. Patched(before, G) = ApplyHunk(Patched(before, H), h)
  <2> HIDE DEF h
  <2>1. Patched(before, Append(H, h)) = ApplyHunk(Patched(before, H), h)
    BY <1>1, <1>3, PatchedTurn
  <2> QED
    BY <2>1, <1>1 DEF h
<1>5. \E i \in lo + 1 .. k : s[i].prefix # "+"
  <2> DEFINE i == lo + 1
  <2>1. i \in shown /\ i - 1 \notin shown
    BY <1>1, <1>2
  <2> HIDE DEF i
  <2>2. HasOld(s, shown, i)
    BY <2>1, EveryHunkHasOld
  <2>3. PICK j \in i .. n : i .. j \subseteq shown /\ s[j].prefix # "+"
    BY <2>2 DEF HasOld
  <2>4. i \in Nat /\ i <= k + 1 /\ k \in Nat
    BY ONLY <1>2, <1>n DEF i
  <2>5. j <= k
    <3>1. j > k => k + 1 \in i .. j
      BY ONLY <2>4, j \in i .. n, <1>n
    <3>2. ~(j > k)
      BY <2>3, <3>1
    <3> QED
      BY ONLY <3>2, j \in i .. n, <2>4, <1>n
  <2>6. j \in lo + 1 .. k
    BY ONLY <2>4, <2>5, <1>n, j \in i .. n DEF i
  <2> QED
    BY <2>3, <2>6
<1> DEFINE a == Patched(before, H)
<1>6. Arrives(a, s, shown, before, lo) /\ ShowsChanges(s, shown) /\ (\A i \in lo + 1 .. k : i \in shown)
  BY <1>1 DEF ShowsAround
<1> HIDE DEF a
<1>7. Arrives(ApplyHunk(a, [oldStart |-> OldTo(s, lo) + 1, lines |-> SubSeq(s, lo + 1, k)]), s, shown, before, k)
  BY <1>2, <1>5, <1>6, HunkApplied
<1> QED
  BY <1>4, <1>7 DEF a

\* One line more of a script: hidden, continuing a hunk or opening one.
LEMMA LineParsed ==
    ASSUME NEW f \in Paths, NEW s, IsScript(s), NEW shown, ShowsAround(s, shown), Old(s) # <<>>,
           NEW before, IsFile(before), NEW k, k \in 0 .. Len(s) - 1,
           NEW D, D \in Seq(DiffLines), ParsedTo(Parsed(D), f, s, shown, before, k)
    PROVE  ParsedTo(Parsed(D \o HunkPart(s, shown, k + 1)), f, s, shown, before, k + 1)
<1> DEFINE n == Len(s)  m == k + 1  x == s[m]  y == HunkHeader(s, shown, m)  p == Parsed(D)
<1>n. n \in Nat /\ k \in 0 .. n /\ m \in 1 .. n /\ m - 1 = k /\ k \in Nat
  <2>1. n \in Nat
    BY ScriptLength
  <2> QED
    BY ONLY <2>1, k \in 0 .. n - 1
<1>1. PICK G : /\ G \in Seq(HunkDesc) /\ Read(p, f, G)
               /\ k \notin shown => Arrives(Patched(before, G), s, shown, before, k)
               /\ k \in shown => OpenHunk(G, s, shown, before, k)
  BY DEF ParsedTo
<1>2. /\ x \in DiffLines /\ x.prefix \notin {"+++ b/", "@@"}
      /\ y \in DiffLines /\ y.prefix = "@@" /\ y.text \in Nat
      /\ HasOld(s, shown, m) => y.text = OldTo(s, k) + 1
  <2>1. m \in 1 .. Len(s)
    BY <1>n
  <2> HIDE DEF m
  <2> QED
    BY <2>1, <1>n, HunkPartType
<1>s. ShowsChanges(s, shown)
  BY DEF ShowsAround
<1> HIDE DEF n
<1>3. CASE m \notin shown
  <2>1. Arrives(Patched(before, G), s, shown, before, k)
    BY <1>1, <1>3, <1>n, HunkCloses DEF n
  <2>2. Arrives(Patched(before, G), s, shown, before, m)
    BY <1>3, <1>s, <2>1, HiddenArrives
  <2>3. D \o HunkPart(s, shown, m) = D
    <3>1. HunkPart(s, shown, m) = <<>>
      BY <1>3 DEF HunkPart
    <3>2. Glues(DiffLines, D, x, x)
      BY <1>2, Glued
    <3> QED
      BY <3>1, <3>2 DEF Glues
  <2> HIDE DEF m, p
  <2>4. ParsedTo(p, f, s, shown, before, m)
    BY <1>1, <1>3, <2>2 DEF ParsedTo
  <2> QED
    BY <2>3, <2>4 DEF m, p
<1>4. CASE m \in shown /\ k \in shown
  <2>1. PICK H, lo :
           /\ H \in Seq(HunkDesc) /\ lo \in 0 .. k - 1 /\ lo \notin shown
           /\ \A i \in lo + 1 .. k : i \in shown
           /\ Arrives(Patched(before, H), s, shown, before, lo)
           /\ G = Append(H, [oldStart |-> OldTo(s, lo) + 1, lines |-> SubSeq(s, lo + 1, k)])
    BY <1>1, <1>4 DEF OpenHunk
  <2>2. lo \in 0 .. n /\ k \in lo .. n /\ m \in lo .. n /\ lo \in 0 .. m - 1 /\ lo + 1 \in 1 .. n
        /\ k \in lo + 1 - 1 .. n - 1 /\ lo + 1 .. m = lo + 1 .. k \cup {m}
    BY ONLY <1>n, <2>1
  <2> DEFINE L == SubSeq(s, lo + 1, k)  M == SubSeq(s, lo + 1, m)  o == OldTo(s, lo) + 1
             h == [oldStart |-> o, lines |-> L]  g == [oldStart |-> o, lines |-> M]
             K == Append(H, g)
  <2>3. M = Append(L, x)
    BY <2>2, RunTurn DEF IsScript, n
  <2>4. L \in Seq(DiffLines) /\ OldTo(s, lo) \in Nat /\ h \in HunkDesc /\ g \in HunkDesc
    BY <2>2, RunType DEF n
  <2>o. o \in Nat
    <3>1. OldTo(s, lo) \in Nat
      BY <2>4
    <3> QED
      BY ONLY <3>1
  <2>5. D \o HunkPart(s, shown, m) = Append(D, x)
    <3>1. HunkPart(s, shown, m) = <<x>>
      BY <1>4, <1>n DEF HunkPart
    <3>2. Glues(DiffLines, D, x, x)
      BY <1>2, Glued
    <3> QED
      BY <3>1, <3>2 DEF Glues
  <2>6. Parsed(Append(D, x)) = ParseLine(p, x)
    BY <1>2, ParsedTurn
  <2>7. OpenHunk(K, s, shown, before, m)
    <3>1. \A i \in lo + 1 .. m : i \in shown
      BY <2>1, <2>2, <1>4
    <3> HIDE DEF m
    <3> QED
      BY <2>1, <2>2, <3>1 DEF OpenHunk
  <2> HIDE DEF L, M, o, h, g, m, x
  <2>8. LastSet(H, h, h) /\ LastSet(H, g, g) /\ K \in Seq(HunkDesc)
    <3>1. Glues(HunkDesc, H, g, g)
      BY <2>1, <2>4, Glued
    <3> QED
      BY <2>1, <2>4, <3>1, LastReplaced DEF Glues
  <2>9. G = Append(H, h) /\ G # <<>> /\ K # <<>>
    <3>1. G = Append(H, h)
      BY <2>1 DEF h, L, o
    <3>2. Len(H) \in Nat /\ Len(<<>>) = 0
      BY <2>1
    <3>3. Len(G) = Len(H) + 1 /\ Len(K) = Len(H) + 1
      BY <2>8, <3>1 DEF LastSet
    <3>4. Len(G) # Len(<<>>) /\ Len(K) # Len(<<>>)
      BY ONLY <3>2, <3>3
    <3> QED
      BY <3>1, <3>4
  <2> HIDE DEF p
  <2>10. p = AtFile(f, TRUE, G)
    BY <1>1, <2>9 DEF Read
  <2>11. ParseLine(AtFile(f, TRUE, Append(H, h)), x) = AtFile(f, TRUE, K)
    <3>1. ReadsOn(f, x, H, o, L)
      BY <1>2, <2>1, <2>4, <2>o, LineOfHunkRead
    <3> QED
      BY <3>1, <2>3 DEF h, g, ReadsOn
  <2>12. Read(Parsed(Append(D, x)), f, K)
    BY <2>6, <2>9, <2>10, <2>11 DEF Read
  <2> HIDE DEF K
  <2>13. ParsedTo(Parsed(Append(D, x)), f, s, shown, before, m)
    BY <1>4, <2>7, <2>8, <2>12 DEF ParsedTo
  <2> QED
    BY <2>5, <2>13 DEF m, x
<1>5. CASE m \in shown /\ k \notin shown
  <2> DEFINE o == OldTo(s, k) + 1  L == SubSeq(s, k + 1, m)
             h == [oldStart |-> o, lines |-> <<>>]  g == [oldStart |-> o, lines |-> L]
             K == Append(G, g)  q == Append(D, y)
  <2>1. y.text = o
    <3>1. HasOld(s, shown, m)
      BY <1>5, <1>n, EveryHunkHasOld
    <3> QED
      BY <3>1, <1>2
  <2>2. D \o HunkPart(s, shown, m) = Append(q, x) /\ q \in Seq(DiffLines)
    <3>1. HunkPart(s, shown, m) = <<y, x>>
      BY <1>5, <1>n DEF HunkPart
    <3>2. Glues(DiffLines, D, y, x)
      BY <1>2, Glued
    <3> QED
      BY <3>1, <3>2 DEF Glues
  <2>3. Parsed(q) = ParseLine(p, y)
    BY <1>2, ParsedTurn
  <2>4. Parsed(Append(q, x)) = ParseLine(Parsed(q), x)
    <3> HIDE DEF q
    <3> QED
      BY <1>2, <2>2, ParsedTurn
  <2>5. OldTo(s, k) \in Nat /\ g \in HunkDesc
    <3>1. k \in 0 .. n /\ m \in k .. n
      BY ONLY <1>n
    <3> HIDE DEF m
    <3> QED
      BY <3>1, RunType DEF n
  <2>o. o \in Nat
    <3>1. OldTo(s, k) \in Nat
      BY <2>5
    <3> QED
      BY ONLY <3>1
  <2>6. L = Append(<<>>, x)
    <3>1. k + 1 \in 1 .. n /\ k \in k + 1 - 1 .. n - 1
      BY ONLY <1>n
    <3>2. SubSeq(s, k + 1, k + 1) = Append(SubSeq(s, k + 1, k), s[k + 1])
      BY <3>1, RunTurn DEF IsScript, n
    <3>3. SubSeq(s, k + 1, k) = <<>>
      BY <3>1 DEF IsScript
    <3> QED
      BY <3>2, <3>3
  <2>7. OpenHunk(K, s, shown, before, m)
    <3>1. \A i \in k + 1 .. m : i \in shown
      BY <1>5, <1>n
    <3>2. k \in 0 .. m - 1
      BY ONLY <1>n
    <3>3. Arrives(Patched(before, G), s, shown, before, k)
      BY <1>1, <1>5
    <3> HIDE DEF m
    <3> QED
      BY <3>1, <3>2, <3>3, <1>1, <1>5 DEF OpenHunk
  <2> HIDE DEF o, L, m, x, y, q, p
  <2>8. \E b \in BOOLEAN : p = AtFile(f, b, G)
    BY <1>1 DEF Read
  <2>9. Parsed(q) = AtFile(f, TRUE, Append(G, h))
    <3>1. PICK b \in BOOLEAN : p = AtFile(f, b, G)
      BY <2>8
    <3>2. BeginsHunk(f, y, b, G)
      BY <1>2, LinesRead
    <3> QED
      BY <3>1, <3>2, <2>1, <2>3 DEF BeginsHunk
  <2>e. <<>> \in Seq(DiffLines)
    OBVIOUS
  <2>10. ParseLine(AtFile(f, TRUE, Append(G, h)), x) = AtFile(f, TRUE, K)
    <3>1. ReadsOn(f, x, G, o, <<>>)
      BY <1>1, <1>2, <2>o, <2>e, LineOfHunkRead
    <3> QED
      BY <3>1, <2>6 DEF ReadsOn
  <2> HIDE DEF h, g
  <2>11. K \in Seq(HunkDesc) /\ K # <<>>
    <3>1. Glues(HunkDesc, G, g, g) /\ LastSet(G, g, g)
      BY <1>1, <2>5, Glued, LastReplaced
    <3>2. K \in Seq(HunkDesc) /\ Len(K) = Len(G) + 1
      BY <3>1 DEF Glues, LastSet
    <3>3. Len(G) \in Nat /\ Len(<<>>) = 0
      BY <1>1
    <3>4. Len(K) # Len(<<>>)
      BY ONLY <3>2, <3>3
    <3> QED
      BY <3>2, <3>4
  <2>12. Read(Parsed(Append(q, x)), f, K)
    BY <2>4, <2>9, <2>10, <2>11 DEF Read
  <2> HIDE DEF K
  <2>13. ParsedTo(Parsed(Append(q, x)), f, s, shown, before, m)
    BY <1>5, <2>7, <2>11, <2>12 DEF ParsedTo
  <2> QED
    BY <2>2, <2>13 DEF m, q, x, y
<1> QED
  BY <1>3, <1>4, <1>5

\* What is parsed of the diff of one file, and what comes of its hunks.
LEMMA FileParsed ==
    ASSUME NEW f \in Paths, NEW git \in BOOLEAN, NEW s, IsScript(s), NEW shown, ShowsAround(s, shown),
           Old(s) # <<>>, NEW before, IsFile(before)
    PROVE  \E G, b :
              /\ Parsed(Append(Headed(f, git) \o Hunks(s, shown), EndOfText)) = AtFile(f, b, G)
              /\ Arrives(Patched(before, G), s, shown, before, Len(s))
<1> DEFINE n == Len(s)  pre == Headed(f, git)  H(k) == HunksTo(s, shown, k)
           S == {k \in 0 .. n : ParsedTo(Parsed(pre \o H(k)), f, s, shown, before, k)}
<1>n. n \in Nat
  BY ScriptLength
<1>h. /\ H(0) = <<>> /\ H(n) = Hunks(s, shown)
      /\ \A k \in 0 .. n : H(k) \in Seq(DiffLines)
      /\ \A k \in 0 .. n - 1 : H(k + 1) = H(k) \o HunkPart(s, shown, k + 1)
  BY HunksTurn
<1>p. pre \in Seq(DiffLines) /\ Parsed(pre) = AtFile(f, FALSE, <<>>)
  BY HeadRead
<1>s. shown \subseteq 1 .. n /\ ShowsChanges(s, shown)
  BY DEF ShowsAround
<1>c. \A k \in 1 .. n : HunkPart(s, shown, k) \in Seq(DiffLines)
  BY HunkPartType
<1> HIDE DEF n, pre, H
<1>1. 0 \in S
  <2>1. pre \o H(0) = pre
    BY <1>h, <1>p
  <2>2. Patched(before, <<>>) = Untouched(before)
    BY PatchedNothing
  <2>3. Arrives(Untouched(before), s, shown, before, 0)
    <3> DEFINE a == Untouched(before)
    <3>1. a \in FileRecord /\ a.ok /\ a.lines = before /\ a.offset = 0
      BY DEF Untouched, FileRecord, IsFile
    <3>2. OldTo(s, 0) = 0 /\ NewTo(s, 0) = 0
      BY Tallied DEF Tallies
    <3>3. \A i \in 0 + 1 .. 0 : FALSE
      OBVIOUS
    <3>6. \A i \in 1 .. 0 : FALSE
      OBVIOUS
    <3>4. FitsTo(s, shown, before, 0, 0)
      BY <3>3 DEF FitsTo
    <3>5. IsPatched(s, shown, before, before, 0)
      <4> DEFINE b == Len(before)
      <4>1. b \in Nat
        BY DEF IsFile
      <4> HIDE DEF b
      <4>2. b = b + 0 - 0 /\ \A j \in 1 .. b : j - 0 + 0 = j
        BY ONLY <4>1
      <4> QED
        BY <3>2, <3>6, <4>2 DEF IsPatched, b
    <3> HIDE DEF a
    <3> QED
      BY <3>1, <3>2, <3>4, <3>5 DEF Arrives, a
  <2>4. 0 \notin shown /\ 0 \in 0 .. n
    <3>1. 0 \notin 1 .. n /\ 0 \in 0 .. n
      BY ONLY <1>n
    <3> QED
      BY <1>s, <3>1
  <2>5. <<>> \in Seq(HunkDesc) /\ Read(AtFile(f, FALSE, <<>>), f, <<>>)
    BY DEF Read
  <2>6. ParsedTo(Parsed(pre), f, s, shown, before, 0)
    BY <1>p, <2>2, <2>3, <2>4, <2>5 DEF ParsedTo
  <2> QED
    BY <2>1, <2>4, <2>6
<1>2. ASSUME NEW k \in 0 .. n - 1, k \in S PROVE k + 1 \in S
  <2> DEFINE D == pre \o H(k)  c == HunkPart(s, shown, k + 1)  u == H(k)
  <2>1. k \in 0 .. n /\ k + 1 \in 0 .. n /\ k + 1 \in 1 .. n
    BY ONLY <1>n, k \in 0 .. n - 1
  <2>2. u \in Seq(DiffLines) /\ c \in Seq(DiffLines) /\ H(k + 1) = u \o c
    BY <1>h, <1>c, <2>1
  <2> HIDE DEF u, c
  <2>3. pre \o u \in Seq(DiffLines) /\ pre \o (u \o c) = (pre \o u) \o c
    BY ONLY <1>p, <2>2
  <2>4. D \in Seq(DiffLines) /\ pre \o H(k + 1) = D \o c
    BY <2>2, <2>3 DEF u
  <2> HIDE DEF D
  <2>5. ParsedTo(Parsed(D), f, s, shown, before, k)
    BY <1>2 DEF D
  <2>6. ParsedTo(Parsed(D \o c), f, s, shown, before, k + 1)
    BY <2>4, <2>5, LineParsed DEF n, c
  <2> QED
    BY <2>1, <2>4, <2>6
<1>3. n \in S
  <2>1. n \in 0 .. n
    BY <1>n
  <2> HIDE DEF S
  <2> QED
    BY ONLY <2>1, <1>n, <1>1, <1>2, Induction
<1> DEFINE D == pre \o H(n)  p == Parsed(D)
<1>4. PICK G : /\ G \in Seq(HunkDesc) /\ Read(p, f, G)
               /\ n \notin shown => Arrives(Patched(before, G), s, shown, before, n)
               /\ n \in shown => OpenHunk(G, s, shown, before, n)
  BY <1>3 DEF ParsedTo
<1>5. Arrives(Patched(before, G), s, shown, before, n)
  <2>1. n \in 0 .. n /\ n + 1 \notin shown
    <3>1. n \in 0 .. n /\ n + 1 \notin 1 .. n
      BY ONLY <1>n
    <3> QED
      BY <3>1, <1>s
  <2> QED
    BY <1>4, <2>1, HunkCloses DEF n
<1>6. D \in Seq(DiffLines) /\ EndOfText \in DiffLines
      /\ EndOfText.prefix \notin {"+++ b/", "@@"}
  <2> DEFINE u == H(n)
  <2>1. u \in Seq(DiffLines)
    <3>1. n \in 0 .. n
      BY <1>n
    <3> QED
      BY <1>h, <3>1
  <2> HIDE DEF u
  <2>2. pre \o u \in Seq(DiffLines)
    BY <2>1, <1>p
  <2> QED
    BY <2>2 DEF EndOfText, Line, DiffLines, u
<1>7. Parsed(Append(D, EndOfText)) = ParseLine(p, EndOfText)
  <2> HIDE DEF D
  <2> QED
    BY <1>6, ParsedTurn
<1> HIDE DEF p, D
<1>8. \E F, b : ParseLine(p, EndOfText) = AtFile(f, b, F)
                /\ Arrives(Patched(before, F), s, shown, before, n)
  <2>1. CASE G = <<>>
    <3>1. p = AtFile(f, FALSE, G)
      BY <1>4, <2>1 DEF Read
    <3>2. ParseLine(p, EndOfText) = AtFile(f, FALSE, G)
      BY <1>6, <3>1, LinesRead
    <3> QED
      BY <3>2, <1>5
  <2>2. CASE G # <<>>
    <3>1. p = AtFile(f, TRUE, G)
      BY <1>4, <2>2 DEF Read
    <3>2. PICK F \in Seq(HunkDesc), h \in HunkDesc : G = Append(F, h)
      <4> DEFINE m == Len(G)  F == SubSeq(G, 1, m - 1)  h == G[m]
      <4>1. m \in Nat /\ m # 0
        BY <1>4, <2>2, EmptySeq
      <4>2. F \in Seq(HunkDesc) /\ h \in HunkDesc /\ G = Append(F, h)
        <5>1. m \in 1 .. m /\ m - 1 \in 0 .. m - 1 /\ m - 1 \in 1 - 1 .. m - 1 /\ 1 \in 1 .. m /\ m - 1 + 1 = m
          BY ONLY <4>1
        <5>2. F \in Seq(HunkDesc) /\ G[m - 1 + 1] \in HunkDesc
              /\ SubSeq(G, 1, m - 1 + 1) = Append(F, G[m - 1 + 1])
          BY <1>4, <5>1, RunTurn
        <5>3. SubSeq(G, 1, m) = G
          BY <1>4, SubSeqFull
        <5> HIDE DEF F
        <5> QED
          BY <5>1, <5>2, <5>3
      <4> QED
        BY <4>2
    <3> DEFINE o == h.oldStart  L == h.lines  g == [oldStart |-> o, lines |-> Append(L, EndOfText)]
    <3>3. o \in Nat /\ L \in Seq(DiffLines) /\ h = [oldStart |-> o, lines |-> L]
      BY DEF HunkDesc
    <3> HIDE DEF o, L
    <3>4. ParseLine(p, EndOfText) = AtFile(f, TRUE, Append(F, g))
      <4>1. ReadsOn(f, EndOfText, F, o, L)
        BY <1>6, <3>3, LineOfHunkRead
      <4> QED
        BY <4>1, <3>1, <3>2, <3>3 DEF ReadsOn
    <3>5. Patched(before, Append(F, g)) = Patched(before, G)
      <4>1. g \in HunkDesc
        <5> DEFINE M == Append(L, EndOfText)
        <5>1. M \in Seq(DiffLines)
          <6>1. Glues(DiffLines, L, EndOfText, EndOfText)
            BY <1>6, <3>3, Glued
          <6> QED
            BY <6>1 DEF Glues
        <5> HIDE DEF M
        <5>2. [oldStart |-> o, lines |-> M] \in HunkDesc
          BY ONLY <5>1, <3>3 DEF HunkDesc
        <5> QED
          BY <5>2 DEF M
      <4>2. ApplyHunk(Patched(before, F), g) = ApplyHunk(Patched(before, F), h)
        <5> DEFINE a == Patched(before, F)
        <5> HIDE DEF a
        <5>1. ApplyHunk(a, [oldStart |-> o, lines |-> Append(L, EndOfText)])
                 = ApplyHunk(a, [oldStart |-> o, lines |-> L])
          BY <3>3, EndOfTextIgnored
        <5>2. ApplyHunk(a, g) = ApplyHunk(a, h)
          BY <5>1, <3>3
        <5> QED
          BY <5>2 DEF a
      <4> HIDE DEF g
      <4>3. Patched(before, Append(F, g)) = ApplyHunk(Patched(before, F), g)
        BY <4>1, PatchedTurn
      <4>4. Patched(before, Append(F, h)) = ApplyHunk(Patched(before, F), h)
        BY PatchedTurn
      <4> QED
        BY <3>2, <4>2, <4>3, <4>4
    <3> HIDE DEF g
    <3> QED
      BY <3>4, <3>5, <1>5
  <2> QED
    BY <2>1, <2>2
<1> QED
  BY <1>7, <1>8, <1>h DEF D, p, pre, n

\* One file has one order.
LEMMA OrderOfOne == \A f : SetToSeq({f}) = <<f>>
<1> SUFFICES ASSUME NEW f PROVE SetToSeq({f}) = <<f>>
  OBVIOUS
<1>1. Cardinality({f}) = 1
  BY FS_Singleton
<1>2. \A g \in [1 .. 1 -> {f}] : g = <<f>>
  OBVIOUS
<1>3. <<f>> \in [1 .. 1 -> {f}] /\ IsInjective(<<f>>)
  BY DEF IsInjective
<1> QED
  BY <1>1, <1>2, <1>3 DEF SetToSeq

\* The diff of one file is its header, its hunks and the empty text.
LEMMA DiffOfOne ==
    ASSUME NEW f \in Paths, NEW scripts, DOMAIN scripts = {f}, IsScript(scripts[f]), NEW c, NEW git \in BOOLEAN
    PROVE  Diff(scripts, c, git)
              = Append(Headed(f, git) \o Hunks(scripts[f], Shown(scripts[f], c)), EndOfText)
<1> DEFINE s == scripts[f]  shown == Shown(s, c)  pre == Headed(f, git)  H == Hunks(s, shown)
           D == pre \o H
<1>1. pre \in Seq(DiffLines) /\ H \in Seq(DiffLines)
  <2>1. Len(s) \in Nat
    BY ScriptLength
  <2>2. Len(s) \in 0 .. Len(s)
    BY ONLY <2>1
  <2> QED
    BY <2>2, HeadRead, HunksTurn
<1>2. D \in Seq(DiffLines) /\ EndOfText \in DiffLines
  <2>1. D \in Seq(DiffLines)
    <3> HIDE DEF pre, H
    <3> QED
      BY <1>1
  <2> QED
    BY <2>1 DEF EndOfText, Line, DiffLines
<1> DEFINE parts == [n \in DOMAIN SetToSeq(DOMAIN scripts) |->
                       (IF git THEN <<GitHeader(SetToSeq(DOMAIN scripts)[n])>> ELSE <<>>)
                          \o <<FromFile(SetToSeq(DOMAIN scripts)[n]), ToFile(SetToSeq(DOMAIN scripts)[n])>>
                          \o Hunks(scripts[SetToSeq(DOMAIN scripts)[n]],
                                   Shown(scripts[SetToSeq(DOMAIN scripts)[n]], c))]
<1>3. Diff(scripts, c, git) = FlattenSeq(parts) \o <<EndOfText>>
  BY DEF Diff
<1>4. parts = <<D>>
  <2> DEFINE order == SetToSeq(DOMAIN scripts)
  <2>1. order = <<f>>
    BY OrderOfOne
  <2> HIDE DEF order
  <2>2. DOMAIN order = {1} /\ order[1] = f
    BY <2>1
  <2>3. parts = [n \in {1} |-> D]
    BY <2>2 DEF Headed, order
  <2> HIDE DEF D, parts
  <2>4. [n \in {1} |-> D] = <<D>>
    OBVIOUS
  <2> QED
    BY <2>3, <2>4
<1> HIDE DEF parts, D
<1>5. FlattenSeq(<<D>>) = D
  <2> DEFINE Q == Seq(DiffLines)
  <2>1. D \in Q
    BY <1>2
  <2>2. <<>> \o D = D
    BY <1>2
  <2> HIDE DEF Q
  <2>e. <<>> \in Seq(Q)
    OBVIOUS
  <2>3. Append(<<>>, D) = <<D>>
    BY <2>1
  <2>4. FlattenSeq(Append(<<>>, D)) = FlattenSeq(<<>>) \o D
    BY <2>1, <2>e, FlattenTurn DEF Q
  <2> QED
    BY <2>2, <2>3, <2>4, FlattenNothing
<1>6. D \o <<EndOfText>> = Append(D, EndOfText)
  <2>1. Glues(DiffLines, D, EndOfText, EndOfText)
    BY <1>2, Glued
  <2> QED
    BY <2>1 DEF Glues
<1> QED
  BY <1>3, <1>4, <1>5, <1>6 DEF D

\* What Apply makes of the diff of one file.
Outcome(before, f, a) ==
    IF a.ok THEN [ok |-> TRUE, content |-> [g \in Paths |-> IF g = f THEN Joined(a.lines) ELSE before[g]]]
    ELSE [ok |-> FALSE, content |-> before]

\* A diff that names a file parses.
LEMMA ParseOfOne ==
    ASSUME NEW f \in Paths, NEW D, NEW b, NEW G, Parsed(D) = AtFile(f, b, G)
    PROVE  Parse(D) = AtFile(f, b, G)
<1> DEFINE p == AtFile(f, b, G)  q == [p EXCEPT !.ok = p.ok /\ p.files # <<>>]
<1>1. Parse(D) = q
  BY DEF Parse, Parsed
<1>2. <<f>> # <<>>
  OBVIOUS
<1>3. p.ok = TRUE /\ p.files = <<f>>
  BY DEF AtFile
<1>4. (p.ok /\ p.files # <<>>) = p.ok
  BY <1>2, <1>3
<1>5. q = [p EXCEPT !.ok = p.ok]
  BY <1>4
<1> DEFINE yes == TRUE  fs == <<f>>  k == [g \in Paths |-> IF g = f THEN G ELSE <<>>]
<1>6. p = [ok |-> yes, file |-> f, files |-> fs, inHunk |-> b, hunks |-> k]
  BY DEF AtFile
<1> HIDE DEF p, yes, fs, k
<1>7. [p EXCEPT !.ok = p.ok] = p
  BY ONLY <1>6
<1> QED
  BY <1>1, <1>5, <1>7 DEF p

\* What the diff of the file f comes to.
AppliesTo(f, scripts, c, git, before) ==
    \E a : /\ Arrives(a, scripts[f], Shown(scripts[f], c), before[f], Len(scripts[f]))
          /\ Apply(before, Diff(scripts, c, git)) = Outcome(before, f, a)

\* The diff of one file is applied exactly when the file has the lines that it
\* shows, each where the lines above it put it, and then it replaces them.
LEMMA DiffApplied ==
    ASSUME NEW f \in Paths, NEW scripts, DOMAIN scripts = {f}, IsScript(scripts[f]), Old(scripts[f]) # <<>>,
           NEW c, c \in Nat, c > 0, NEW git \in BOOLEAN, NEW before, IsFile(before[f])
    PROVE  AppliesTo(f, scripts, c, git, before)
<1> DEFINE s == scripts[f]  shown == Shown(s, c)  D == Diff(scripts, c, git)
<1>1. ShowsAround(s, shown)
  BY ShownAround
<1>2. PICK G, b :
         /\ Parsed(Append(Headed(f, git) \o Hunks(s, shown), EndOfText)) = AtFile(f, b, G)
         /\ Arrives(Patched(before[f], G), s, shown, before[f], Len(s))
  <2> HIDE DEF shown
  <2> QED
    BY <1>1, FileParsed
<1>3. Parsed(D) = AtFile(f, b, G)
  BY <1>2, DiffOfOne
<1> DEFINE a == Patched(before[f], G)  p == AtFile(f, b, G)
<1> HIDE DEF D
<1>4. Parse(D) = p
  BY <1>3, ParseOfOne
<1>5. p.ok /\ Range(p.files) = {f} /\ p.hunks[f] = G
  <2>1. p.ok /\ p.files = <<f>> /\ p.hunks[f] = G
    BY HunksOf DEF AtFile
  <2>2. Range(<<f>>) = {f}
    BY DEF Range
  <2> HIDE DEF p
  <2> QED
    BY <2>1, <2>2
<1>6. ApplyHunks(before[f], G) = a
  BY DEF ApplyHunks, Patched
<1> HIDE DEF p, a
<1> DEFINE after == [g \in Range(p.files) |-> ApplyHunks(before[g], p.hunks[g])]
<1>7. Apply(before, D) =
        IF ~p.ok \/ \E g \in Range(p.files) : ~after[g].ok THEN [ok |-> FALSE, content |-> before]
        ELSE [ok |-> TRUE, content |-> [g \in Paths |-> IF g \in Range(p.files) THEN Joined(after[g].lines)
                                                       ELSE before[g]]]
  BY <1>4, Zenon DEF Apply
<1>8. after[f] = a
  BY <1>5, <1>6
<1> HIDE DEF after
<1>9. Apply(before, D) = Outcome(before, f, a)
  <2>1. CASE a.ok
    <3>1. ~(~p.ok \/ \E g \in Range(p.files) : ~after[g].ok)
      BY <2>1, <1>5, <1>8
    <3>2. [g \in Paths |-> IF g \in Range(p.files) THEN Joined(after[g].lines) ELSE before[g]]
            = [g \in Paths |-> IF g = f THEN Joined(a.lines) ELSE before[g]]
      BY <1>5, <1>8
    <3> QED
      BY <2>1, <3>1, <3>2, <1>7, Zenon DEF Outcome
  <2>2. CASE ~a.ok
    <3>1. ~p.ok \/ \E g \in Range(p.files) : ~after[g].ok
      BY <2>2, <1>5, <1>8
    <3> QED
      BY <2>2, <3>1, <1>7, Zenon DEF Outcome
  <2> QED
    BY <2>1, <2>2
<1> QED
  BY <1>2, <1>9 DEF a, D, AppliesTo

\* The two fields of a line.
LEMMA LineFields == \A p, t : Line(p, t).prefix = p /\ Line(p, t).text = t
  BY DEF Line

\* The two sides of a script.
Covers(s) ==
    /\ Len(s) \in Nat /\ OldTo(s, Len(s)) \in Nat /\ NewTo(s, Len(s)) \in Nat
    /\ Old(s) \in Seq(Texts) /\ Len(Old(s)) = OldTo(s, Len(s))
    /\ New(s) \in Seq(Texts) /\ Len(New(s)) = NewTo(s, Len(s))
    /\ \A i \in 1 .. Len(s) : s[i].prefix # "+" =>
          OldTo(s, i) \in 1 .. OldTo(s, Len(s)) /\ Old(s)[OldTo(s, i)] = s[i].text
    /\ \A i \in 1 .. Len(s) : s[i].prefix # "-" =>
          NewTo(s, i) \in 1 .. NewTo(s, Len(s)) /\ New(s)[NewTo(s, i)] = s[i].text
    /\ \A j \in 1 .. OldTo(s, Len(s)) : \E i \in 1 .. Len(s) : s[i].prefix # "+" /\ OldTo(s, i) = j
    /\ \A j \in 1 .. NewTo(s, Len(s)) : \E i \in 1 .. Len(s) : s[i].prefix # "-" /\ NewTo(s, i) = j

\* Every line of a side is a line of the script, and the other way round.
LEMMA Covered == \A s : IsScript(s) => Covers(s)
<1> SUFFICES ASSUME NEW s \in Seq(Ops) PROVE Covers(s)
  BY DEF IsScript
<1> DEFINE n == Len(s)  P == {" ", "-"}  Q == {" ", "+"}
<1>1. Counting(s, P) /\ Counting(s, Q)
  BY Counts
<1>9. /\ \A k : Count(s, P, k) = OldTo(s, k) /\ Count(s, Q, k) = NewTo(s, k)
      /\ Side(s, P) = Old(s) /\ Side(s, Q) = New(s)
  BY DEF OldTo, NewTo, Old, New
<1>2. /\ n \in Nat /\ Old(s) \in Seq(Texts) /\ Len(Old(s)) = OldTo(s, n)
      /\ New(s) \in Seq(Texts) /\ Len(New(s)) = NewTo(s, n)
      /\ OldTo(s, n) \in Nat /\ NewTo(s, n) \in Nat
  <2> HIDE DEF P, Q
  <2>1. \A R : Counting(s, R) => /\ n \in Nat /\ Side(s, R) \in Seq(Texts)
                                 /\ Len(Side(s, R)) = Count(s, R, n) /\ Count(s, R, n) \in Nat
    <3>1. n \in Nat => n \in 0 .. n
      OBVIOUS
    <3> HIDE DEF n
    <3> QED
      BY ONLY <3>1 DEF Counting, n
  <2> QED
    BY ONLY <1>1, <1>9, <2>1
<1>3. \A i \in 1 .. n :
         /\ s[i].prefix # "+" <=> s[i].prefix \in P
         /\ s[i].prefix # "-" <=> s[i].prefix \in Q
  <2>1. ASSUME NEW i \in 1 .. n
        PROVE  (s[i].prefix # "+" <=> s[i].prefix \in P) /\ (s[i].prefix # "-" <=> s[i].prefix \in Q)
    <3>1. s[i] \in Ops
      OBVIOUS
    <3>2. s[i].prefix \in {" ", "+", "-"}
      BY <3>1, OfOps
    <3> QED
      BY <3>2
  <2> QED
    BY <2>1
<1> HIDE DEF P, Q
<1>4. \A i \in 1 .. n : s[i].prefix \in P =>
         Count(s, P, i) \in 1 .. Len(Side(s, P)) /\ Side(s, P)[Count(s, P, i)] = s[i].text
  BY SideElements
<1>5. \A i \in 1 .. n : s[i].prefix \in Q =>
         Count(s, Q, i) \in 1 .. Len(Side(s, Q)) /\ Side(s, Q)[Count(s, Q, i)] = s[i].text
  BY SideElements
<1>6. n \in 0 .. n
  BY <1>2
<1>7. \A j \in 1 .. Count(s, P, n) : \E i \in 1 .. n : s[i].prefix \in P /\ Count(s, P, i) = j
  BY <1>6, SideOnto
<1>8. \A j \in 1 .. Count(s, Q, n) : \E i \in 1 .. n : s[i].prefix \in Q /\ Count(s, Q, i) = j
  BY <1>6, SideOnto
<1> HIDE DEF n
<1> SUFFICES
    /\ \A i \in 1 .. n : s[i].prefix # "+" => OldTo(s, i) \in 1 .. OldTo(s, n) /\ Old(s)[OldTo(s, i)] = s[i].text
    /\ \A i \in 1 .. n : s[i].prefix # "-" => NewTo(s, i) \in 1 .. NewTo(s, n) /\ New(s)[NewTo(s, i)] = s[i].text
    /\ \A j \in 1 .. OldTo(s, n) : \E i \in 1 .. n : s[i].prefix # "+" /\ OldTo(s, i) = j
    /\ \A j \in 1 .. NewTo(s, n) : \E i \in 1 .. n : s[i].prefix # "-" /\ NewTo(s, i) = j
  BY <1>2 DEF Covers, n
<1>a. \A i \in 1 .. n : s[i].prefix # "+" => OldTo(s, i) \in 1 .. OldTo(s, n) /\ Old(s)[OldTo(s, i)] = s[i].text
  BY <1>3, <1>4, <1>9, <1>2, Zenon
<1>b. \A i \in 1 .. n : s[i].prefix # "-" => NewTo(s, i) \in 1 .. NewTo(s, n) /\ New(s)[NewTo(s, i)] = s[i].text
  BY <1>3, <1>5, <1>9, <1>2, Zenon
<1>c. \A j \in 1 .. OldTo(s, n) : \E i \in 1 .. n : s[i].prefix # "+" /\ OldTo(s, i) = j
  BY <1>3, <1>7, <1>9, Zenon
<1>d. \A j \in 1 .. NewTo(s, n) : \E i \in 1 .. n : s[i].prefix # "-" /\ NewTo(s, i) = j
  BY <1>3, <1>8, <1>9, Zenon
<1> QED
  BY <1>a, <1>b, <1>c, <1>d

\* A line that the file has after is shown, when there is any and the script changes something.
LEMMA ShowsNew ==
    ASSUME NEW s, IsScript(s), NEW shown, ShowsAround(s, shown), Changes(s), New(s) # <<>>
    PROVE  \E i \in 1 .. Len(s) : i \in shown /\ s[i].prefix # "-"
<1> SUFFICES ASSUME \A i \in 1 .. Len(s) : i \in shown => s[i].prefix = "-" PROVE FALSE
  OBVIOUS
<1>1. shown \subseteq 1 .. Len(s) /\ \A i \in 1 .. Len(s) : i \notin shown => s[i].prefix = " "
  BY DEF ShowsAround, ShowsChanges
<1>2. PICK j \in 1 .. Len(s) : s[j].prefix # " "
  BY ScriptLength DEF Changes
<1>3. j \in shown
  BY <1>1, <1>2
<1>4. \A i \in shown : s[i].prefix = "-"
  BY <1>1
<1>5. "-" # " "
  OBVIOUS
<1>6. \A i \in 1 .. Len(s) : s[i].prefix = "-"
  BY <1>3, <1>4, <1>5, Spreads
<1>7. \A i \in 1 .. Len(s) : s[i].prefix \notin {" ", "+"}
  BY <1>6
<1> QED
  BY <1>7, NoSide DEF New

\* So no file is left without a line.
LEMMA NotEmptied ==
    ASSUME NEW s, IsScript(s), NEW shown, ShowsAround(s, shown), Changes(s), New(s) # <<>>,
           NEW before, NEW after, IsFile(after), IsPatched(s, shown, before, after, Len(s))
    PROVE  Joined(after) = after
<1>1. PICK i \in 1 .. Len(s) : i \in shown /\ s[i].prefix # "-"
  BY ShowsNew
<1>2. NewTo(s, i) <= Len(after)
  BY <1>1 DEF IsPatched
<1>3. NewTo(s, i) \in 1 .. NewTo(s, Len(s)) /\ NewTo(s, Len(s)) \in Nat
  BY <1>1, Covered DEF Covers
<1>4. Len(after) # 0
  <2> DEFINE w == NewTo(s, i)  l == Len(after)  u == NewTo(s, Len(s))
  <2>1. w <= l /\ w \in 1 .. u /\ u \in Nat /\ l \in Nat
    BY <1>2, <1>3 DEF IsFile
  <2> HIDE DEF w, l, u
  <2>2. l # 0
    BY ONLY <2>1
  <2> QED
    BY <2>2 DEF l
<1>5. after # <<>>
  <2>1. Len(<<>>) = 0
    OBVIOUS
  <2> QED
    BY <2>1, <1>4
<1> QED
  BY <1>5 DEF Joined

-----------------------------------------------------------------------------
\* Where the file has as many lines as the agent saw, what a patched file holds
\* is the script's with the hidden lines of the file.
Takes(s, shown, before) ==
    [i \in 1 .. Len(s) |-> IF i \in shown THEN s[i] ELSE Line(" ", before[OldTo(s, i)])]

\* So a file that has as many lines as the agent saw comes to the new side of
\* the script that takes them.
LEMMA PatchedIsNew ==
    ASSUME NEW s, IsScript(s), NEW shown, ShowsAround(s, shown), NEW before, IsFile(before),
           Len(before) = OldTo(s, Len(s)), NEW after, IsFile(after),
           IsPatched(s, shown, before, after, Len(s))
    PROVE  New(Takes(s, shown, before)) = after
<1> DEFINE n == Len(s)  r == Takes(s, shown, before)  O(i) == OldTo(s, i)  W(i) == NewTo(s, i)
           b == Len(before)  a == Len(after)
<1>n. n \in Nat /\ b \in Nat /\ a \in Nat
  BY ScriptLength DEF IsFile
<1>c. /\ O(n) \in Nat /\ W(n) \in Nat
      /\ \A i \in 1 .. n : s[i].prefix # "+" => O(i) \in 1 .. O(n)
      /\ \A i \in 1 .. n : s[i].prefix # "-" => W(i) \in 1 .. W(n)
  BY Covered DEF Covers
<1>p. /\ a = b + W(n) - O(n) /\ b = O(n)
      /\ \A i \in 1 .. n : i \in shown /\ s[i].prefix # "-" => W(i) <= a /\ after[W(i)] = s[i].text
      /\ \A i \in 1 .. n : i \notin shown => (W(i) <= a => after[W(i)] = before[O(i)])
  BY DEF IsPatched
<1>h. \A i \in 1 .. n : i \notin shown => s[i].prefix = " "
  BY DEF ShowsAround, ShowsChanges
<1>o. \A i \in 1 .. n : s[i] \in Ops
  BY DEF IsScript
<1>f. \A j \in 1 .. b : before[j] \in Texts
  BY DEF IsFile
<1> HIDE DEF n, O, W, a, b
<1>1. ASSUME NEW i \in 1 .. n PROVE r[i] \in Ops /\ r[i].prefix = s[i].prefix
  <2>1. CASE i \in shown
    <3>1. r[i] = s[i]
      BY <2>1 DEF Takes, n
    <3> QED
      BY <3>1, <1>o
  <2>2. CASE i \notin shown
    <3>1. s[i].prefix = " " /\ s[i].prefix # "+"
      BY <2>2, <1>h
    <3>2. O(i) \in 1 .. O(n)
      BY <3>1, <1>c
    <3> DEFINE t == before[O(i)]  y == r[i]
    <3>3. t \in Texts
      BY <3>2, <1>f, <1>p
    <3>4. y = Line(" ", t)
      BY <2>2 DEF Takes, n, O
    <3> HIDE DEF t, r, y
    <3>6. y \in Ops /\ y.prefix = " "
      BY ONLY <3>3, <3>4 DEF Line, Ops
    <3>5. r[i] \in Ops /\ r[i].prefix = " "
      BY <3>6 DEF y
    <3> QED
      BY <3>1, <3>5
  <2> QED
    BY <2>1, <2>2
<1>2. r \in Seq(Ops) /\ Len(r) = n /\ DOMAIN r = 1 .. n
  <2>1. r = [i \in 1 .. n |-> r[i]] /\ DOMAIN r = 1 .. n
    BY DEF Takes, n
  <2> HIDE DEF r
  <2>2. [i \in 1 .. n |-> r[i]] \in Seq(Ops)
    BY <1>1, <1>n
  <2>3. r \in Seq(Ops)
    BY <2>1, <2>2
  <2> QED
    BY <2>1, <2>3, <1>n
<1> DEFINE u == New(r)
<1>3. \A k \in 0 .. n : NewTo(r, k) = W(k)
  <2>1. \A i \in 1 .. Len(s) : s[i].prefix \in {" ", "+"} <=> r[i].prefix \in {" ", "+"}
    BY <1>1 DEF n
  <2> HIDE DEF r
  <2>2. s \in Seq(Ops) /\ r \in Seq(Ops) /\ Len(r) = Len(s)
    BY <1>2 DEF IsScript, n
  <2> DEFINE P == {" ", "+"}
  <2>3. \A i \in 1 .. Len(s) : s[i].prefix \in P <=> r[i].prefix \in P
    BY <2>1
  <2> HIDE DEF P
  <2>4. \A k \in 0 .. Len(s) : Count(r, P, k) = Count(s, P, k)
    BY <2>2, <2>3, CountsAlike
  <2> QED
    BY <2>4 DEF NewTo, W, n, P
<1>4. /\ u \in Seq(Texts) /\ Len(u) = W(n)
      /\ \A i \in 1 .. n : r[i].prefix # "-" => u[W(i)] = r[i].text
      /\ \A j \in 1 .. W(n) : \E i \in 1 .. n : r[i].prefix # "-" /\ W(i) = j
  <2> HIDE DEF r
  <2>1. Covers(r)
    BY <1>2, Covered DEF IsScript
  <2>2. n \in 0 .. n /\ \A i \in 1 .. n : i \in 0 .. n
    BY ONLY <1>n
  <2>3. /\ u \in Seq(Texts) /\ Len(u) = NewTo(r, n)
        /\ \A i \in 1 .. n : r[i].prefix # "-" => u[NewTo(r, i)] = r[i].text
        /\ \A j \in 1 .. NewTo(r, n) : \E i \in 1 .. n : r[i].prefix # "-" /\ NewTo(r, i) = j
    BY <2>1, <1>2 DEF Covers
  <2>4. NewTo(r, n) = W(n) /\ \A i \in 1 .. n : NewTo(r, i) = W(i)
    BY <1>3, <2>2
  <2> QED
    BY <2>3, <2>4, Zenon
<1>5. a = W(n)
  BY ONLY <1>p, <1>c, <1>n
<1>6. ASSUME NEW j \in 1 .. W(n) PROVE u[j] = after[j]
  <2>1. PICK i \in 1 .. n : r[i].prefix # "-" /\ W(i) = j
    BY <1>4
  <2>2. s[i].prefix # "-" /\ u[j] = r[i].text
    BY <2>1, <1>1, <1>4
  <2>3. W(i) <= a
    BY ONLY <2>1, <1>5, <1>c, j \in 1 .. W(n)
  <2>4. CASE i \in shown
    <3>1. r[i] = s[i]
      BY <2>4 DEF Takes, n
    <3> QED
      BY <3>1, <2>1, <2>2, <2>4, <1>p
  <2>5. CASE i \notin shown
    <3> DEFINE t == before[O(i)]
    <3>1. r[i] = Line(" ", t)
      BY <2>5 DEF Takes, n, O
    <3>2. after[j] = t
      BY <2>1, <2>3, <2>5, <1>p
    <3> HIDE DEF t
    <3>3. r[i].text = t
      BY <3>1, LineFields
    <3> QED
      BY <3>2, <3>3, <2>2
  <2> QED
    BY <2>4, <2>5
<1> HIDE DEF u, r
<1>7. u = after
  <2>1. after \in Seq(Texts) /\ Len(after) = Len(u)
    BY <1>4, <1>5 DEF IsFile, a
  <2>2. \A j \in 1 .. Len(u) : u[j] = after[j]
    BY <1>4, <1>6
  <2> QED
    BY <1>4, <2>1, <2>2, SeqEqual
<1> QED
  BY <1>7 DEF u, r

\* The inverse of a script.
Mirrors(t, s) ==
    /\ IsScript(t) /\ Len(t) = Len(s)
    /\ \A k \in 0 .. Len(s) : OldTo(t, k) = NewTo(s, k) /\ NewTo(t, k) = OldTo(s, k)
    /\ \A i \in 1 .. Len(s) :
          /\ t[i].text = s[i].text
          /\ t[i].prefix # "-" <=> s[i].prefix # "+"
          /\ t[i].prefix # "+" <=> s[i].prefix # "-"
          /\ t[i].prefix = " " <=> s[i].prefix = " "

\* The inverse of a script mirrors it: what one removes, the other adds.
LEMMA ReversedMirrors == \A s : IsScript(s) => Mirrors(Reversed(s), s)
<1> SUFFICES ASSUME NEW s \in Seq(Ops) PROVE Mirrors(Reversed(s), s)
  BY DEF IsScript
<1> DEFINE n == Len(s)  t == Reversed(s)
<1>n. n \in Nat /\ DOMAIN s = 1 .. n /\ \A i \in 1 .. n : s[i] \in Ops
  OBVIOUS
<1>d. t = [i \in 1 .. n |-> t[i]] /\ DOMAIN t = 1 .. n
  BY <1>n DEF Reversed
<1>1. ASSUME NEW i \in 1 .. n
      PROVE  /\ t[i] \in Ops /\ t[i].text = s[i].text
             /\ t[i].prefix # "-" <=> s[i].prefix # "+"
             /\ t[i].prefix # "+" <=> s[i].prefix # "-"
             /\ t[i].prefix = " " <=> s[i].prefix = " "
  <2> DEFINE x == s[i]  p == CASE x.prefix = "+" -> "-" [] x.prefix = "-" -> "+" [] OTHER -> " "
             e == x.text  y == t[i]
  <2>1. y = Line(p, e)
    BY <1>n DEF Reversed
  <2>2. x.prefix \in {" ", "+", "-"} /\ e \in Texts
    BY <1>n, OfOps
  <2> DEFINE q == x.prefix
  <2>3. p = CASE q = "+" -> "-" [] q = "-" -> "+" [] OTHER -> " "
    OBVIOUS
  <2> HIDE DEF x, p, e, y, q
  <2>q. q \in {" ", "+", "-"}
    BY <2>2 DEF q
  <2>4. p \in {" ", "+", "-"} /\ (p # "-" <=> q # "+") /\ (p # "+" <=> q # "-") /\ (p = " " <=> q = " ")
    BY ONLY <2>q, <2>3
  <2>5. y.prefix = p /\ y.text = e
    BY <2>1, LineFields
  <2>6. y \in Ops
    BY ONLY <2>1, <2>2, <2>4 DEF Line, Ops
  <2> QED
    BY <2>4, <2>5, <2>6 DEF x, y, e, q
<1> HIDE DEF t, n
<1>2. t \in Seq(Ops) /\ Len(t) = n
  <2> DEFINE T == Ops
  <2>0. n \in Nat /\ \A i \in 1 .. n : t[i] \in T
    BY <1>1, <1>n
  <2> HIDE DEF T
  <2>1. [i \in 1 .. n |-> t[i]] \in Seq(T)
    BY ONLY <2>0
  <2>2. t \in Seq(T)
    BY <1>d, <2>1
  <2>3. Len(t) = n
    BY <1>d, <2>2, <2>0
  <2> QED
    BY <2>2, <2>3 DEF T
<1> DEFINE P == {" ", "-"}  Q == {" ", "+"}
<1>3. ASSUME NEW i \in 1 .. n
      PROVE  (s[i].prefix \in P <=> t[i].prefix \in Q) /\ (s[i].prefix \in Q <=> t[i].prefix \in P)
  <2> DEFINE p == t[i].prefix  q == s[i].prefix
  <2>1. p \in {" ", "+", "-"} /\ q \in {" ", "+", "-"}
    BY <1>1, <1>n, OfOps
  <2>2. (p # "-" <=> q # "+") /\ (p # "+" <=> q # "-")
    BY <1>1
  <2> HIDE DEF p, q
  <2>3. (q \in P <=> p \in Q) /\ (q \in Q <=> p \in P)
    BY ONLY <2>1, <2>2
  <2> QED
    BY <2>3 DEF p, q
<1>4. \A k : /\ Count(s, P, k) = OldTo(s, k) /\ Count(t, P, k) = OldTo(t, k)
             /\ Count(s, Q, k) = NewTo(s, k) /\ Count(t, Q, k) = NewTo(t, k)
  BY DEF OldTo, NewTo
<1> HIDE DEF P, Q
<1>5. /\ \A k \in 0 .. Len(s) : Count(t, Q, k) = Count(s, P, k)
      /\ \A k \in 0 .. Len(s) : Count(t, P, k) = Count(s, Q, k)
  <2>1. Len(t) = Len(s) /\ n = Len(s)
    BY <1>2 DEF n
  <2>2. /\ \A i \in 1 .. Len(s) : s[i].prefix \in P <=> t[i].prefix \in Q
        /\ \A i \in 1 .. Len(s) : s[i].prefix \in Q <=> t[i].prefix \in P
    BY <1>3, <2>1
  <2> QED
    BY <1>2, <2>1, <2>2, CountsAlike
<1>6. \A k \in 0 .. n : OldTo(t, k) = NewTo(s, k) /\ NewTo(t, k) = OldTo(s, k)
  BY <1>4, <1>5, Zenon DEF n
<1> QED
  BY <1>1, <1>2, <1>6 DEF Mirrors, IsScript, t, n

\* A script and its inverse show the same lines.
LEMMA MirrorShows ==
    ASSUME NEW s, IsScript(s), NEW t, Mirrors(t, s)
    PROVE  /\ \A c : Shown(t, c) = Shown(s, c)
           /\ Changes(s) => Changes(t)
           /\ Len(Old(t)) = Len(New(s)) /\ Len(New(t)) = Len(Old(s))
<1> DEFINE n == Len(s)
<1>1. DOMAIN s = 1 .. n /\ DOMAIN t = 1 .. n /\ n \in Nat
  BY ScriptLength DEF Mirrors
<1>2. \A i \in 1 .. n : t[i].prefix # " " <=> s[i].prefix # " "
  BY DEF Mirrors
<1>3. Len(Old(t)) = OldTo(t, n) /\ Len(New(t)) = NewTo(t, n) /\ Len(Old(s)) = OldTo(s, n) /\ Len(New(s)) = NewTo(s, n)
  BY Covered DEF Covers, Mirrors
<1>4. OldTo(t, n) = NewTo(s, n) /\ NewTo(t, n) = OldTo(s, n)
  <2>1. n \in 0 .. n
    BY <1>1
  <2> QED
    BY <2>1 DEF Mirrors
<1> HIDE DEF n
<1>5. \A c : Shown(t, c) = Shown(s, c)
  BY <1>1, <1>2 DEF Shown
<1>6. Changes(s) => Changes(t)
  BY <1>1, <1>2 DEF Changes
<1> QED
  BY <1>3, <1>4, <1>5, <1>6

\* What was patched, patched back.
LEMMA PatchedBack ==
    ASSUME NEW s, IsScript(s), NEW shown, ShowsAround(s, shown), NEW t, Mirrors(t, s),
           NEW before, IsFile(before), NEW after, IsFile(after),
           FitsTo(s, shown, before, 0, Len(s)), IsPatched(s, shown, before, after, Len(s))
    PROVE  /\ FitsTo(t, shown, after, 0, Len(s))
           /\ \A back : IsFile(back) /\ IsPatched(t, shown, after, back, Len(s)) => back = before
<1> DEFINE n == Len(s)  O(i) == OldTo(s, i)  W(i) == NewTo(s, i)  b == Len(before)  a == Len(after)
<1>n. n \in Nat /\ b \in Nat /\ a \in Nat
  BY ScriptLength DEF IsFile
<1>c. /\ O(n) \in Nat /\ W(n) \in Nat
      /\ \A i \in 1 .. n : s[i].prefix # "+" => O(i) \in 1 .. O(n)
      /\ \A j \in 1 .. O(n) : \E i \in 1 .. n : s[i].prefix # "+" /\ O(i) = j
  BY Covered DEF Covers
<1>p. /\ a = b + W(n) - O(n)
      /\ \A i \in 1 .. n : i \in shown /\ s[i].prefix # "-" => W(i) <= a /\ after[W(i)] = s[i].text
      /\ \A i \in 1 .. n : i \notin shown => (W(i) <= a <=> O(i) <= b) /\ (W(i) <= a => after[W(i)] = before[O(i)])
      /\ \A j \in 1 .. a : j > W(n) => after[j] = before[j - W(n) + O(n)]
  BY DEF IsPatched
<1>f. \A i \in 1 .. n : i \in shown /\ s[i].prefix # "+" => O(i) <= b /\ before[O(i)] = s[i].text
  BY DEF FitsTo
<1>t. /\ \A i \in 1 .. n : OldTo(t, i) = W(i) /\ NewTo(t, i) = O(i)
      /\ OldTo(t, n) = W(n) /\ NewTo(t, n) = O(n)
      /\ \A i \in 1 .. n :
            /\ t[i].text = s[i].text
            /\ t[i].prefix # "-" <=> s[i].prefix # "+"
            /\ t[i].prefix # "+" <=> s[i].prefix # "-"
  <2>1. n \in 0 .. n /\ \A i \in 1 .. n : i \in 0 .. n
    BY ONLY <1>n
  <2> QED
    BY <2>1 DEF Mirrors
<1> HIDE DEF n, O, W, a, b
<1>1. FitsTo(t, shown, after, 0, n)
  <2>1. ASSUME NEW i \in 1 .. n, i \in shown, t[i].prefix # "+"
        PROVE  OldTo(t, i) <= Len(after) /\ after[OldTo(t, i)] = t[i].text
    <3>1. W(i) <= a /\ after[W(i)] = s[i].text
      BY <2>1, <1>t, <1>p, Zenon
    <3>2. OldTo(t, i) = W(i) /\ t[i].text = s[i].text
      BY <1>t, Zenon
    <3> QED
      BY <3>1, <3>2, Zenon DEF a
  <2>2. 0 + 1 = 1
    OBVIOUS
  <2> QED
    BY <2>1, <2>2 DEF FitsTo
<1>2. ASSUME NEW back, IsFile(back), IsPatched(t, shown, after, back, n) PROVE back = before
  <2> DEFINE m == Len(back)
  <2>n. m \in Nat
    BY <1>2 DEF IsFile
  <2>p. /\ m = a + NewTo(t, n) - OldTo(t, n)
        /\ \A i \in 1 .. n : i \in shown /\ t[i].prefix # "-" => NewTo(t, i) <= m /\ back[NewTo(t, i)] = t[i].text
        /\ \A i \in 1 .. n : i \notin shown => (NewTo(t, i) <= m => back[NewTo(t, i)] = after[OldTo(t, i)])
        /\ \A j \in 1 .. m : j > NewTo(t, n) => back[j] = after[j - NewTo(t, n) + OldTo(t, n)]
    BY <1>2 DEF IsPatched, a
  <2> HIDE DEF m
  <2>q. /\ m = a + O(n) - W(n)
        /\ \A i \in 1 .. n : i \in shown /\ t[i].prefix # "-" => back[O(i)] = s[i].text
        /\ \A i \in 1 .. n : i \notin shown => (O(i) <= m => back[O(i)] = after[W(i)])
        /\ \A j \in 1 .. m : j > O(n) => back[j] = after[j - O(n) + W(n)]
    <3>1. m = a + O(n) - W(n)
      BY <2>p, <1>t, Zenon
    <3>2. \A i \in 1 .. n : i \in shown /\ t[i].prefix # "-" => back[O(i)] = s[i].text
      BY <2>p, <1>t, Zenon
    <3>3. \A i \in 1 .. n : i \notin shown => (O(i) <= m => back[O(i)] = after[W(i)])
      BY <2>p, <1>t, Zenon
    <3>4. \A j \in 1 .. m : j > O(n) => back[j] = after[j - O(n) + W(n)]
      BY <2>p, <1>t, Zenon
    <3> QED
      BY <3>1, <3>2, <3>3, <3>4, Zenon
  <2>1. m = b
    BY ONLY <2>q, <1>p, <1>c, <1>n
  <2>2. ASSUME NEW j \in 1 .. b, j > O(n) PROVE back[j] = before[j]
    <3> DEFINE k == j - O(n) + W(n)
    <3>1. k \in 1 .. a /\ k > W(n) /\ k - W(n) + O(n) = j
      BY ONLY <1>p, <1>c, <1>n, <2>2, j \in 1 .. b
    <3>2. back[j] = after[k]
      BY <2>1, <2>2, <2>q
    <3> HIDE DEF k
    <3>3. after[k] = before[k - W(n) + O(n)]
      BY <3>1, <1>p
    <3> QED
      BY <3>1, <3>2, <3>3
  <2>3. ASSUME NEW j \in 1 .. b, j <= O(n) PROVE back[j] = before[j]
    <3>1. j \in 1 .. O(n)
      BY ONLY <1>c, <1>n, <2>3, j \in 1 .. b
    <3>2. PICK i \in 1 .. n : s[i].prefix # "+" /\ O(i) = j
      BY <3>1, <1>c
    <3>b. O(i) <= b
      BY ONLY <3>2, <1>n, j \in 1 .. b
    <3>3. CASE i \in shown
      <4>1. before[O(i)] = s[i].text
        BY <3>2, <3>3, <1>f
      <4>2. back[O(i)] = s[i].text
        BY <3>2, <3>3, <1>t, <2>q, Zenon
      <4> QED
        BY <4>1, <4>2, <3>2
    <3>4. CASE i \notin shown
      <4>1. back[O(i)] = after[W(i)]
        BY <3>4, <3>b, <2>1, <2>q
      <4>2. after[W(i)] = before[O(i)]
        BY <3>4, <3>b, <1>p
      <4> QED
        BY <4>1, <4>2, <3>2
    <3> QED
      BY <3>3, <3>4
  <2>4. \A j \in 1 .. b : back[j] = before[j]
    <3>1. \A j \in 1 .. b : j > O(n) \/ j <= O(n)
      BY ONLY <1>n, <1>c
    <3> QED
      BY <3>1, <2>2, <2>3
  <2>5. Len(back) = Len(before) /\ \A j \in 1 .. Len(back) : back[j] = before[j]
    BY <2>1, <2>4 DEF m, b
  <2> QED
    BY <1>2, <2>5, SeqEqual DEF IsFile
<1> QED
  BY <1>1, <1>2 DEF n

\* Two ways to count.
LEMMA OldAbove == \A s, i : Len(Old(SubSeq(s, 1, i))) = OldTo(s, i)
  BY DEF OldTo, Count, Old

\* In a file that has as many lines as the agent saw, the lines shown are there
\* exactly when they are unchanged.
LEMMA AgreesFits ==
    ASSUME NEW s, IsScript(s), NEW c, NEW before, IsFile(before), Len(before) = OldTo(s, Len(s))
    PROVE  Agrees(s, c, before) <=> FitsTo(s, Shown(s, c), before, 0, Len(s))
<1> DEFINE shown == Shown(s, c)  n == Len(s)  m == OldTo(s, Len(s))  b == Len(before)
<1>1. shown \subseteq 1 .. n
  BY ScriptLength DEF Shown
<1>2. Agrees(s, c, before) <=> \A i \in shown : s[i].prefix # "+" => before[OldTo(s, i)] = s[i].text
  BY OldAbove DEF Agrees
<1>3. FitsTo(s, shown, before, 0, n) <=>
        \A i \in 1 .. n : i \in shown /\ s[i].prefix # "+" => OldTo(s, i) <= b /\ before[OldTo(s, i)] = s[i].text
  <2>1. 0 + 1 = 1
    OBVIOUS
  <2> QED
    BY <2>1 DEF FitsTo
<1>4. \A i \in 1 .. n : s[i].prefix # "+" => OldTo(s, i) \in 1 .. m
  BY Covered DEF Covers
<1>5. m \in Nat /\ b = m
  BY Covered DEF Covers
<1> HIDE DEF shown, n, m, b
<1>6. \A j \in 1 .. m : j <= b
  BY ONLY <1>5
<1>7. \A i \in 1 .. n : s[i].prefix # "+" => OldTo(s, i) <= b
  BY <1>4, <1>6
<1>8. Agrees(s, c, before) <=> FitsTo(s, shown, before, 0, n)
  BY <1>1, <1>2, <1>3, <1>7
<1> QED
  BY <1>8 DEF shown, n

\* Two ways to say the script with the hidden lines of the file.
LEMMA RebasedTakes ==
    ASSUME NEW s, IsScript(s), NEW c, NEW before
    PROVE  Rebased(s, c, before) = Takes(s, Shown(s, c), before)
  BY ScriptLength, OldAbove DEF Rebased, Takes

\* A sequence is empty when its length is 0.
LEMMA NoLines == \A x \in Seq(Texts) : x = <<>> <=> Len(x) = 0
  OBVIOUS

\* What the two properties say of a diff of one file.
MergedOrRefused(f, scripts, c, before, r) ==
    /\ Len(before[f]) = Len(Old(scripts[f])) =>
          IF Agrees(scripts[f], c, before[f])
          THEN r.ok /\ r.content[f] = New(Rebased(scripts[f], c, before[f]))
          ELSE ~r.ok
    /\ r.ok => Apply(r.content, Diff([g \in DOMAIN scripts |-> Reversed(scripts[g])], c, FALSE))
                  = [ok |-> TRUE, content |-> before]
    /\ r.content \in [Paths -> Seq(Texts)]

\* Both properties, of the diff of one file and any content of the files.
LEMMA AppliedToOne ==
    ASSUME NEW f \in Paths, NEW scripts, DOMAIN scripts = {f}, IsScript(scripts[f]), Changes(scripts[f]),
           Old(scripts[f]) # <<>>, New(scripts[f]) # <<>>, NEW c, c \in Nat, c > 0, NEW git \in BOOLEAN,
           NEW before \in [Paths -> Seq(Texts)], NEW r, r = Apply(before, Diff(scripts, c, git))
    PROVE  MergedOrRefused(f, scripts, c, before, r)
<1> DEFINE s == scripts[f]  shown == Shown(s, c)  n == Len(s)  B == before[f]
<1>1. /\ IsScript(s) /\ Changes(s) /\ Old(s) # <<>> /\ New(s) # <<>> /\ IsFile(B)
      /\ Len(Old(s)) = OldTo(s, n)
  BY Covered DEF IsFile, Covers
<1>2. PICK a : Arrives(a, s, shown, B, n) /\ r = Outcome(before, f, a)
  <2>1. IsFile(before[f])
    BY <1>1
  <2>2. AppliesTo(f, scripts, c, git, before)
    BY <2>1, DiffApplied
  <2> QED
    BY <2>2 DEF AppliesTo
<1>3. ShowsAround(s, shown)
  BY <1>1, ShownAround
<1> HIDE DEF shown, n, B, s
<1>4. a.ok \in BOOLEAN /\ IsFile(a.lines) /\ (a.ok <=> FitsTo(s, shown, B, 0, n))
      /\ (a.ok => IsPatched(s, shown, B, a.lines, n))
  BY <1>2 DEF Arrives, FileRecord, IsFile
<1>5. /\ r.ok = a.ok
      /\ a.ok => /\ r.content[f] = Joined(a.lines)
                 /\ \A g \in Paths \ {f} : r.content[g] = before[g]
                 /\ DOMAIN r.content = Paths
      /\ ~a.ok => r.content = before
  <2> DEFINE o == Outcome(before, f, a)
  <2>1. /\ o.ok = a.ok
        /\ a.ok => /\ o.content[f] = Joined(a.lines)
                   /\ \A g \in Paths \ {f} : o.content[g] = before[g]
                   /\ DOMAIN o.content = Paths
        /\ ~a.ok => o.content = before
    BY <1>4 DEF Outcome
  <2>2. r = o
    BY <1>2
  <2> HIDE DEF o
  <2> QED
    BY <2>1, <2>2, Zenon
<1>6. a.ok => r.content[f] = a.lines
  <2>1. a.ok => Joined(a.lines) = a.lines
    BY <1>1, <1>3, <1>4, NotEmptied DEF n
  <2> QED
    BY <2>1, <1>5
<1>7. ASSUME Len(B) = Len(Old(s))
      PROVE  IF Agrees(s, c, B) THEN r.ok /\ r.content[f] = New(Rebased(s, c, B)) ELSE ~r.ok
  <2>1. Agrees(s, c, B) <=> a.ok
    BY <1>1, <1>4, <1>7, AgreesFits DEF shown, n
  <2>2. ASSUME a.ok PROVE New(Rebased(s, c, B)) = a.lines
    <3>1. New(Takes(s, shown, B)) = a.lines
      BY <1>1, <1>3, <1>4, <1>7, <2>2, PatchedIsNew DEF n
    <3> QED
      BY <3>1, <1>1, RebasedTakes DEF shown
  <2> QED
    BY <2>1, <2>2, <1>5, <1>6
<1> DEFINE t == Reversed(s)  inverse == [g \in DOMAIN scripts |-> Reversed(scripts[g])]
<1>8. ASSUME a.ok PROVE Apply(r.content, Diff(inverse, c, FALSE)) = [ok |-> TRUE, content |-> before]
  <2>1. Mirrors(t, s)
    BY <1>1, ReversedMirrors
  <2>2. IsScript(t) /\ Len(t) = n
    BY <2>1 DEF Mirrors, n
  <2>3. /\ Shown(t, c) = shown /\ Changes(t)
        /\ Len(Old(t)) = Len(New(s)) /\ Len(New(t)) = Len(Old(s))
    BY <1>1, <2>1, MirrorShows DEF shown
  <2>4. Old(t) # <<>> /\ New(t) # <<>>
    <3>1. Old(t) \in Seq(Texts) /\ New(t) \in Seq(Texts) /\ Old(s) \in Seq(Texts) /\ New(s) \in Seq(Texts)
      BY <1>1, <2>2, Covered DEF Covers
    <3> HIDE DEF t
    <3> QED
      BY <1>1, <2>3, <3>1, NoLines
  <2>5. DOMAIN inverse = {f} /\ inverse[f] = t
    BY DEF s
  <2> DEFINE after == r.content[f]
  <2>6. IsFile(after) /\ after = a.lines
    BY <1>4, <1>6, <1>8
  <2> HIDE DEF t, inverse
  <2>7. PICK x : Arrives(x, t, shown, after, n) /\ Apply(r.content, Diff(inverse, c, FALSE)) = Outcome(r.content, f, x)
    <3> DEFINE S == inverse[f]
    <3>1. IsScript(S) /\ Old(S) # <<>> /\ Shown(S, c) = shown /\ Len(S) = n
      BY <2>2, <2>3, <2>4, <2>5
    <3> DEFINE C == r.content
    <3>2. IsFile(C[f])
      BY <2>6 DEF after
    <3> HIDE DEF C
    <3>3. AppliesTo(f, inverse, c, FALSE, C)
      BY <3>1, <3>2, <2>5, DiffApplied
    <3> QED
      BY <2>5, <3>1, <3>3 DEF AppliesTo, C, after
  <2> HIDE DEF after
  <2>8. /\ FitsTo(t, shown, after, 0, n)
        /\ \A back : IsFile(back) /\ IsPatched(t, shown, after, back, n) => back = B
    BY <1>1, <1>3, <1>4, <1>8, <2>1, <2>6, PatchedBack DEF n
  <2>9. x.ok = TRUE /\ x.lines = B /\ IsFile(x.lines) /\ IsPatched(t, shown, after, x.lines, n)
    BY <2>7, <2>8 DEF Arrives, FileRecord, IsFile
  <2>10. ShowsAround(t, shown)
    BY <2>2, <2>3, ShownAround
  <2>11. Joined(B) = B
    BY <2>2, <2>3, <2>4, <2>9, <2>10, NotEmptied
  <2>12. [g \in Paths |-> IF g = f THEN Joined(x.lines) ELSE r.content[g]] = before
    BY <2>9, <2>11, <1>5, <1>8 DEF B
  <2> QED
    BY <2>7, <2>9, <2>12 DEF Outcome
<1>9. r.content \in [Paths -> Seq(Texts)]
  <2>1. CASE a.ok
    <3> DEFINE T == Seq(Texts)  C == r.content
    <3>1. C[f] \in T /\ before \in [Paths -> T] /\ (\A g \in Paths \ {f} : C[g] = before[g]) /\ DOMAIN C = Paths
      BY <2>1, <1>4, <1>5, <1>6 DEF IsFile
    <3>2. C = [g \in Paths |-> IF g = f THEN C[f] ELSE before[g]]
      <4>1. C = [g \in DOMAIN C |-> C[g]]
        BY <2>1, <1>2 DEF Outcome
      <4> QED
        BY <3>1, <4>1
    <3> HIDE DEF T, C
    <3>3. C \in [Paths -> T]
      BY <3>1, <3>2
    <3> QED
      BY <3>3 DEF T, C
  <2>2. CASE ~a.ok
    BY <2>2, <1>5
  <2> QED
    BY <2>1, <2>2, <1>4
<1> QED
  BY <1>5, <1>7, <1>8, <1>9 DEF s, B, MergedOrRefused

\* FlattenSeq of sequences is a sequence.
LEMMA FlattenType == ASSUME NEW T, NEW s \in Seq(Seq(T)) PROVE FlattenSeq(s) \in Seq(T)
<1> DEFINE n == Len(s)  flat(k) == FlattenSeq(SubSeq(s, 1, k))  S == {k \in 0 .. n : flat(k) \in Seq(T)}
<1>n. n \in Nat /\ SubSeq(s, 1, n) = s /\ \A k \in 1 .. n : s[k] \in Seq(T)
  OBVIOUS
<1>1. flat(0) = <<>>
  <2>1. SubSeq(s, 1, 0) = <<>>
    OBVIOUS
  <2> QED
    BY <2>1, FlattenNothing
<1>2. ASSUME NEW k \in 1 .. n, flat(k - 1) \in Seq(T) PROVE flat(k) \in Seq(T)
  <2> DEFINE p == SubSeq(s, 1, k - 1)  x == s[k]
  <2>1. p \in Seq(Seq(T)) /\ SubSeq(s, 1, k) = Append(p, x) /\ x \in Seq(T)
    BY <1>n, OneMore
  <2> HIDE DEF p, x
  <2>2. FlattenSeq(Append(p, x)) = FlattenSeq(p) \o x
    BY <2>1, FlattenTurn
  <2>3. FlattenSeq(p) \in Seq(T)
    BY <1>2 DEF p
  <2>4. FlattenSeq(p) \o x \in Seq(T)
    BY <2>1, <2>3
  <2> QED
    BY <2>1, <2>2, <2>4
<1> HIDE DEF flat, n
<1>3. 0 \in S
  <2>1. 0 \in 0 .. n /\ <<>> \in Seq(T)
    BY <1>n
  <2> QED
    BY <1>1, <2>1
<1>4. ASSUME NEW k \in 0 .. n - 1, k \in S PROVE k + 1 \in S
  <2> DEFINE m == k + 1
  <2>1. m \in 1 .. n /\ m - 1 = k /\ m \in 0 .. n
    BY <1>n
  <2> HIDE DEF m
  <2>2. flat(m - 1) \in Seq(T)
    BY <1>4, <2>1
  <2>3. m \in S
    BY <1>2, <2>1, <2>2
  <2> QED
    BY <2>3 DEF m
<1>5. n \in S
  <2>1. n \in 0 .. n
    BY <1>n
  <2> HIDE DEF S
  <2> QED
    BY <1>3, <1>4, <1>n, <2>1, Induction
<1> QED
  BY <1>5, <1>n DEF flat

\* What agents send are scripts.
LEMMA ScriptType ==
    ASSUME NEW old, IsFile(old), NEW d, NEW g, NEW added \in [g -> Texts]
    PROVE  IsScript(Script(old, d, added))
<1> DEFINE Plus(i) == IF i \in DOMAIN added THEN <<Line("+", added[i])>> ELSE <<>>
           Kept(i) == <<Line(IF i \in d THEN "-" ELSE " ", old[i])>>
           T == Ops  n == Len(old)
           parts == [i \in DOMAIN old |-> Kept(i) \o Plus(i)]
<1>1. ASSUME NEW i PROVE Plus(i) \in Seq(T)
  <2>1. CASE i \in DOMAIN added
    <3> DEFINE x == Line("+", added[i])
    <3>1. added[i] \in Texts
      BY <2>1
    <3>2. x \in T
      BY <3>1 DEF Line, Ops
    <3> HIDE DEF x, T
    <3> QED
      BY <2>1, <3>2 DEF x
  <2>2. CASE i \notin DOMAIN added
    BY <2>2
  <2> QED
    BY <2>1, <2>2
<1>n. n \in Nat /\ DOMAIN old = 1 .. n /\ \A i \in 1 .. n : old[i] \in Texts
  BY DEF IsFile
<1>2. ASSUME NEW i \in 1 .. n PROVE Kept(i) \in Seq(T)
  <2> DEFINE p == IF i \in d THEN "-" ELSE " "  x == Line(p, old[i])
  <2>1. p \in {" ", "+", "-"} /\ old[i] \in Texts
    BY <1>n
  <2> HIDE DEF p
  <2>2. x \in T
    BY <2>1 DEF Line, Ops
  <2>3. Kept(i) = <<x>>
    BY DEF p
  <2> HIDE DEF x, T, Kept
  <2> QED
    BY <2>2, <2>3
<1>3. Script(old, d, added) = Plus(0) \o FlattenSeq(parts)
  BY DEF Script
<1> HIDE DEF Plus, Kept, T, n
<1>4. parts \in Seq(Seq(T))
  <2> DEFINE U == Seq(T)
  <2>1. \A i \in 1 .. n : Kept(i) \o Plus(i) \in U
    BY <1>1, <1>2
  <2> HIDE DEF U
  <2>2. parts = [i \in 1 .. n |-> Kept(i) \o Plus(i)]
    BY <1>n
  <2> HIDE DEF parts
  <2>3. parts \in Seq(U)
    BY <1>n, <2>1, <2>2
  <2> QED
    BY <2>3 DEF U
<1> HIDE DEF parts
<1>5. FlattenSeq(parts) \in Seq(T)
  BY <1>4, FlattenType
<1>6. Plus(0) \o FlattenSeq(parts) \in Seq(T)
  BY <1>1, <1>5
<1> QED
  BY <1>3, <1>6 DEF IsScript, T

\* A script that agents send changes something.
LEMMA OfScripts ==
    ASSUME NEW old, IsFile(old), NEW s \in Scripts(old) PROVE IsScript(s) /\ Changes(s)
<1>1. PICK d, g : Changes(s) /\ \E a \in [g -> Texts] : s = Script(old, d, a)
  BY DEF Scripts
<1>2. PICK a \in [g -> Texts] : s = Script(old, d, a)
  BY <1>1
<1> QED
  BY <1>1, <1>2, ScriptType

\* Edits keep a file a sequence of lines.
LEMMA EditedType ==
    ASSUME NEW s, IsFile(s)
    PROVE  /\ \A i \in DOMAIN s : IsFile(RemoveAt(s, i))
           /\ \A i \in DOMAIN s, t \in Texts : IsFile([s EXCEPT ![i] = t])
           /\ \A i \in 1 .. Len(s) + 1, t \in Texts : IsFile(InsertAt(s, i, t))
<1>1. s \in Seq(Texts)
  BY DEF IsFile
<1>2. ASSUME NEW i \in DOMAIN s PROVE RemoveAt(s, i) \in Seq(Texts)
  <2>1. SubSeq(s, 1, i - 1) \in Seq(Texts) /\ SubSeq(s, i + 1, Len(s)) \in Seq(Texts)
    BY <1>1
  <2> QED
    BY <2>1 DEF RemoveAt
<1>3. ASSUME NEW i \in DOMAIN s, NEW t \in Texts PROVE [s EXCEPT ![i] = t] \in Seq(Texts)
  BY <1>1
<1>4. ASSUME NEW i \in 1 .. Len(s) + 1, NEW t \in Texts PROVE InsertAt(s, i, t) \in Seq(Texts)
  <2>1. SubSeq(s, 1, i - 1) \in Seq(Texts) /\ SubSeq(s, i, Len(s)) \in Seq(Texts) /\ <<t>> \in Seq(Texts)
    BY <1>1
  <2> QED
    BY <2>1 DEF InsertAt
<1> QED
  BY <1>2, <1>3, <1>4 DEF IsFile

-----------------------------------------------------------------------------
\* Before the diff is applied, files are lines; and what the agent read always is.
AgentReadLines == seen \in [Paths -> Seq(Texts)]
UnpatchedAreLines == last = {} => content \in [Paths -> Seq(Texts)]

\* The inductive invariant.
DiffInv ==
    /\ AgentReadLines /\ UnpatchedAreLines
    /\ MergesOrRefuses /\ AcceptedIsReversible

\* The invariant holds at the start.
LEMMA DiffInvInit == DiffInit => DiffInv
<1> SUFFICES ASSUME DiffInit PROVE DiffInv
  OBVIOUS
<1>1. BoundedSeq(Texts, MaxLines) \subseteq Seq(Texts)
  BY BoundsAssumption DEF BoundedSeq, SeqOf
<1>2. content \in [Paths -> Seq(Texts)] /\ seen = content
  BY <1>1 DEF DiffInit
<1> QED
  BY <1>2 DEF DiffInit, DiffInv, AgentReadLines, UnpatchedAreLines, MergesOrRefuses, AcceptedIsReversible

\* An edit keeps the invariant: it comes before the diff.
LEMMA EditFileKeeps == ASSUME DiffInv, NEW f \in Paths, EditFile(f) PROVE DiffInv'
<1> DEFINE T == Seq(Texts)
<1>1. content \in [Paths -> T] /\ last = {}
  BY DEF DiffInv, UnpatchedAreLines, EditFile
<1>2. IsFile(content[f])
  BY <1>1 DEF IsFile
<1>3. \E x : IsFile(x) /\ content' = [content EXCEPT ![f] = x]
  <2>1. CASE \E i \in DOMAIN content[f] : content' = [content EXCEPT ![f] = RemoveAt(@, i)]
    BY <2>1, <1>2, EditedType
  <2>2. CASE \E i \in DOMAIN content[f], t \in Texts : content' = [content EXCEPT ![f][i] = t]
    <3>1. PICK i \in DOMAIN content[f], t \in Texts : content' = [content EXCEPT ![f] = [content[f] EXCEPT ![i] = t]]
      BY <2>2
    <3>2. IsFile([content[f] EXCEPT ![i] = t])
      BY <1>2, EditedType
    <3> QED
      BY <3>1, <3>2
  <2>3. CASE \E i \in 1 .. Len(content[f]) + 1, t \in Texts : content' = [content EXCEPT ![f] = InsertAt(@, i, t)]
    BY <2>3, <1>2, EditedType
  <2> QED
    BY <2>1, <2>2, <2>3, Zenon DEF EditFile
<1>4. content' \in [Paths -> T]
  <2>1. PICK x : x \in T /\ content' = [content EXCEPT ![f] = x]
    BY <1>3 DEF IsFile
  <2> HIDE DEF T
  <2> QED
    BY <1>1, <2>1
<1>5. last' = {} /\ seen' = seen
  BY <1>1 DEF EditFile
<1> QED
  BY <1>4, <1>5 DEF DiffInv, AgentReadLines, UnpatchedAreLines, MergesOrRefuses, AcceptedIsReversible

\* Applying a diff keeps the invariant.
LEMMA ApplyPatchKeeps ==
    ASSUME DiffInv, NEW fs \in (SUBSET Paths) \ {{}}, NEW context \in Contexts, NEW git \in BOOLEAN,
           ApplyPatch(fs, context, git)
    PROVE  DiffInv'
<1> DEFINE T == Seq(Texts)
<1>1. content \in [Paths -> T] /\ seen \in [Paths -> T] /\ seen' = seen
  BY DEF DiffInv, AgentReadLines, UnpatchedAreLines, ApplyPatch
<1>2. PICK scripts \in [fs -> UNION {Scripts(seen[f]) : f \in fs}] :
        /\ \A f \in fs : Old(scripts[f]) = seen[f]
        /\ content' = Apply(content, Diff(scripts, context, git)).content
        /\ last' = {[scripts |-> scripts, context |-> context, before |-> content,
                     ok |-> Apply(content, Diff(scripts, context, git)).ok]}
  BY DEF ApplyPatch
<1> DEFINE r == Apply(content, Diff(scripts, context, git))
           d == [scripts |-> scripts, context |-> context, before |-> content, ok |-> r.ok]
<1>3. /\ d.scripts = scripts /\ d.context = context /\ d.before = content /\ d.ok = r.ok
      /\ last' = {d} /\ content' = r.content
  BY <1>2
<1>4. context \in Nat
  BY BoundsAssumption
<1>5. DOMAIN scripts = fs
  OBVIOUS
<1> HIDE DEF d, r
<1>6. ASSUME OfOneFile(d), NEW f \in DOMAIN scripts
      PROVE  /\ Len(content[f]) = Len(seen[f]) =>
                  IF Agrees(scripts[f], context, content[f])
                  THEN r.ok /\ r.content[f] = New(Rebased(scripts[f], context, content[f]))
                  ELSE ~r.ok
             /\ r.ok => Apply(r.content, Diff([g \in DOMAIN scripts |-> Reversed(scripts[g])], context, FALSE))
                          = [ok |-> TRUE, content |-> content]
  <2>1. /\ f \in Paths /\ DOMAIN scripts = {f} /\ fs = {f} /\ context > 0
        /\ Old(scripts[f]) # <<>> /\ New(scripts[f]) # <<>>
    BY <1>3, <1>5, <1>6 DEF OfOneFile, IsOrdinary
  <2>2. scripts[f] \in Scripts(seen[f]) /\ Old(scripts[f]) = seen[f]
    BY <1>2, <2>1
  <2>3. IsFile(seen[f])
    BY <1>1, <2>1 DEF IsFile
  <2>4. IsScript(scripts[f]) /\ Changes(scripts[f])
    BY <2>2, <2>3, OfScripts
  <2>5. r = Apply(content, Diff(scripts, context, git))
    BY DEF r
  <2>6. MergedOrRefused(f, scripts, context, content, r)
    BY <1>1, <1>4, <2>1, <2>4, <2>5, AppliedToOne
  <2> QED
    BY <2>2, <2>6 DEF MergedOrRefused
<1>7. MergesOrRefuses'
  <2>1. ASSUME OfOneFile(d), NEW f \in DOMAIN d.scripts, Len(d.before[f]) = Len(seen'[f])
        PROVE  IF Agrees(d.scripts[f], d.context, d.before[f])
               THEN d.ok /\ content'[f] = New(Rebased(d.scripts[f], d.context, d.before[f]))
               ELSE ~d.ok
    BY <1>1, <1>3, <1>6, <2>1
  <2> QED
    BY <1>3, <2>1, Zenon DEF MergesOrRefuses
<1>8. AcceptedIsReversible'
  <2>1. ASSUME OfOneFile(d), d.ok
        PROVE  Apply(content', Diff([f \in DOMAIN d.scripts |-> Reversed(d.scripts[f])], d.context, FALSE))
                 = [ok |-> TRUE, content |-> d.before]
    <3>1. PICK f : f \in DOMAIN scripts
      BY <1>3, <2>1 DEF OfOneFile
    <3> QED
      BY <1>3, <1>6, <2>1, <3>1
  <2> QED
    BY <1>3, <2>1, Zenon DEF AcceptedIsReversible
<1>9. AgentReadLines' /\ UnpatchedAreLines'
  BY <1>1, <1>3 DEF AgentReadLines, UnpatchedAreLines
<1> QED
  BY <1>7, <1>8, <1>9 DEF DiffInv

\* Every step keeps the invariant.
LEMMA DiffInvStep == DiffInv /\ [DiffNext]_diffVars => DiffInv'
<1> SUFFICES ASSUME DiffInv, [DiffNext]_diffVars PROVE DiffInv'
  OBVIOUS
<1>1. ASSUME NEW f \in Paths, EditFile(f) PROVE DiffInv'
  BY <1>1, EditFileKeeps
<1>2. ASSUME NEW fs \in (SUBSET Paths) \ {{}}, NEW context \in Contexts, NEW git \in BOOLEAN,
             ApplyPatch(fs, context, git)
      PROVE  DiffInv'
  BY <1>2, ApplyPatchKeeps
<1>3. CASE UNCHANGED diffVars
  BY <1>3 DEF diffVars, DiffInv, AgentReadLines, UnpatchedAreLines, MergesOrRefuses, AcceptedIsReversible
<1> QED
  BY <1>1, <1>2, <1>3 DEF DiffNext

\* The invariant of UnifiedDiff.
THEOREM DiffInvariant == DiffSpec => []DiffInv
<1>1. DiffInit => DiffInv
  BY DiffInvInit
<1>2. DiffInv /\ [DiffNext]_diffVars => DiffInv'
  BY DiffInvStep
<1> QED
  BY <1>1, <1>2, PTL DEF DiffSpec

\* A diff of one file, applied to a file that still has as many lines as the
\* agent saw, is applied exactly when every line it shows is unchanged, and
\* keeps the user's lines in the others (applyHunks, patch.go:186-225).
THEOREM MergesOrRefusesHolds == DiffSpec => []MergesOrRefuses
<1>1. DiffInv => MergesOrRefuses
  BY DEF DiffInv
<1> QED
  BY <1>1, DiffInvariant, PTL

\* Whatever the file held when a diff of one file was accepted, the inverse
\* diff gives it back: nothing was overwritten unseen (patch.go:203-225).
THEOREM AcceptedIsReversibleHolds == DiffSpec => []AcceptedIsReversible
<1>1. DiffInv => AcceptedIsReversible
  BY DEF DiffInv
<1> QED
  BY <1>1, DiffInvariant, PTL
=============================================================================
