------------------------------ MODULE Patches ------------------------------
(***************************************************************************)
(* internal/patch/patch.go, Bookkeeper.Apply and Revert, as the apply_patch*)
(* and revert handlers call them: one at a time, file by file, while the   *)
(* user (or a shell in the capsule) edits the same files at any moment.    *)
(* A diff names its files; two names may lead to one file ("x" and "./x"), *)
(* and the Bookkeeper keeps what it knows by name.                         *)
(* The content of a file is the set of edits it shows; hunks that do not   *)
(* fit, missing files and failed writes are outcomes that may occur.       *)
(* A daemon that is started again has a new Bookkeeper, which knows none   *)
(* of the patches before it. There is one at a time: that two sessions of  *)
(* one repository have two is in Daemon.                                   *)
(***************************************************************************)
EXTENDS Naturals

CONSTANTS
    Files,
    Names, FileOf,  \* what diffs call files, and the file a name leads to
    AgentPatches,   \* each is applied at most once
    ToolEdits,      \* made by the tools of an agent_prompt, once to a file
    UserEdits,      \* made by the user or a shell, once to a file
    MaxRestarts     \* bound: how often the daemon is started again

Edits == AgentPatches \union ToolEdits \union UserEdits

ASSUME EditsAssumption ==
    /\ AgentPatches \intersect UserEdits = {}
    /\ ToolEdits \intersect (AgentPatches \union UserEdits) = {}
    /\ FileOf \in [Names -> Files]
    /\ MaxRestarts \in Nat

VARIABLES
    disk,        \* content of each file
    recorded,    \* the names that have an entry in b.originals
    originals,   \* b.originals: what the file of each recorded name held
    pc,          \* "idle", "reading", "writing" or "reverting"
    patch,       \* the patch being applied, or the last
    files,       \* the names of the files it changes
    todo,        \* the names the current loop has still to visit
    staged,      \* newContents
    outcome,     \* per patch: "new", "begun", "refused", "torn" or "applied"
    restarts,    \* how often the daemon was started again
    earlier,     \* history: the patches that an earlier daemon began
    reverted     \* history: the last operation was a Revert that succeeded

life == <<restarts, earlier>>
vars == <<disk, recorded, originals, pc, patch, files, todo, staged, outcome, life, reverted>>

Nothing == [n \in Names |-> {}]

Init ==
    /\ disk = [f \in Files |-> {}]
    /\ recorded = {} /\ originals = Nothing
    /\ pc = "idle" /\ files = {} /\ todo = {} /\ staged = Nothing
    /\ patch \in AgentPatches
    /\ outcome = [p \in AgentPatches |-> "new"]
    /\ restarts = 0 /\ earlier = {}
    /\ reverted = FALSE

UserEditsFile(f, u) ==
    /\ u \notin disk[f]
    /\ disk' = [disk EXCEPT ![f] = @ \union {u}]
    /\ UNCHANGED <<recorded, originals, pc, patch, files, todo, staged, outcome, life, reverted>>

\* write_file, apply_patch and shell of an agent_prompt change a file inside
\* the capsule, which is the same file: the Bookkeeper does not hear of it.
ToolEditsFile(f, e) ==
    /\ pc = "idle" /\ e \notin disk[f]
    /\ disk' = [disk EXCEPT ![f] = @ \union {e}]
    /\ reverted' = FALSE
    /\ UNCHANGED <<recorded, originals, pc, patch, files, todo, staged, outcome, life>>

\* The diff parses and names the files.
BeginApply(p) ==
    /\ pc = "idle" /\ outcome[p] = "new"
    /\ pc' = "reading" /\ patch' = p
    /\ files' \in (SUBSET Names) \ {{}}
    /\ todo' = files'
    /\ outcome' = [outcome EXCEPT ![p] = "begun"]
    /\ reverted' = FALSE
    /\ UNCHANGED <<disk, recorded, originals, staged, life>>

\* What Revert restores is recorded once, at the first read of a file by this name.
Content(n) == disk[FileOf[n]]

RecordLatest(n) ==
    /\ recorded' = recorded \union {n}
    /\ originals' = [originals EXCEPT ![n] = Content(n)]

Record(n) ==
    /\ recorded' = recorded \union {n}
    /\ originals' = [originals EXCEPT ![n] = IF n \in recorded THEN @ ELSE Content(n)]

ReadWritesAtOnce(n) ==
    /\ pc = "reading" /\ n \in todo
    /\ Record(n)
    /\ staged' = [staged EXCEPT ![n] = Content(n) \union {patch}]
    /\ disk' = [disk EXCEPT ![FileOf[n]] = @ \union {patch}]
    /\ IF todo = {n} THEN pc' = "writing" /\ todo' = files
                     ELSE pc' = pc /\ todo' = todo \ {n}
    /\ UNCHANGED <<patch, files, outcome, life, reverted>>

ReadFile(n) ==
    /\ pc = "reading" /\ n \in todo
    /\ Record(n)
    /\ staged' = [staged EXCEPT ![n] = Content(n) \union {patch}]
    /\ IF todo = {n} THEN pc' = "writing" /\ todo' = files
                     ELSE pc' = pc /\ todo' = todo \ {n}
    /\ UNCHANGED <<disk, patch, files, outcome, life, reverted>>

End(how) ==
    /\ pc' = "idle" /\ todo' = {} /\ files' = {} /\ staged' = Nothing
    /\ outcome' = [outcome EXCEPT ![patch] = how]

\* A file is missing, or a hunk does not fit: after the file was recorded.
ReadFails(n) ==
    /\ pc = "reading" /\ n \in todo
    /\ Record(n) \/ UNCHANGED <<recorded, originals>>
    /\ End("refused")
    /\ UNCHANGED <<disk, patch, life, reverted>>

WriteFile(n) ==
    /\ pc = "writing" /\ n \in todo
    /\ disk' = [disk EXCEPT ![FileOf[n]] = staged[n]]
    /\ IF todo = {n} THEN End("applied")
                     ELSE todo' = todo \ {n} /\ UNCHANGED <<pc, files, staged, outcome>>
    /\ UNCHANGED <<recorded, originals, patch, life, reverted>>

\* A write that fails, or is cut off, changes nothing, or has truncated the file and
\* written a part.
Cut(n, content) ==
    \/ UNCHANGED disk
    \/ \E part \in SUBSET content : disk' = [disk EXCEPT ![FileOf[n]] = part]

WriteFails(n) ==
    /\ pc = "writing" /\ n \in todo
    /\ Cut(n, staged[n])
    /\ End("torn")
    /\ UNCHANGED <<recorded, originals, patch, life, reverted>>

\* Revert writes every recorded name, in any order (that of a map), and forgets none.
BeginRevert ==
    /\ pc = "idle" /\ ~reverted
    /\ todo' = recorded
    /\ IF todo' = {} THEN pc' = "idle" /\ reverted' = TRUE
                     ELSE pc' = "reverting" /\ UNCHANGED reverted
    /\ UNCHANGED <<disk, recorded, originals, patch, files, staged, outcome, life>>

RevertFile(n) ==
    /\ pc = "reverting" /\ n \in todo
    /\ disk' = [disk EXCEPT ![FileOf[n]] = originals[n]]
    /\ todo' = todo \ {n}
    /\ IF todo = {n} THEN pc' = "idle" /\ reverted' = TRUE
                     ELSE UNCHANGED <<pc, reverted>>
    /\ UNCHANGED <<recorded, originals, patch, files, staged, outcome, life>>

RevertFails(n) ==
    /\ pc = "reverting" /\ n \in todo
    /\ Cut(n, originals[n])
    /\ pc' = "idle" /\ todo' = {}
    /\ UNCHANGED <<recorded, originals, patch, files, staged, outcome, life, reverted>>

\* The daemon ends, in the middle of a write perhaps. The next has a new Bookkeeper.
Restart ==
    /\ restarts < MaxRestarts /\ restarts' = restarts + 1
    /\ \/ UNCHANGED disk
       \/ pc = "writing" /\ \E n \in todo : Cut(n, staged[n])
       \/ pc = "reverting" /\ \E n \in todo : Cut(n, originals[n])
    /\ earlier' = {p \in AgentPatches : outcome[p] # "new"}
    /\ outcome' = [p \in AgentPatches |-> IF outcome[p] = "begun" THEN "torn" ELSE outcome[p]]
    /\ recorded' = {} /\ originals' = Nothing
    /\ pc' = "idle" /\ files' = {} /\ todo' = {} /\ staged' = Nothing
    /\ reverted' = FALSE
    /\ UNCHANGED patch

Next ==
    \/ \E p \in AgentPatches : BeginApply(p)
    \/ BeginRevert
    \/ \E n \in Names :
          \/ ReadFile(n) \/ ReadFails(n) \/ WriteFile(n) \/ WriteFails(n)
          \/ RevertFile(n) \/ RevertFails(n)
    \/ \E f \in Files :
          \/ \E u \in UserEdits : UserEditsFile(f, u)
          \/ \E e \in ToolEdits : ToolEditsFile(f, e)
    \/ Restart

Spec == Init /\ [][Next]_vars

-----------------------------------------------------------------------------
TypeOK ==
    /\ disk \in [Files -> SUBSET Edits]
    /\ recorded \subseteq Names
    /\ originals \in [Names -> SUBSET Edits]
    /\ pc \in {"idle", "reading", "writing", "reverting"}
    /\ patch \in AgentPatches
    /\ todo \subseteq Names /\ files \subseteq Names
    /\ staged \in [Names -> SUBSET Edits]
    /\ outcome \in [AgentPatches -> {"new", "begun", "refused", "torn", "applied"}]
    /\ restarts \in Nat /\ earlier \subseteq AgentPatches
    /\ reverted \in BOOLEAN
    /\ pc = "idle" => todo = {}
    /\ \A p \in AgentPatches :
          outcome[p] = "begun" <=> p = patch /\ pc \in {"reading", "writing"}

\* Was the file patched under no two names?
OneName(f) ==
    \A m, n \in recorded : FileOf[m] = f /\ FileOf[n] = f => m = n

\* A Revert that succeeds leaves no trace of any patch since the daemon was started in any
\* file that was patched under one name, those of patches that failed halfway and of
\* failed Reverts included. A file that was patched under two names may keep the patch
\* under the first, which is in the original under the second (patch.go:41, 62: the order
\* of a map); and the originals are forgotten when the daemon ends (patch.go:22).
RevertDiscardsPatches ==
    reverted => \A f \in Files :
                    OneName(f) => disk[f] \intersect (AgentPatches \ earlier) = {}

\* A patch of which one hunk does not fit has changed no file: all hunks are
\* applied in memory before the first write (patch.go:34-56).
RefusedChangesNothing ==
    \A p \in AgentPatches : outcome[p] = "refused" => \A f \in Files : p \notin disk[f]

\* "Patch application must be atomic (success or fail)"
\* (planning_docs/krellinv0architecture.md:549).
ApplyIsAtomic ==
    \A p \in AgentPatches :
        outcome[p] \in {"refused", "torn"} => \A f \in Files : p \notin disk[f]

\* Revert is "discard the agent's applied patch"
\* (planning_docs/krellinv0architecture.md:196): it takes nothing else out of a file.
RevertKeepsUserEdits ==
    [][pc = "reverting" =>
          \A f \in Files : disk[f] \intersect UserEdits \subseteq disk'[f]]_vars

\* "The user can always hit Revert to undo agent-caused repo/workspace
\* changes" (planning_docs/capsules.md:11), whichever way the agent made them.
RevertUndoesAgent ==
    reverted => \A f \in Files : disk[f] \subseteq UserEdits
=============================================================================
