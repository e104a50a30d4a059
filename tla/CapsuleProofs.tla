---------------------------- MODULE CapsuleProofs ----------------------------
(***************************************************************************)
(* Proofs about Capsule. For any sessions and images: a pin is published,  *)
(* and a reset that succeeds has replaced the container. For one session   *)
(* per repository: Ensure settles, and only a reset or a moved pin loses   *)
(* the container.                                                          *)
(***************************************************************************)
EXTENDS Capsule, TLAPS

(***************************************************************************)
(* A stage belongs to a job, so that what ends a stage well also says which*)
(* job has ended.                                                          *)
(***************************************************************************)
JobOf(st) ==
    CASE st \in {"default", "list", "inspect", "start"}            -> {"ensure"}
      [] st \in {"stop", "remove", "create", "pull", "recreate"}   -> {"ensure", "reset"}
      [] st \in {"commit", "push", "resolve", "update"}            -> {"freeze"}
      [] st = "toggle"                                             -> {"toggle"}
      [] OTHER -> {"none", "ensure", "reset", "freeze", "toggle"}

StagesFitJobs == \A s \in Sessions : job[s] \in JobOf(stage[s])

Functions ==
    /\ job \in [Sessions -> {"none", "ensure", "reset", "freeze", "toggle"}]
    /\ stage \in [Sessions -> Stages]
    /\ result \in [Sessions -> {"none", "ok", "error"}]
    /\ imageDigest \in [Sessions -> Images \union {NoImage}]
    /\ publishTo \in [Sessions -> BOOLEAN]
    /\ frozen \in [Sessions -> Images \union {NoImage}]
    /\ replaced \in [Sessions -> BOOLEAN]

Control == Functions /\ StagesFitJobs

-----------------------------------------------------------------------------
(***************************************************************************)
(* What the building blocks of the actions do to the control of a session. *)
(***************************************************************************)
Others(s) == \A t \in Sessions \ {s} :
    stage'[t] = stage[t] /\ job'[t] = job[t] /\ result'[t] = result[t]

LEMMA ProceedFacts ==
  ASSUME Control, NEW s \in Sessions, NEW from \in Stages, NEW to \in Stages,
         Proceed(s, from, to)
  PROVE  /\ Others(s) /\ UNCHANGED <<job, result>>
         /\ stage' \in [Sessions -> Stages] /\ stage[s] = from /\ stage'[s] = to
         /\ job[s] \in JobOf(to) => StagesFitJobs'
BY DEF Control, Functions, StagesFitJobs, Proceed, Others

LEMMA FinishFacts ==
  ASSUME Control, NEW s \in Sessions, NEW from \in Stages, NEW how \in {"ok", "error"},
         Finish(s, from, how)
  PROVE  /\ Others(s) /\ UNCHANGED job
         /\ stage' \in [Sessions -> Stages] /\ stage[s] = from /\ stage'[s] \in {"ready", "dead"}
         /\ result' \in [Sessions -> {"none", "ok", "error"}] /\ result'[s] = how
         /\ StagesFitJobs'
<1>1. stage'[s] \in {"ready", "dead"} /\ result'[s] = how /\ stage[s] = from /\ job' = job
  BY DEF Control, Functions, Finish
<1>2. Others(s)
  BY DEF Control, Functions, Finish, Others
<1>3. /\ stage' \in [Sessions -> Stages]
      /\ result' \in [Sessions -> {"none", "ok", "error"}]
  BY DEF Control, Functions, Finish, Stages
<1>4. StagesFitJobs'
  BY <1>1, <1>2 DEF Control, Functions, StagesFitJobs, Others, JobOf
<1>. QED
  BY <1>1, <1>2, <1>3, <1>4

-----------------------------------------------------------------------------
(***************************************************************************)
(* The types.                                                              *)
(***************************************************************************)
Flags ==
    /\ exists \in BOOLEAN /\ running \in BOOLEAN /\ online \in BOOLEAN
    /\ limited \in BOOLEAN /\ wanted \in BOOLEAN

Box ==
    /\ Flags
    /\ boxImage \in Images \union {NoImage}
    /\ running => exists
    /\ exists <=> boxImage # NoImage

ConfigOK ==
    /\ rc \in {"missing", "readable", "unreadable"}
    /\ pin \in Images \union {NoImage} /\ publishes \in BOOLEAN
    /\ rc = "readable" <=> pin # NoImage

Pins == ConfigOK /\ committed \subseteq Images /\ pushed \subseteq Images

\* A session that has been built has an image; one that freezes has committed one.
HasImage == \A s \in Sessions :
    stage[s] \notin {"absent", "default"} => imageDigest[s] \in Images
HasFrozen == \A s \in Sessions :
    stage[s] \in {"push", "resolve", "update"} => frozen[s] \in Images

TInv == Control /\ Box /\ Pins /\ HasImage /\ HasFrozen

LEMMA TInvInit == Init => TInv
<1>. SUFFICES ASSUME Init PROVE TInv
  OBVIOUS
<1>1. Control
  BY DEF Init, Control, Functions, StagesFitJobs, JobOf, Stages
<1>2. Flags
  BY Zenon DEF Init, Flags
<1>3. boxImage = NoImage /\ running = FALSE /\ exists = FALSE
  BY DEF Init
<1>4. Pins /\ HasImage /\ HasFrozen
  BY ImagesAssumption DEF Init, Pins, ConfigOK, HasImage, HasFrozen
<1>. QED
  BY <1>1, <1>2, <1>3, <1>4 DEF TInv, Box

LEMMA TInvTypes == TInv => TypeOK
<1>1. Flags => {exists, running, online, limited, wanted} \subseteq BOOLEAN
  BY Zenon DEF Flags
<1>. QED
  BY <1>1 DEF TInv, Control, Functions, Box, Pins, ConfigOK, TypeOK

Goes(s, from, to) ==
    Proceed(s, from, to) \/ Finish(s, from, "ok") \/ Finish(s, from, "error")

\* A session that goes on with its job, or ends it, keeps all but the box and the pins.
LEMMA MoveKeeps ==
  ASSUME TInv, NEW s \in Sessions, NEW from \in Stages \ {"absent", "default"}, NEW to \in Stages,
         Goes(s, from, to),
         job[s] \in JobOf(from) => job[s] \in JobOf(to),
         to \in {"push", "resolve", "update"} => frozen'[s] \in Images,
         imageDigest' = imageDigest, publishTo' = publishTo, replaced' \in [Sessions -> BOOLEAN],
         frozen' \in [Sessions -> Images \union {NoImage}],
         \A t \in Sessions \ {s} : frozen'[t] = frozen[t]
  PROVE  Control' /\ HasImage' /\ HasFrozen'
<1>1. /\ Others(s) /\ stage[s] = from /\ job' = job
      /\ stage' \in [Sessions -> Stages] /\ result' \in [Sessions -> {"none", "ok", "error"}]
      /\ stage'[s] \in {to, "ready", "dead"} /\ StagesFitJobs'
  <2>1. CASE Proceed(s, from, to)
    <3>1. job[s] \in JobOf(to)
      BY <2>1, ProceedFacts DEF TInv, Control, StagesFitJobs
    <3>. QED
      BY <2>1, <3>1, ProceedFacts DEF TInv, Control, Functions
  <2>2. CASE Finish(s, from, "ok")
    BY <2>2, FinishFacts DEF TInv
  <2>3. CASE Finish(s, from, "error")
    BY <2>3, FinishFacts DEF TInv
  <2>. QED
    BY <2>1, <2>2, <2>3 DEF Goes
<1>2. Control'
  BY <1>1 DEF TInv, Control, Functions
<1>3. HasImage'
  BY <1>1 DEF TInv, HasImage, Others
<1>4. HasFrozen'
  BY <1>1 DEF TInv, HasFrozen, Others
<1>. QED
  BY <1>2, <1>3, <1>4

\* A session that begins a job keeps the same, unless it is built anew.
LEMMA BeginKeeps ==
  ASSUME TInv, NEW s \in Sessions, NEW from \in Stages, NEW to \in Stages,
         NEW work \in {"ensure", "reset", "freeze", "toggle"}, work \in JobOf(to),
         to \notin {"absent", "push", "resolve", "update"},
         Begin(s, from, work, to), frozen' = frozen,
         imageDigest' \in [Sessions -> Images \union {NoImage}],
         publishTo' \in [Sessions -> BOOLEAN],
         \A t \in Sessions \ {s} : imageDigest'[t] = imageDigest[t],
         to = "default" \/ imageDigest'[s] \in Images
  PROVE  Control' /\ HasImage' /\ HasFrozen'
<1>1. /\ Others(s) /\ stage'[s] = to
      /\ job' \in [Sessions -> {"none", "ensure", "reset", "freeze", "toggle"}]
      /\ stage' \in [Sessions -> Stages] /\ result' \in [Sessions -> {"none", "ok", "error"}]
      /\ replaced' \in [Sessions -> BOOLEAN]
      /\ StagesFitJobs'
  <2>1. Others(s) /\ stage'[s] = to /\ job'[s] = work
    BY DEF TInv, Control, Functions, Begin, Others
  <2>2. /\ job' \in [Sessions -> {"none", "ensure", "reset", "freeze", "toggle"}]
        /\ stage' \in [Sessions -> Stages] /\ result' \in [Sessions -> {"none", "ok", "error"}]
        /\ replaced' \in [Sessions -> BOOLEAN]
    BY DEF TInv, Control, Functions, Begin
  <2>3. StagesFitJobs'
    BY <2>1 DEF TInv, Control, StagesFitJobs, Others
  <2>. QED
    BY <2>1, <2>2, <2>3
<1>2. Control'
  BY <1>1 DEF TInv, Control, Functions
<1>3. HasImage' /\ HasFrozen'
  BY <1>1 DEF TInv, HasImage, HasFrozen, Others
<1>. QED
  BY <1>2, <1>3

\* The daemon forgets all sessions.
LEMMA ForgetKeeps == ASSUME Forget PROVE Control' /\ HasImage' /\ HasFrozen'
BY DEF Forget, Control, Functions, StagesFitJobs, JobOf, Stages, HasImage, HasFrozen

LEMMA LocalKeeps ==
  ASSUME TInv, NEW s \in Sessions, NEW from \in Stages \ {"absent", "default"}, NEW to \in Stages,
         Goes(s, from, to), job[s] \in JobOf(from) => job[s] \in JobOf(to),
         to \in {"push", "resolve", "update"} => frozen[s] \in Images,
         UNCHANGED <<local, replaced>>
  PROVE  Control' /\ HasImage' /\ HasFrozen'
<1>1. /\ imageDigest' = imageDigest /\ publishTo' = publishTo /\ frozen' = frozen
      /\ replaced' \in [Sessions -> BOOLEAN] /\ frozen' \in [Sessions -> Images \union {NoImage}]
  BY DEF TInv, Control, Functions, local, settings
<1>. QED
  BY <1>1, MoveKeeps

\* A step that touches no container, no pin and nothing the session remembers.
LEMMA QuietKeeps ==
  ASSUME TInv, NEW s \in Sessions, NEW from \in Stages \ {"absent", "default"}, NEW to \in Stages,
         Goes(s, from, to), job[s] \in JobOf(from) => job[s] \in JobOf(to),
         to \in {"push", "resolve", "update"} => frozen[s] \in Images,
         UNCHANGED <<box, files, local, replaced>>
  PROVE  TInv'
<1>1. Control' /\ HasImage' /\ HasFrozen'
  BY LocalKeeps
<1>2. Box' /\ Pins'
  BY DEF TInv, Box, Flags, Pins, ConfigOK, box, files, config
<1>. QED
  BY <1>1, <1>2 DEF TInv

\* A session that begins a job of its own.
LEMMA AnewKeeps ==
  ASSUME TInv, NEW s \in Sessions, NEW to \in Stages,
         NEW work \in {"reset", "freeze", "toggle"}, work \in JobOf(to),
         to \notin {"absent", "push", "resolve", "update"},
         Begin(s, "ready", work, to), UNCHANGED <<box, files, local>>
  PROVE  TInv'
<1>1. /\ imageDigest' = imageDigest /\ frozen' = frozen
      /\ imageDigest' \in [Sessions -> Images \union {NoImage}]
      /\ publishTo' \in [Sessions -> BOOLEAN]
  BY DEF TInv, Control, Functions, local, settings
<1>2. imageDigest'[s] \in Images
  BY <1>1 DEF TInv, HasImage, Begin
<1>3. "ready" \in Stages
  BY DEF Stages
<1>4. Control' /\ HasImage' /\ HasFrozen'
  <2>1. \A t \in Sessions \ {s} : imageDigest'[t] = imageDigest[t]
    BY <1>1
  <2>. QED
    BY <1>1, <1>2, <1>3, <2>1, BeginKeeps
<1>5. Box' /\ Pins'
  BY DEF TInv, Box, Flags, Pins, ConfigOK, box, files, config
<1>. QED
  BY <1>4, <1>5 DEF TInv

\* However a write of .krellinrc ends, it keeps the types.
LEMMA WriteTypes ==
  ASSUME ConfigOK, NEW image \in Images, NEW publish \in BOOLEAN,
         WriteConfig(image, publish) \/ CutConfig(image, publish)
  PROVE  ConfigOK'
<1>. image # NoImage
  BY ImagesAssumption
<1>1. ASSUME NEW kept \in BOOLEAN, WriteConfig(image, kept)
      PROVE  ConfigOK'
  BY <1>1 DEF WriteConfig, ConfigOK
<1>2. CASE UNCHANGED config
  BY <1>2 DEF config, ConfigOK
<1>3. CASE rc' = "unreadable" /\ pin' = NoImage /\ publishes' = FALSE
  BY <1>3 DEF ConfigOK
<1>4. CASE \E kept \in {FALSE, publish} : WriteConfig(image, kept)
  BY <1>1, <1>4
<1>. QED
  BY <1>1, <1>2, <1>3, <1>4 DEF CutConfig

\* What a command does to the container and to the pins keeps their types.
LEMMA TInvSession ==
  ASSUME TInv, NEW s \in Sessions, Ensure(s) \/ Handle(s)
  PROVE  TInv'
<1>. USE DEF TInv
<1>1. CASE BuildSession(s)
  <2>1. PICK to \in {"list", "default"} :
            /\ Begin(s, "absent", "ensure", to)
            /\ to = "list" => /\ rc = "readable"
                              /\ imageDigest' = [imageDigest EXCEPT ![s] = pin]
                              /\ publishTo' = [publishTo EXCEPT ![s] = publishes]
            /\ to = "default" => UNCHANGED settings
    BY <1>1 DEF BuildSession
  <2>2. frozen' = frozen /\ UNCHANGED <<box, files>>
    BY <1>1 DEF BuildSession
  <2>3. /\ imageDigest' \in [Sessions -> Images \union {NoImage}]
        /\ publishTo' \in [Sessions -> BOOLEAN]
        /\ \A t \in Sessions \ {s} : imageDigest'[t] = imageDigest[t]
        /\ to = "default" \/ imageDigest'[s] \in Images
    <3>1. CASE to = "list"
      BY <2>1, <3>1 DEF Control, Functions, Pins, ConfigOK
    <3>2. CASE to = "default"
      BY <2>1, <3>2 DEF Control, Functions, settings
    <3>. QED
      BY <2>1, <3>1, <3>2
  <2>4. Control' /\ HasImage' /\ HasFrozen'
    BY <2>1, <2>2, <2>3, BeginKeeps DEF Stages, JobOf
  <2>5. Box' /\ Pins'
    BY <2>2 DEF Box, Flags, Pins, ConfigOK, box, files, config
  <2>. QED
    BY <2>4, <2>5
<1>0. CASE WriteDefault(s)
  <2>1. ConfigOK'
    BY <1>0, WriteTypes, ImagesAssumption DEF WriteDefault, Pins
  <2>2. UNCHANGED <<box, wanted, committed, pushed, frozen, replaced>>
    BY <1>0 DEF WriteDefault
  <2>3. Control'
    <3>1. ASSUME Proceed(s, "default", "list"),
                 imageDigest' = [imageDigest EXCEPT ![s] = BaseImage],
                 publishTo' = [publishTo EXCEPT ![s] = FALSE]
          PROVE  Control'
      <4>1. stage[s] = "default" /\ job[s] = "ensure"
        BY <3>1 DEF Proceed, Control, StagesFitJobs, JobOf
      <4>2. /\ UNCHANGED <<job, result>> /\ stage' \in [Sessions -> Stages]
            /\ StagesFitJobs'
        BY <3>1, <4>1, ProceedFacts DEF JobOf, Stages
      <4>. QED
        BY <2>2, <3>1, <4>2, ImagesAssumption DEF Control, Functions
    <3>2. CASE stage' = [stage EXCEPT ![s] = "absent"] /\ job' = [job EXCEPT ![s] = "none"]
               /\ UNCHANGED <<settings, result>>
      BY <2>2, <3>2 DEF Control, Functions, StagesFitJobs, JobOf, Stages, settings
    <3>. QED
      BY <1>0, <3>1, <3>2 DEF WriteDefault
  <2>4. HasImage' /\ HasFrozen'
    BY <1>0, <2>2, ImagesAssumption
       DEF WriteDefault, Proceed, settings, Control, Functions, HasImage, HasFrozen
  <2>5. Box' /\ Pins'
    BY <2>1, <2>2 DEF Box, Flags, Pins, box
  <2>. QED
    BY <2>3, <2>4, <2>5
<1>2. CASE List(s)
  <2>1. PICK to \in {"inspect", "create"} : Goes(s, "list", to)
    BY <1>2 DEF List, Goes
  <2>2. UNCHANGED <<box, files, local, replaced>>
    BY <1>2 DEF List
  <2>. QED
    BY <2>1, <2>2, QuietKeeps DEF Stages, JobOf
<1>3. CASE Inspect(s)
  <2>1. PICK to \in {"stop", "start"} : Goes(s, "inspect", to)
    BY <1>3 DEF Inspect, Goes
  <2>2. UNCHANGED <<box, files, local, replaced>>
    BY <1>3 DEF Inspect
  <2>. QED
    BY <2>1, <2>2, QuietKeeps DEF Stages, JobOf
<1>4. CASE StopBox(s)
  <2>1. Goes(s, "stop", "remove") /\ UNCHANGED <<local, replaced>>
    BY <1>4 DEF StopBox, Tolerate, Goes
  <2>2. Control' /\ HasImage' /\ HasFrozen'
    BY <2>1, LocalKeeps DEF Stages, JobOf
  <2>3. /\ UNCHANGED <<exists, boxImage, online, limited, files>>
        /\ running' = FALSE \/ running' = running
    BY <1>4 DEF StopBox
  <2>4. Flags'
    BY <2>3, Zenon DEF Box, Flags, files, config
  <2>5. Box' /\ Pins'
    BY <2>3, <2>4 DEF Box, Pins, ConfigOK, files, config
  <2>. QED
    BY <2>2, <2>5
<1>5. CASE RemoveBox(s)
  <2>1. Goes(s, "remove", "create") /\ UNCHANGED <<local, replaced>>
    BY <1>5 DEF RemoveBox, Tolerate, Goes
  <2>2. Control' /\ HasImage' /\ HasFrozen'
    BY <2>1, LocalKeeps DEF Stages, JobOf
  <2>3. UNCHANGED files /\ (Gone \/ UNCHANGED box)
    BY <1>5 DEF RemoveBox
  <2>4. Flags'
    BY <2>3, Zenon DEF Gone, Box, Flags, box, files, config
  <2>5. Box' /\ Pins'
    BY <2>3, <2>4 DEF Gone, Box, Pins, ConfigOK, box, files, config
  <2>. QED
    BY <2>2, <2>5
<1>6. ASSUME NEW from \in {"create", "recreate"}, NEW failed,
             failed => \E to \in {"pull", "create", "recreate"} : Goes(s, from, to),
             CreateBox(s, from, failed)
      PROVE  TInv'
  <2>1. UNCHANGED local /\ UNCHANGED files
    BY <1>6 DEF CreateBox
  <2>2. replaced' \in [Sessions -> BOOLEAN]
    BY <1>6 DEF CreateBox, Control, Functions
  <2>3. \/ /\ Goes(s, from, "start") /\ job[s] = "ensure"
        \/ \E to \in {"pull", "create", "recreate"} : Goes(s, from, to)
    BY <1>6 DEF CreateBox, Goes
  <2>4. /\ imageDigest' = imageDigest /\ publishTo' = publishTo /\ frozen' = frozen
        /\ frozen' \in [Sessions -> Images \union {NoImage}]
    BY <2>1 DEF local, settings, Control, Functions
  <2>5. Control' /\ HasImage' /\ HasFrozen' /\ stage[s] \notin {"absent", "default"}
    <3>1. PICK to \in {"pull", "create", "recreate", "start"} :
              Goes(s, from, to) /\ (to = "start" => job[s] = "ensure")
      BY <2>3
    <3>2. job[s] \in JobOf(from) => job[s] \in JobOf(to)
      BY <3>1 DEF JobOf
    <3>3. from \in Stages \ {"absent", "default"} /\ to \in Stages /\ to \notin {"push", "resolve", "update"}
      BY <3>1 DEF Stages
    <3>4. stage[s] = from
      BY <3>1 DEF Goes, Proceed, Finish
    <3>. QED
      BY <3>1, <3>2, <3>3, <3>4, <2>2, <2>4, MoveKeeps
  <2>6. \/ UNCHANGED box
        \/ /\ exists' = TRUE /\ running' = FALSE /\ boxImage' = imageDigest[s]
           /\ online' = (job[s] = "ensure") /\ limited' = (job[s] = "ensure")
    BY <1>6 DEF CreateBox
  <2>7. Flags'
    BY <2>1, <2>6, Zenon DEF Box, Flags, box, files, config
  <2>8. Box' /\ Pins'
    BY <2>1, <2>5, <2>6, <2>7, ImagesAssumption DEF Box, Pins, ConfigOK, HasImage, box, files, config
  <2>. QED
    BY <2>5, <2>8
<1>7. CASE Pull(s)
  <2>1. Goes(s, "pull", "recreate") /\ UNCHANGED <<box, files, local, replaced>>
    BY <1>7 DEF Pull, Goes
  <2>. QED
    BY <2>1, QuietKeeps DEF Stages, JobOf
<1>8. CASE Create(s)
  BY <1>6, <1>8 DEF Create, Goes
<1>9. CASE Recreate(s)
  BY <1>6, <1>9 DEF Recreate, Goes
<1>10. CASE StartBox(s)
  <2>1. Goes(s, "start", "start") /\ UNCHANGED <<local, replaced>>
    BY <1>10 DEF StartBox, Goes
  <2>2. Control' /\ HasImage' /\ HasFrozen'
    BY <2>1, LocalKeeps DEF Stages
  <2>3. /\ UNCHANGED <<exists, boxImage, online, limited, files>>
        /\ (exists /\ running' = TRUE) \/ running' = running
    BY <1>10 DEF StartBox
  <2>4. Flags'
    BY <2>3, Zenon DEF Box, Flags, files, config
  <2>5. Box' /\ Pins'
    BY <2>3, <2>4 DEF Box, Pins, ConfigOK, files, config
  <2>. QED
    BY <2>2, <2>5
<1>11. CASE BeginReset(s)
  <2>1. Begin(s, "ready", "reset", "stop") /\ UNCHANGED <<box, files, local>>
    BY <1>11 DEF BeginReset
  <2>. QED
    BY <2>1, AnewKeeps DEF JobOf, Stages
<1>12. CASE BeginFreeze(s)
  <2>1. Begin(s, "ready", "freeze", "commit") /\ UNCHANGED <<box, files, local>>
    BY <1>12 DEF BeginFreeze
  <2>. QED
    BY <2>1, AnewKeeps DEF JobOf, Stages
<1>13. CASE BeginToggle(s)
  <2>1. Begin(s, "ready", "toggle", "toggle") /\ UNCHANGED <<box, files, local>>
    BY <1>13 DEF BeginToggle
  <2>. QED
    BY <2>1, AnewKeeps DEF JobOf, Stages
<1>14. CASE Commit(s)
  <2>1. CASE Finish(s, "commit", "error") /\ UNCHANGED <<committed, frozen>>
    <3>1. Goes(s, "commit", "commit") /\ UNCHANGED <<box, files, local, replaced>>
      BY <1>14, <2>1 DEF Commit, Goes, files, config, local, settings
    <3>. QED
      BY <3>1, QuietKeeps DEF Stages
  <2>2. CASE \E i \in Images : /\ committed' = committed \union {i}
                               /\ frozen' = [frozen EXCEPT ![s] = i]
                               /\ Proceed(s, "commit", IF publishTo[s] THEN "push" ELSE "resolve")
    <3>1. PICK i \in Images : /\ committed' = committed \union {i}
                              /\ frozen' = [frozen EXCEPT ![s] = i]
                              /\ Proceed(s, "commit", IF publishTo[s] THEN "push" ELSE "resolve")
      BY <2>2
    <3>2. UNCHANGED <<box, config, wanted, pushed, settings, replaced>>
      BY <1>14 DEF Commit
    <3>3. /\ imageDigest' = imageDigest /\ publishTo' = publishTo
          /\ frozen' \in [Sessions -> Images \union {NoImage}] /\ frozen'[s] \in Images
          /\ \A t \in Sessions \ {s} : frozen'[t] = frozen[t]
          /\ replaced' \in [Sessions -> BOOLEAN]
      BY <3>1, <3>2 DEF Control, Functions, settings
    <3>4. PICK to \in {"push", "resolve"} : Goes(s, "commit", to)
      BY <3>1 DEF Goes
    <3>5. job[s] \in JobOf("commit") => job[s] \in JobOf(to)
      BY <3>4 DEF JobOf
    <3>6. Control' /\ HasImage' /\ HasFrozen'
      BY <3>2, <3>3, <3>4, <3>5, MoveKeeps DEF Stages
    <3>7. Box' /\ Pins'
      BY <3>1, <3>2 DEF Box, Flags, Pins, ConfigOK, box, config
    <3>. QED
      BY <3>6, <3>7
  <2>. QED
    BY <1>14, <2>1, <2>2 DEF Commit
<1>15. CASE Push(s)
  <2>1. Goes(s, "push", "resolve") /\ UNCHANGED <<box, config, wanted, committed, local, replaced>>
    BY <1>15 DEF Push, Goes
  <2>2. frozen[s] \in Images
    BY <2>1 DEF Goes, Proceed, Finish, HasFrozen
  <2>3. Control' /\ HasImage' /\ HasFrozen'
    BY <2>1, <2>2, LocalKeeps DEF Stages, JobOf
  <2>4. pushed' = pushed \/ pushed' = pushed \union {frozen[s]}
    BY <1>15 DEF Push
  <2>5. Box' /\ Pins'
    BY <2>1, <2>2, <2>4 DEF Box, Flags, Pins, ConfigOK, box, config
  <2>. QED
    BY <2>3, <2>5
<1>16. CASE ResolveDigest(s)
  <2>1. Goes(s, "resolve", "update") /\ UNCHANGED <<box, files, local, replaced>>
    BY <1>16 DEF ResolveDigest, Goes
  <2>2. frozen[s] \in Images
    BY <2>1 DEF Goes, Proceed, Finish, HasFrozen
  <2>. QED
    BY <2>1, <2>2, QuietKeeps DEF Stages, JobOf
<1>17. CASE UpdateImage(s)
  <2>1. Goes(s, "update", "update") /\ UNCHANGED <<box, wanted, committed, pushed, local, replaced>>
    BY <1>17 DEF UpdateImage, Goes
  <2>2. frozen[s] \in Images
    BY <2>1 DEF Goes, Proceed, Finish, HasFrozen
  <2>3. Control' /\ HasImage' /\ HasFrozen'
    BY <2>1, <2>2, LocalKeeps DEF Stages
  <2>4. ConfigOK'
    <3>1. CASE UNCHANGED config
      BY <3>1 DEF Pins, ConfigOK, config
    <3>2. CASE WriteConfig(frozen[s], publishes) \/ CutConfig(frozen[s], publishes)
      BY <2>2, <3>2, WriteTypes DEF Pins, ConfigOK
    <3>. QED
      BY <1>17, <3>1, <3>2 DEF UpdateImage
  <2>5. Box' /\ Pins'
    BY <2>1, <2>4 DEF Box, Flags, Pins, box
  <2>. QED
    BY <2>3, <2>5
<1>18. CASE SetNetwork(s)
  <2>1. /\ Goes(s, "toggle", "toggle")
        /\ UNCHANGED <<exists, running, boxImage, limited, config, committed, pushed, local, replaced>>
    BY <1>18 DEF SetNetwork, Goes
  <2>2. Control' /\ HasImage' /\ HasFrozen'
    BY <2>1, LocalKeeps DEF Stages
  <2>3. UNCHANGED <<online, wanted>> \/ \E enabled \in BOOLEAN : online' = enabled /\ wanted' = enabled
    BY <1>18 DEF SetNetwork
  <2>4. Flags'
    BY <2>1, <2>3, Zenon DEF Box, Flags
  <2>5. Box' /\ Pins'
    BY <2>1, <2>4 DEF Box, Pins, ConfigOK, config
  <2>. QED
    BY <2>2, <2>5
<1>. QED
  BY <1>0, <1>1, <1>2, <1>3, <1>4, <1>5, <1>7, <1>8, <1>9, <1>10, <1>11, <1>12, <1>13, <1>14,
     <1>15, <1>16, <1>17, <1>18 DEF Ensure, Handle

LEMMA TInvStep == TInv /\ [Next]_vars => TInv'
<1>. SUFFICES ASSUME TInv, [Next]_vars PROVE TInv'
  OBVIOUS
<1>1. ASSUME NEW s \in Sessions, Ensure(s) \/ Handle(s) PROVE TInv'
  BY <1>1, TInvSession
<1>c. ASSUME LeavesConfig PROVE ConfigOK'
  <2>1. CASE UNCHANGED config
    BY <2>1 DEF TInv, Pins, ConfigOK, config
  <2>2. CASE CutConfig(BaseImage, FALSE)
    BY <2>2, WriteTypes, ImagesAssumption DEF TInv, Pins
  <2>3. ASSUME NEW s \in Sessions, stage[s] = "update", CutConfig(frozen[s], publishes)
        PROVE  ConfigOK'
    <3>1. frozen[s] \in Images /\ publishes \in BOOLEAN
      BY <2>3 DEF TInv, HasFrozen, Pins, ConfigOK
    <3>. QED
      BY <2>3, <3>1, WriteTypes DEF TInv, Pins
  <2>. QED
    BY <1>c, <2>1, <2>2, <2>3 DEF LeavesConfig
<1>2. CASE DaemonDies
  <2>1. Control' /\ HasImage' /\ HasFrozen'
    BY <1>2, ForgetKeeps DEF DaemonDies
  <2>2. Box' /\ Pins'
    BY <1>2, <1>c DEF DaemonDies, TInv, Box, Flags, Pins, box
  <2>. QED
    BY <2>1, <2>2 DEF TInv
<1>3. CASE HostRestarts
  <2>1. Control' /\ HasImage' /\ HasFrozen'
    BY <1>3, ForgetKeeps DEF HostRestarts
  <2>2. /\ running' = FALSE /\ LeavesConfig
        /\ UNCHANGED <<exists, boxImage, online, limited, wanted, committed, pushed>>
    BY <1>3 DEF HostRestarts
  <2>3. Flags'
    BY <2>2, Zenon DEF TInv, Box, Flags
  <2>4. Box' /\ Pins'
    BY <2>2, <2>3, <1>c DEF TInv, Box, Pins
  <2>. QED
    BY <2>1, <2>4 DEF TInv
<1>4. CASE UNCHANGED vars
  BY <1>4 DEF vars, box, files, config, local, settings, TInv, Control, Functions, StagesFitJobs, Box, Flags,
              Pins, ConfigOK, HasImage, HasFrozen
<1>. QED
  BY <1>1, <1>2, <1>3, <1>4 DEF Next

LEMMA Typed == Spec => []TInv
BY TInvInit, TInvStep, PTL DEF Spec

\* Every variable keeps its type, whatever the sessions do to the capsule.
THEOREM TypeCorrect == Spec => []TypeOK
BY Typed, TInvTypes, PTL

-----------------------------------------------------------------------------
(***************************************************************************)
(* As long as .krellinrc sets freeze.publish, every session has read that, *)
(* and one whose freeze has gone past its push has pushed what it will pin.*)
(***************************************************************************)
PastPush(s) == stage[s] \in {"resolve", "update"}
Built(s) == stage[s] \notin {"absent", "default"}

PushedBeforePinned ==
    /\ publishes => rc = "readable" /\ pin \in pushed
    /\ publishes => \A s \in Sessions : Built(s) => publishTo[s]
    /\ \A s \in Sessions : PastPush(s) /\ publishTo[s] => frozen[s] \in pushed

LEMMA PushedInit == Init => PushedBeforePinned
BY DEF Init, PushedBeforePinned, PastPush, Built

\* A write of .krellinrc, whole or cut off, keeps freeze.publish or loses it, and pins
\* nothing new but its image.
LEMMA WriteFacts ==
  ASSUME NEW image, NEW publish \in BOOLEAN,
         WriteConfig(image, publish) \/ CutConfig(image, publish)
  PROVE  \/ UNCHANGED <<rc, pin, publishes>>
         \/ publishes' = FALSE
         \/ publishes' = publish /\ rc' = "readable" /\ pin' = image
BY DEF WriteConfig, CutConfig, config

\* A step that leaves the pin and what is pushed, and does not take a freeze past its push.
LEMMA PinStays ==
  ASSUME Control, PushedBeforePinned, NEW s \in Sessions,
         pushed \subseteq pushed', UNCHANGED <<config, settings>>,
         \A t \in Sessions \ {s} : stage'[t] = stage[t] /\ frozen'[t] = frozen[t],
         Built(s)' => Built(s),
         PastPush(s)' /\ publishTo[s] => frozen'[s] \in pushed'
  PROVE  PushedBeforePinned'
<1>1. \A t \in Sessions : Built(t)' => Built(t)
  BY DEF Built
<1>2. \A t \in Sessions : PastPush(t)' /\ publishTo[t] => frozen'[t] \in pushed'
  BY DEF PushedBeforePinned, PastPush
<1>. QED
  BY <1>1, <1>2 DEF PushedBeforePinned, config, settings

LEMMA EnsureLeavesPins ==
  ASSUME Control, PushedBeforePinned, NEW s \in Sessions, Ensure(s), ~BuildSession(s),
         ~WriteDefault(s)
  PROVE  PushedBeforePinned'
<1>1. UNCHANGED <<config, settings, pushed, frozen>>
  BY DEF Ensure, List, Inspect, StopBox, RemoveBox, Create, Pull, Recreate,
         StartBox, CreateBox, files, local
<1>2. \E from \in Stages \ {"absent", "default"}, to \in Stages \ {"resolve", "update"} :
          Goes(s, from, to)
  BY DEF Ensure, List, Inspect, StopBox, RemoveBox, Create, Pull, Recreate,
         StartBox, CreateBox, Tolerate, Goes, Stages
<1>3. /\ ~PastPush(s)' /\ Built(s)
      /\ \A t \in Sessions \ {s} : stage'[t] = stage[t]
  BY <1>2 DEF Goes, Proceed, Finish, Control, Functions, PastPush, Built
<1>. QED
  BY <1>1, <1>3, PinStays

LEMMA PushedSession ==
  ASSUME Control, publishes \in BOOLEAN, PushedBeforePinned, NEW s \in Sessions,
         Ensure(s) \/ Handle(s)
  PROVE  PushedBeforePinned'
<1>. USE DEF Control, Functions
<1>1. CASE BuildSession(s)
  <2>1. /\ UNCHANGED <<rc, pin, publishes, pushed, frozen>> /\ ~PastPush(s)'
        /\ \A t \in Sessions \ {s} : stage'[t] = stage[t] /\ publishTo'[t] = publishTo[t]
        /\ Built(s)' => publishTo'[s] = publishes
    BY <1>1 DEF BuildSession, Begin, files, config, settings, PastPush, Built
  <2>. QED
    BY <2>1 DEF PushedBeforePinned, PastPush, Built
<1>2. CASE WriteDefault(s)
  <2>1. /\ UNCHANGED <<pushed, frozen>> /\ ~PastPush(s)'
        /\ \A t \in Sessions \ {s} : stage'[t] = stage[t] /\ publishTo'[t] = publishTo[t]
        /\ Built(s)' => WriteConfig(BaseImage, FALSE)
        /\ WriteConfig(BaseImage, FALSE) \/ CutConfig(BaseImage, FALSE)
    BY <1>2 DEF WriteDefault, Proceed, settings, PastPush, Built
  <2>2. UNCHANGED <<rc, pin, publishes>> \/ publishes' = FALSE
    BY <2>1, WriteFacts
  <2>3. Built(s)' => publishes' = FALSE
    BY <2>1 DEF WriteConfig
  <2>. QED
    BY <2>1, <2>2, <2>3 DEF PushedBeforePinned, PastPush, Built
<1>3. CASE Ensure(s) /\ ~BuildSession(s) /\ ~WriteDefault(s)
  BY <1>3, EnsureLeavesPins
<1>4. CASE BeginReset(s) \/ BeginFreeze(s) \/ BeginToggle(s)
  <2>1. UNCHANGED <<config, settings, pushed, frozen>>
    BY <1>4 DEF BeginReset, BeginFreeze, BeginToggle, files, local
  <2>2. /\ \A t \in Sessions \ {s} : stage'[t] = stage[t]
        /\ Built(s) /\ ~PastPush(s)'
    BY <1>4 DEF BeginReset, BeginFreeze, BeginToggle, Begin, PastPush, Built
  <2>. QED
    BY <2>1, <2>2, PinStays
<1>5. CASE Commit(s)
  <2>1. /\ UNCHANGED <<config, settings, pushed>> /\ Built(s)
        /\ \A t \in Sessions \ {s} : stage'[t] = stage[t] /\ frozen'[t] = frozen[t]
        /\ ~(PastPush(s)' /\ publishTo[s])
    BY <1>5 DEF Commit, Proceed, Finish, PastPush, Built
  <2>. QED
    BY <2>1, PinStays
<1>6. CASE Push(s)
  <2>1. /\ UNCHANGED <<config, settings, frozen>> /\ Built(s) /\ pushed \subseteq pushed'
        /\ \A t \in Sessions \ {s} : stage'[t] = stage[t]
        /\ PastPush(s)' => frozen[s] \in pushed'
    BY <1>6 DEF Push, Proceed, Finish, local, PastPush, Built
  <2>. QED
    BY <2>1, PinStays
<1>7. CASE ResolveDigest(s)
  <2>1. /\ UNCHANGED <<config, settings, frozen, pushed>> /\ Built(s) /\ PastPush(s)
        /\ \A t \in Sessions \ {s} : stage'[t] = stage[t]
    BY <1>7 DEF ResolveDigest, Proceed, Finish, files, local, PastPush, Built
  <2>. QED
    BY <2>1, PinStays DEF PushedBeforePinned
<1>8. CASE UpdateImage(s)
  <2>1. /\ UNCHANGED <<publishTo, frozen, pushed>> /\ Built(s) /\ PastPush(s) /\ ~PastPush(s)'
        /\ \A t \in Sessions \ {s} : stage'[t] = stage[t]
    BY <1>8 DEF UpdateImage, Finish, local, settings, PastPush, Built
  <2>2. \/ UNCHANGED <<rc, pin, publishes>>
        \/ publishes' = FALSE
        \/ publishes' = publishes /\ rc' = "readable" /\ pin' = frozen[s]
    BY <1>8, WriteFacts DEF UpdateImage, config
  <2>3. publishes => frozen[s] \in pushed
    BY <2>1 DEF PushedBeforePinned
  <2>. QED
    BY <2>1, <2>2, <2>3 DEF PushedBeforePinned, PastPush, Built
<1>9. CASE SetNetwork(s)
  <2>1. UNCHANGED <<config, settings, pushed, frozen>>
    BY <1>9 DEF SetNetwork, local
  <2>2. /\ \A t \in Sessions \ {s} : stage'[t] = stage[t]
        /\ Built(s) /\ ~PastPush(s)'
    BY <1>9 DEF SetNetwork, Finish, PastPush, Built
  <2>. QED
    BY <2>1, <2>2, PinStays
<1>. QED
  BY <1>1, <1>2, <1>3, <1>4, <1>5, <1>6, <1>7, <1>8, <1>9 DEF Handle

LEMMA PushedStep == TInv /\ PushedBeforePinned /\ [Next]_vars => PushedBeforePinned'
<1>. SUFFICES ASSUME TInv, PushedBeforePinned, [Next]_vars PROVE PushedBeforePinned'
  OBVIOUS
<1>0. Control /\ publishes \in BOOLEAN
  BY DEF TInv, Pins, ConfigOK
<1>1. ASSUME NEW s \in Sessions, Ensure(s) \/ Handle(s) PROVE PushedBeforePinned'
  BY <1>0, <1>1, PushedSession
<1>2. CASE DaemonDies \/ HostRestarts
  <2>1. LeavesConfig /\ pushed' = pushed /\ Forget
    BY <1>2 DEF DaemonDies, HostRestarts
  <2>2. \A s \in Sessions : ~PastPush(s)' /\ ~Built(s)'
    BY <2>1 DEF Forget, PastPush, Built
  <2>3. \/ UNCHANGED <<rc, pin, publishes>>
        \/ publishes' = FALSE
        \/ \E s \in Sessions : /\ stage[s] = "update" /\ publishes' = publishes
                               /\ rc' = "readable" /\ pin' = frozen[s]
    BY <1>0, <2>1, WriteFacts DEF LeavesConfig, config
  <2>4. publishes => \A s \in Sessions : stage[s] = "update" => frozen[s] \in pushed
    BY DEF PushedBeforePinned, PastPush, Built
  <2>. QED
    BY <2>1, <2>2, <2>3, <2>4 DEF PushedBeforePinned
<1>3. CASE UNCHANGED vars
  BY <1>3 DEF vars, files, config, local, settings, PushedBeforePinned, PastPush, Built
<1>. QED
  BY <1>1, <1>2, <1>3 DEF Next

\* As long as .krellinrc sets freeze.publish it pins an image that the registry has: every
\* way through freeze pushes before it pins, and a file that is cut off before the setting
\* does not have it: PinIsPublished.
THEOREM PinsArePublished == Spec => []PinIsPublished
<1>1. PushedBeforePinned => PinIsPublished
  BY DEF PushedBeforePinned, PinIsPublished
<1>. QED
  BY <1>1, Typed, PushedInit, PushedStep, PTL DEF Spec

-----------------------------------------------------------------------------
(***************************************************************************)
(* A reset can only succeed at a docker create.                            *)
(***************************************************************************)
\* The step leaves what other sessions have done, and s has not just
\* succeeded with a reset unless it made the container.
NoHollowReset(s) ==
    /\ \A t \in Sessions \ {s} :
           job'[t] = job[t] /\ result'[t] = result[t] /\ replaced'[t] = replaced[t]
    /\ \/ job'[s] = job[s] /\ result'[s] = result[s] /\ replaced'[s] = replaced[s]
       \/ job'[s] # "reset" \/ result'[s] # "ok" \/ replaced'[s] = TRUE

LEMMA NoHollowResets ==
  ASSUME Control, NEW s \in Sessions, Ensure(s) \/ Handle(s)
  PROVE  NoHollowReset(s)
<1>. USE DEF Control, Functions, NoHollowReset
<1>1. CASE BuildSession(s) \/ BeginReset(s) \/ BeginFreeze(s) \/ BeginToggle(s)
  BY <1>1 DEF BuildSession, BeginReset, BeginFreeze, BeginToggle, Begin
<1>2. ASSUME NEW from, NEW failed, CreateBox(s, from, failed),
             failed => (\E to : Proceed(s, from, to)) \/ Finish(s, from, "error")
      PROVE  NoHollowReset(s)
  BY <1>2 DEF CreateBox, Proceed, Finish
<1>3. CASE Create(s) \/ Recreate(s)
  BY <1>2, <1>3 DEF Create, Recreate
<1>4. CASE List(s) \/ StopBox(s) \/ RemoveBox(s) \/ Pull(s) \/ Commit(s) \/ Push(s) \/ ResolveDigest(s)
  <2>1. UNCHANGED replaced
    BY <1>4 DEF List, StopBox, RemoveBox, Pull, Commit, Push, ResolveDigest
  <2>2. \E from : (\E to : Proceed(s, from, to)) \/ Finish(s, from, "error")
    BY <1>4 DEF List, StopBox, RemoveBox, Pull, Commit, Push, ResolveDigest, Tolerate
  <2>. QED
    BY <2>1, <2>2 DEF Proceed, Finish
<1>5. CASE Inspect(s) \/ StartBox(s) \/ UpdateImage(s) \/ SetNetwork(s)
  <2>1. UNCHANGED replaced
    BY <1>5 DEF Inspect, StartBox, UpdateImage, SetNetwork
  <2>2. \E from \in {"inspect", "start", "update", "toggle"} :
            (\E to : Proceed(s, from, to)) \/ (\E how : Finish(s, from, how))
    BY <1>5 DEF Inspect, StartBox, UpdateImage, SetNetwork
  <2>3. job[s] # "reset"
    BY <2>2 DEF Proceed, Finish, StagesFitJobs, JobOf
  <2>. QED
    BY <2>1, <2>2, <2>3 DEF Proceed, Finish
<1>6. CASE WriteDefault(s)
  <2>1. /\ \A t \in Sessions \ {s} :
              job'[t] = job[t] /\ result'[t] = result[t] /\ replaced'[t] = replaced[t]
        /\ result'[s] = result[s] /\ replaced'[s] = replaced[s] /\ job[s] = "ensure"
        /\ job'[s] \in {"ensure", "none"}
    BY <1>6 DEF WriteDefault, Proceed, StagesFitJobs, JobOf
  <2>. QED
    BY <2>1
<1>. QED
  BY <1>1, <1>3, <1>4, <1>5, <1>6 DEF Ensure, Handle

LEMMA ResetStep == Control /\ ResetReplaces /\ [Next]_vars => ResetReplaces'
<1>. SUFFICES ASSUME Control, ResetReplaces, [Next]_vars PROVE ResetReplaces'
  OBVIOUS
<1>1. ASSUME NEW s \in Sessions, Ensure(s) \/ Handle(s) PROVE ResetReplaces'
  BY <1>1, NoHollowResets DEF NoHollowReset, ResetReplaces, Succeeded
<1>2. CASE DaemonDies \/ HostRestarts
  BY <1>2 DEF DaemonDies, HostRestarts, Forget, ResetReplaces, Succeeded
<1>3. CASE UNCHANGED vars
  BY <1>3 DEF vars, local, settings, ResetReplaces, Succeeded
<1>. QED
  BY <1>1, <1>2, <1>3 DEF Next

\* A reset that reports success has made a new container, although its stop
\* and its rm may both have failed unnoticed.
THEOREM ResetsReplace == Spec => []ResetReplaces
<1>1. Init => ResetReplaces
  BY DEF Init, ResetReplaces, Succeeded
<1>2. TInv => Control
  BY DEF TInv
<1>. QED
  BY <1>1, <1>2, Typed, ResetStep, PTL DEF Spec

-----------------------------------------------------------------------------
(***************************************************************************)
(* One session per repository: what its Ensure has seen of the container   *)
(* still holds when it acts on it.                                         *)
(***************************************************************************)
OneSession == \A s, t \in Sessions : s = t

Fresh(s) ==
    /\ stage[s] = "start" => boxImage = imageDigest[s]
    /\ stage[s] \in {"stop", "remove"} /\ job[s] = "ensure" => boxImage # imageDigest[s]

SeenHolds == \A s \in Sessions : Fresh(s)

LEMMA SeenInit == Init => SeenHolds
BY DEF Init, SeenHolds, Fresh

LEMMA SeenSession ==
  ASSUME Control, SeenHolds, NEW s \in Sessions, Ensure(s) \/ Handle(s)
  PROVE  Fresh(s)'
<1>. USE DEF Control, Functions
<1>1. CASE BuildSession(s) \/ BeginReset(s) \/ BeginFreeze(s) \/ BeginToggle(s)
  BY <1>1 DEF BuildSession, BeginReset, BeginFreeze, BeginToggle, Begin, Fresh
<1>2. CASE Inspect(s)
  <2>1. UNCHANGED <<job, boxImage, imageDigest>>
    BY <1>2 DEF Inspect, Proceed, Finish, box, local, settings
  <2>2. \/ Stale(s) /\ stage'[s] = "stop"
        \/ ~Stale(s) /\ stage'[s] = "start"
        \/ stage'[s] \in {"ready", "dead"}
    BY <1>2 DEF Inspect, Proceed, Finish
  <2>. QED
    BY <2>1, <2>2 DEF Fresh, Stale
<1>3. CASE StopBox(s)
  <2>1. UNCHANGED <<job, boxImage, imageDigest>>
    BY <1>3 DEF StopBox, Tolerate, Proceed, Finish, local, settings
  <2>2. stage[s] = "stop" /\ stage'[s] \in {"remove", "ready", "dead"}
    BY <1>3 DEF StopBox, Tolerate, Proceed, Finish
  <2>. QED
    BY <2>1, <2>2 DEF Fresh, SeenHolds
<1>4. ASSUME NEW from \in {"create", "recreate"}, NEW failed, CreateBox(s, from, failed),
             failed => Proceed(s, from, "recreate") \/ Proceed(s, from, "pull") \/ Finish(s, from, "error")
      PROVE  Fresh(s)'
  <2>1. imageDigest' = imageDigest
    BY <1>4 DEF CreateBox, local, settings
  <2>2. \/ boxImage' = imageDigest[s] /\ stage'[s] \in {"start", "ready", "dead"}
        \/ stage'[s] \in {"recreate", "pull", "ready", "dead"}
    BY <1>4 DEF CreateBox, Proceed, Finish
  <2>. QED
    BY <2>1, <2>2 DEF Fresh
<1>5. CASE Create(s) \/ Recreate(s)
  BY <1>4, <1>5 DEF Create, Recreate
<1>6. CASE \/ List(s) \/ RemoveBox(s) \/ Pull(s) \/ StartBox(s) \/ Commit(s) \/ Push(s)
           \/ ResolveDigest(s) \/ UpdateImage(s) \/ SetNetwork(s)
  <2>1. \E from \in Stages, to \in Stages \ {"start", "stop", "remove"} :
            Proceed(s, from, to) \/ (\E how : Finish(s, from, how))
    BY <1>6 DEF List, RemoveBox, Pull, StartBox, Commit, Push, ResolveDigest, UpdateImage,
                SetNetwork, Tolerate, Stages
  <2>2. stage'[s] \notin {"start", "stop", "remove"}
    BY <2>1 DEF Proceed, Finish
  <2>. QED
    BY <2>2 DEF Fresh
<1>7. CASE WriteDefault(s)
  BY <1>7 DEF WriteDefault, Proceed, Fresh
<1>. QED
  BY <1>1, <1>2, <1>3, <1>5, <1>6, <1>7 DEF Ensure, Handle

LEMMA SeenStep == OneSession /\ Control /\ SeenHolds /\ [Next]_vars => SeenHolds'
<1>. SUFFICES ASSUME OneSession, Control, SeenHolds, [Next]_vars PROVE SeenHolds'
  OBVIOUS
<1>1. ASSUME NEW s \in Sessions, Ensure(s) \/ Handle(s) PROVE SeenHolds'
  BY <1>1, SeenSession DEF SeenHolds, OneSession
<1>2. CASE DaemonDies \/ HostRestarts
  BY <1>2 DEF DaemonDies, HostRestarts, Forget, SeenHolds, Fresh
<1>3. CASE UNCHANGED vars
  BY <1>3 DEF vars, box, local, settings, SeenHolds, Fresh
<1>. QED
  BY <1>1, <1>2, <1>3 DEF Next

LEMMA SettlesStep ==
  ASSUME OneSession, Control, SeenHolds, [Next]_vars, NEW s \in Sessions,
         job[s] = "ensure", result[s] = "none", result'[s] = "ok"
  PROVE  running' /\ boxImage' = imageDigest[s]
<1>. USE DEF Control, Functions
<1>1. CASE Ensure(s) \/ Handle(s)
  <2>1. CASE BuildSession(s) \/ BeginReset(s) \/ BeginFreeze(s) \/ BeginToggle(s)
    BY <2>1 DEF BuildSession, BeginReset, BeginFreeze, BeginToggle, Begin
  <2>2. CASE \/ List(s) \/ StopBox(s) \/ RemoveBox(s) \/ Pull(s) \/ Commit(s) \/ Push(s)
             \/ ResolveDigest(s) \/ Create(s) \/ Recreate(s)
    <3>1. \E from : (\E to : Proceed(s, from, to)) \/ Finish(s, from, "error")
      BY <2>2 DEF List, StopBox, RemoveBox, Pull, Commit, Push, ResolveDigest, Create,
                  Recreate, CreateBox, Tolerate
    <3>. QED
      BY <3>1 DEF Proceed, Finish
  <2>3. CASE UpdateImage(s) \/ SetNetwork(s)
    <3>1. stage[s] \in {"update", "toggle"}
      BY <2>3 DEF UpdateImage, SetNetwork, Finish
    <3>. QED
      BY <3>1 DEF StagesFitJobs, JobOf
  <2>4. CASE Inspect(s)
    BY <2>4 DEF Inspect, Stale, Proceed, Finish, box
  <2>5. CASE StartBox(s)
    <3>1. stage[s] = "start" /\ running' = TRUE /\ boxImage' = boxImage
      BY <2>5 DEF StartBox, Finish
    <3>. QED
      BY <3>1 DEF SeenHolds, Fresh
  <2>6. CASE WriteDefault(s)
    <3>1. result'[s] = result[s]
      BY <2>6 DEF WriteDefault, Proceed
    <3>. QED
      BY <3>1
  <2>. QED
    BY <1>1, <2>1, <2>2, <2>3, <2>4, <2>5, <2>6 DEF Ensure, Handle
<1>2. CASE DaemonDies \/ HostRestarts
  BY <1>2 DEF DaemonDies, HostRestarts, Forget
<1>3. CASE UNCHANGED vars
  BY <1>3 DEF vars
<1>. QED
  BY <1>1, <1>2, <1>3 DEF Next, OneSession

\* However the daemon and the host went down before, a session whose start
\* succeeds has a running capsule of the image it read from .krellinrc.
THEOREM EnsuresSettle == ASSUME OneSession PROVE Spec => EnsureSettles
<1>1. TInv => Control
  BY DEF TInv
<1>2. Control /\ SeenHolds /\ [Next]_vars
        => [\A s \in Sessions : job[s] = "ensure" /\ result[s] = "none" /\ result'[s] = "ok"
                => running' /\ boxImage' = imageDigest[s]]_vars
  BY SettlesStep
<1>3. Control /\ SeenHolds /\ [Next]_vars => SeenHolds'
  BY SeenStep
<1>. QED
  BY <1>1, <1>2, <1>3, Typed, SeenInit, PTL DEF Spec, EnsureSettles

LEMMA PersistsStep ==
  ASSUME Control, SeenHolds, [Next]_vars, exists, ~exists'
  PROVE  \E s \in Sessions : job[s] = "reset" \/ boxImage # imageDigest[s]
<1>. USE DEF Control, Functions
<1>1. ASSUME NEW s \in Sessions, RemoveBox(s)
      PROVE  job[s] = "reset" \/ boxImage # imageDigest[s]
  <2>1. stage[s] = "remove"
    BY <1>1 DEF RemoveBox, Tolerate, Proceed, Finish
  <2>. QED
    BY <2>1 DEF StagesFitJobs, JobOf, SeenHolds, Fresh
<1>2. ASSUME NEW s \in Sessions, Ensure(s) \/ Handle(s) PROVE RemoveBox(s)
  BY <1>2 DEF Ensure, Handle, BuildSession, WriteDefault, List, Inspect, StopBox, Create, Pull, Recreate,
              CreateBox, StartBox, BeginReset, BeginFreeze, Commit, Push, ResolveDigest,
              UpdateImage, BeginToggle, SetNetwork, box
<1>3. CASE DaemonDies \/ HostRestarts \/ UNCHANGED vars
  BY <1>3 DEF DaemonDies, HostRestarts, vars, box
<1>. QED
  BY <1>1, <1>2, <1>3 DEF Next

\* Only a reset, or a pin that moved, takes the container away.
THEOREM CapsulesPersist == ASSUME OneSession PROVE Spec => CapsulePersists
<1>1. TInv => Control
  BY DEF TInv
<1>2. Control /\ SeenHolds /\ [Next]_vars
        => [exists /\ ~exists' =>
               \E s \in Sessions : job[s] = "reset" \/ boxImage # imageDigest[s]]_vars
  BY PersistsStep
<1>3. Control /\ SeenHolds /\ [Next]_vars => SeenHolds'
  BY SeenStep
<1>. QED
  BY <1>1, <1>2, <1>3, Typed, SeenInit, PTL DEF Spec, CapsulePersists
=============================================================================
