------------------------------ MODULE Capsule ------------------------------
(***************************************************************************)
(* The docker container of one repository and the sessions that drive it:  *)
(* capsule/docker/docker.go at the granularity of its docker commands, the *)
(* capsule part of Session.Start and of the reset, freeze and              *)
(* network_toggle handlers, and .krellinrc with the image that it pins, as *)
(* BuildSession and freeze read and write it.  A write of that file        *)
(* truncates it first, and may fail or be cut off by the end of the daemon.*)
(* That the user edits .krellinrc is left out.                             *)
(*                                                                         *)
(* The executor makes a session do one job at a time.  Usually one session *)
(* serves a repository, over several lives of the daemon; the daemon can   *)
(* also end up with two (see Daemon).  Every docker command may fail; what *)
(* a command needs (the name free, the container there) is its guard.      *)
(***************************************************************************)
EXTENDS Integers, FiniteSets

CONSTANTS
    Sessions,
    Images,       \* digests that can be pinned
    BaseImage,    \* the digest of ubuntu:latest, which .krellinrc starts with
    NoImage,
    Publishes     \* does the user's .krellinrc set freeze.publish?

ASSUME ImagesAssumption ==
    BaseImage \in Images /\ NoImage \notin Images /\ Publishes \in BOOLEAN

VARIABLES
    exists,       \* is there a container with the capsule's name?
    running,      \* is it running?
    boxImage,     \* the image it was created from
    online,       \* is it connected to a network (policy.network is "on")?
    limited,      \* was it created with the configured user, CPUs and memory?
    rc,           \* .krellinrc: "missing", "readable" or "unreadable"
    pin,          \* capsule.image in it, if it is readable
    publishes,    \* is freeze.publish set in it?
    wanted,       \* history: the last network_toggle that succeeded
    committed,    \* images freeze has committed so far
    pushed,       \* history: images pushed to the registry
    job,          \* what each session is doing, or did last
    stage,        \* the command its job has come to
    result,       \* how its last job ended
    imageDigest,  \* s.imageDigest
    publishTo,    \* is s.publishTo set?
    frozen,       \* the image a freeze under way has committed
    replaced      \* history: the container was created by the current job

box == <<exists, running, boxImage, online, limited>>
config == <<rc, pin, publishes>>
files == <<config, wanted, committed, pushed>>
settings == <<imageDigest, publishTo>>
local == <<settings, frozen>>
vars == <<box, files, job, stage, result, local, replaced>>

Stages == {"absent", "default", "list", "inspect", "stop", "remove", "create", "pull",
           "recreate", "start", "commit", "push", "resolve", "update",
           "toggle", "ready", "dead"}

Init ==
    /\ exists = FALSE /\ running = FALSE /\ boxImage = NoImage
    /\ online = FALSE /\ limited = FALSE
    /\ \/ rc = "missing" /\ pin = NoImage /\ publishes = FALSE
       \/ rc = "readable" /\ pin = BaseImage /\ publishes = Publishes
    /\ wanted = TRUE
    /\ committed = {BaseImage} /\ pushed = {BaseImage}
    /\ job = [s \in Sessions |-> "none"]
    /\ stage = [s \in Sessions |-> "absent"]
    /\ result = [s \in Sessions |-> "none"]
    /\ imageDigest = [s \in Sessions |-> NoImage]
    /\ publishTo = [s \in Sessions |-> FALSE]
    /\ frozen = [s \in Sessions |-> NoImage]
    /\ replaced = [s \in Sessions |-> FALSE]

-----------------------------------------------------------------------------
Proceed(s, from, to) ==
    /\ stage[s] = from
    /\ stage' = [stage EXCEPT ![s] = to]
    /\ UNCHANGED <<job, result>>

\* A session whose Ensure fails stays registered but gets no executor.
Finish(s, from, how) ==
    /\ stage[s] = from
    /\ stage' = [stage EXCEPT ![s] =
                    IF job[s] = "ensure" /\ how = "error" THEN "dead" ELSE "ready"]
    /\ result' = [result EXCEPT ![s] = how]
    /\ UNCHANGED job

Begin(s, from, work, to) ==
    /\ stage[s] = from
    /\ stage' = [stage EXCEPT ![s] = to]
    /\ job' = [job EXCEPT ![s] = work]
    /\ result' = [result EXCEPT ![s] = "none"]
    /\ replaced' = [replaced EXCEPT ![s] = FALSE]

\* Ensure gives up when a command fails; Reset ignores its stop and its rm.
Tolerate(s, from, to) ==
    IF job[s] = "reset" THEN Proceed(s, from, to) ELSE Finish(s, from, "error")

-----------------------------------------------------------------------------
\* config.Write: the whole file; or, if it fails or is cut off, the file as it was, one
\* that cannot be read, or as much of the new one as has its image (Validate asks for no
\* more) with or without freeze.publish, which comes later.
WriteConfig(image, publish) ==
    rc' = "readable" /\ pin' = image /\ publishes' = publish

CutConfig(image, publish) ==
    \/ UNCHANGED config
    \/ rc' = "unreadable" /\ pin' = NoImage /\ publishes' = FALSE
    \/ \E kept \in {FALSE, publish} : WriteConfig(image, kept)

\* BuildSession reads the settings, if there is a file that can be read; else there is no
\* session. Start calls Ensure.
BuildSession(s) ==
    /\ \/ /\ rc = "readable"
          /\ Begin(s, "absent", "ensure", "list")
          /\ imageDigest' = [imageDigest EXCEPT ![s] = pin]
          /\ publishTo' = [publishTo EXCEPT ![s] = publishes]
       \/ /\ rc = "missing"
          /\ Begin(s, "absent", "ensure", "default")
          /\ UNCHANGED settings
    /\ UNCHANGED <<box, files, frozen>>

\* Without a file BuildSession resolves the default image and writes a file that pins it.
WriteDefault(s) ==
    /\ \/ /\ WriteConfig(BaseImage, FALSE)
          /\ Proceed(s, "default", "list")
          /\ imageDigest' = [imageDigest EXCEPT ![s] = BaseImage]
          /\ publishTo' = [publishTo EXCEPT ![s] = FALSE]
       \/ /\ CutConfig(BaseImage, FALSE)
          /\ stage[s] = "default"
          /\ stage' = [stage EXCEPT ![s] = "absent"] /\ job' = [job EXCEPT ![s] = "none"]
          /\ UNCHANGED <<settings, result>>
    /\ UNCHANGED <<box, wanted, committed, pushed, frozen, replaced>>

List(s) ==
    /\ \/ Proceed(s, "list", IF exists THEN "inspect" ELSE "create")
       \/ Finish(s, "list", "error")
    /\ UNCHANGED <<box, files, local, replaced>>

NeverStale(s) == FALSE
AlwaysStale(s) == TRUE
Stale(s) == boxImage # imageDigest[s]

Inspect(s) ==
    /\ \/ /\ exists /\ Stale(s)
          /\ Proceed(s, "inspect", "stop")
       \/ /\ exists /\ ~Stale(s) /\ ~running
          /\ Proceed(s, "inspect", "start")
       \/ /\ exists /\ ~Stale(s) /\ running
          /\ Finish(s, "inspect", "ok")
       \/ Finish(s, "inspect", "error")
    /\ UNCHANGED <<box, files, local, replaced>>

StopBox(s) ==
    /\ \/ exists /\ running' = FALSE /\ Proceed(s, "stop", "remove")
       \/ UNCHANGED running /\ Tolerate(s, "stop", "remove")
    /\ UNCHANGED <<exists, boxImage, online, limited, files, local, replaced>>

Gone ==
    /\ exists' = FALSE /\ boxImage' = NoImage
    /\ running' = FALSE /\ online' = FALSE /\ limited' = FALSE

RemoveBox(s) ==
    /\ \/ /\ Gone
          /\ Proceed(s, "remove", "create")
       \/ UNCHANGED box /\ Tolerate(s, "remove", "create")
    /\ UNCHANGED <<files, local, replaced>>

\* docker create: refused while a container has the name.  Ensure starts what
\* it created; Reset does not, and creates it without the session's settings.
CreateBox(s, from, failed) ==
    /\ \/ /\ ~exists
          /\ exists' = TRUE /\ running' = FALSE
          /\ boxImage' = imageDigest[s]
          /\ online' = (job[s] = "ensure") /\ limited' = (job[s] = "ensure")
          /\ replaced' = [replaced EXCEPT ![s] = TRUE]
          /\ IF job[s] = "ensure" THEN Proceed(s, from, "start")
                                  ELSE Finish(s, from, "ok")
       \/ UNCHANGED <<box, replaced>> /\ failed
    /\ UNCHANGED <<files, local>>

Create(s) == CreateBox(s, "create", Proceed(s, "create", "pull"))
RetryErrorIgnored(s) == CreateBox(s, "recreate", Finish(s, "recreate", "ok"))
Recreate(s) == CreateBox(s, "recreate", Finish(s, "recreate", "error"))

Pull(s) ==
    /\ Proceed(s, "pull", "recreate") \/ Finish(s, "pull", "error")
    /\ UNCHANGED <<box, files, local, replaced>>

StartBox(s) ==
    /\ \/ exists /\ running' = TRUE /\ Finish(s, "start", "ok")
       \/ UNCHANGED running /\ Finish(s, "start", "error")
    /\ UNCHANGED <<exists, boxImage, online, limited, files, local, replaced>>

Ensure(s) ==
    \/ BuildSession(s) \/ WriteDefault(s) \/ List(s) \/ Inspect(s) \/ StopBox(s) \/ RemoveBox(s)
    \/ Create(s) \/ Pull(s) \/ Recreate(s) \/ StartBox(s)

-----------------------------------------------------------------------------
BeginReset(s) ==
    /\ Begin(s, "ready", "reset", "stop")
    /\ UNCHANGED <<box, files, local>>

BeginFreeze(s) ==
    /\ Begin(s, "ready", "freeze", "commit")
    /\ UNCHANGED <<box, files, local>>

Commit(s) ==
    /\ \/ \E i \in Images \ committed :
             /\ exists
             /\ committed' = committed \union {i}
             /\ frozen' = [frozen EXCEPT ![s] = i]
             /\ Proceed(s, "commit", IF publishTo[s] THEN "push" ELSE "resolve")
       \/ UNCHANGED <<committed, frozen>> /\ Finish(s, "commit", "error")
    /\ UNCHANGED <<box, config, wanted, pushed, settings, replaced>>

PushErrorIgnored(s) ==
    /\ \/ pushed' = pushed \union {frozen[s]}
       \/ UNCHANGED pushed
    /\ Proceed(s, "push", "resolve")
    /\ UNCHANGED <<box, config, wanted, committed, local, replaced>>

Push(s) ==
    /\ \/ pushed' = pushed \union {frozen[s]} /\ Proceed(s, "push", "resolve")
       \/ UNCHANGED pushed /\ Finish(s, "push", "error")
    /\ UNCHANGED <<box, config, wanted, committed, local, replaced>>

ResolveDigest(s) ==
    /\ Proceed(s, "resolve", "update") \/ Finish(s, "resolve", "error")
    /\ UNCHANGED <<box, files, local, replaced>>

\* The pin changes on disk; s.imageDigest does not follow.
UpdateImage(s) ==
    /\ \/ /\ rc = "readable" /\ WriteConfig(frozen[s], publishes)
          /\ Finish(s, "update", "ok")
       \/ /\ IF rc = "readable" THEN CutConfig(frozen[s], publishes) ELSE UNCHANGED config
          /\ Finish(s, "update", "error")
    /\ UNCHANGED <<box, wanted, committed, pushed, local, replaced>>

BeginToggle(s) ==
    /\ Begin(s, "ready", "toggle", "toggle")
    /\ UNCHANGED <<box, files, local>>

\* docker network connect or disconnect; neither the session nor .krellinrc
\* learns of it.
SetNetwork(s) ==
    /\ \/ \E enabled \in BOOLEAN :
             exists /\ online' = enabled /\ wanted' = enabled /\ Finish(s, "toggle", "ok")
       \/ UNCHANGED <<online, wanted>> /\ Finish(s, "toggle", "error")
    /\ UNCHANGED <<exists, running, boxImage, limited, config, committed, pushed, local, replaced>>

Handle(s) ==
    \/ BeginReset(s) \/ BeginFreeze(s) \/ Commit(s) \/ Push(s)
    \/ ResolveDigest(s) \/ UpdateImage(s) \/ BeginToggle(s) \/ SetNetwork(s)

-----------------------------------------------------------------------------
\* The daemon dies, between any two docker commands or in the middle of a write of
\* .krellinrc; the container stays.
Forget ==
    /\ job' = [s \in Sessions |-> "none"]
    /\ stage' = [s \in Sessions |-> "absent"]
    /\ result' = [s \in Sessions |-> "none"]
    /\ imageDigest' = [s \in Sessions |-> NoImage]
    /\ publishTo' = [s \in Sessions |-> FALSE]
    /\ frozen' = [s \in Sessions |-> NoImage]
    /\ replaced' = [s \in Sessions |-> FALSE]

LeavesConfig ==
    \/ UNCHANGED config
    \/ \E s \in Sessions : stage[s] = "default" /\ CutConfig(BaseImage, FALSE)
    \/ \E s \in Sessions :
          stage[s] = "update" /\ rc = "readable" /\ CutConfig(frozen[s], publishes)

DaemonDies ==
    /\ Forget /\ LeavesConfig
    /\ UNCHANGED <<box, wanted, committed, pushed>>

\* The host restarts: the container is stopped as well.
HostRestarts ==
    /\ Forget /\ LeavesConfig
    /\ running' = FALSE
    /\ UNCHANGED <<exists, boxImage, online, limited, wanted, committed, pushed>>

Next ==
    \/ \E s \in Sessions : Ensure(s) \/ Handle(s)
    \/ DaemonDies
    \/ HostRestarts

Spec == Init /\ [][Next]_vars

-----------------------------------------------------------------------------
TypeOK ==
    /\ {exists, running, online, limited, wanted} \subseteq BOOLEAN
    /\ boxImage \in Images \union {NoImage}
    /\ rc \in {"missing", "readable", "unreadable"}
    /\ pin \in Images \union {NoImage} /\ publishes \in BOOLEAN
    /\ committed \subseteq Images /\ pushed \subseteq Images
    /\ job \in [Sessions -> {"none", "ensure", "reset", "freeze", "toggle"}]
    /\ stage \in [Sessions -> Stages]
    /\ result \in [Sessions -> {"none", "ok", "error"}]
    /\ imageDigest \in [Sessions -> Images \union {NoImage}]
    /\ publishTo \in [Sessions -> BOOLEAN]
    /\ frozen \in [Sessions -> Images \union {NoImage}]
    /\ replaced \in [Sessions -> BOOLEAN]
    /\ rc = "readable" <=> pin # NoImage
    /\ running => exists
    /\ exists <=> boxImage # NoImage

Succeeded(s, work) == job[s] = work /\ result[s] = "ok"

\* A reset that reports success made the container it leaves: its stop and
\* rm may fail unnoticed (docker.go:107-108) only because docker create then
\* refuses the name, the retry included.
ResetReplaces == \A s \in Sessions : Succeeded(s, "reset") => replaced[s]

\* As long as .krellinrc sets freeze.publish, it pins an image that the registry has,
\* whatever step of freeze fails or is cut off, the write of .krellinrc included
\* (handler.go:73-96, config.go:90).
PinIsPublished == publishes => pin \in pushed

\* However the daemon and the host went down before, a session that gets an
\* executor has a running capsule of the image it read from .krellinrc
\* (docker.go:34-94).  For one session per repository.
EnsureSettles ==
    [][\A s \in Sessions :
          job[s] = "ensure" /\ result[s] = "none" /\ result'[s] = "ok"
              => running' /\ boxImage' = imageDigest[s]]_vars

\* "Capsule is persistent per repo; not recreated unless reset/failure"
\* (planning_docs/krellinv0architecture.md:830): only a reset, or a pin that moved, loses
\* the state inside the container.  For one session per repository.
CapsulePersists ==
    [][exists /\ ~exists' =>
          \E s \in Sessions : job[s] = "reset" \/ boxImage # imageDigest[s]]_vars

\* "Reset recreates the capsule from the digest pinned in .krellinrc"
\* (docs/reset.md:3).
ResetUsesPin == \A s \in Sessions : Succeeded(s, "reset") => boxImage = pin

\* "Resource defaults enforced (2 CPU, 4 GB)" (docs/security.md:28).
LimitsEnforced == exists => limited

\* "Reset --> AttachCapsule" (planning_docs/krellinv0architecture.md:778), a
\* state that is entered only with the "capsule running" (:763).
ResetLeavesRunning == \A s \in Sessions : Succeeded(s, "reset") => running

\* "User can toggle via /network (saved to .krellinrc)"
\* (planning_docs/krellinv0architecture.md:57): off stays off in the next capsule.
NetworkChoiceSticks ==
    \A s \in Sessions : Succeeded(s, "ensure") /\ ~wanted => ~online
=============================================================================
