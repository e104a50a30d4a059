# Krellin: a verification project

TLA+ models of `krellin`, the daemon that runs an agent's work on a repository
inside a docker capsule; the TLC runs that check them; and theorems about them
that TLAPS checks. Paths without a prefix are relative to `src/internal/`.

## 1. The system

`krellind` listens on a Unix socket. A client connects, names a repository (or
a session it already has), writes actions as JSON lines and, if it asked for
them, receives events. Each session owns one docker container (the capsule),
one queue of actions, one executor goroutine and one terminal.

```
 client --connect/actions--> Router.ServeConn --Submit--> ActionQueue --Dequeue--> Executor.Run
   ^                            |  EnsureSessionForRepo                               | handler
   |                            v                                                     v
   +------ events ------ Session.Emit <---------- streamPTY <--- shell          Capsule / Bookkeeper / agent
```

| component | state | operations | what is hard | what makes it correct |
|---|---|---|---|---|
| queue (`queue/queue.go`) | items, closed, a mutex, a condition variable | Enqueue, Dequeue (with a watcher goroutine per call), Close | one Signal per item; a cancellation that falls between the test and the wait | items exactly once and in order, no lost wakeup, a cancelled caller returns |
| executor (`executor/executor.go`) | the action under way | Run: busy, started, handler, finished, idle | handlers that fail; other goroutines emit at the same time | one at a time, in order, each reported finished |
| session hub (`session/session.go`) | startOnce, how Start ended, pty, subscribers | Start, Submit, Subscribe, Unsubscribe, Emit, ensurePTY, resetPTY, streamPTY | Start races with Start and with Subscribe; full channels; shells that end | one executor, outcome delivered, no orphan shell, no reader left behind |
| action handlers (`session/handler.go`) | none of their own | one per action type | several effects, any of which fails | see Capsule, Patches, AgentRun |
| capsule (`capsule/docker/docker.go`) | the container of the repository, outside the process | Ensure, Reset, Commit, SetNetwork | each is several docker commands; daemon and host die in between | Ensure settles; reset really replaces; the pin is published |
| configuration, images, factory (`config/`, `images/`, `app/wire.go`) | `.krellinrc` | read when a session is built, written if it is missing, rewritten by freeze | a session keeps what it read; a write truncates the file first | see Capsule |
| daemon registry (`daemon/daemon.go`, `ensure.go`) | sessions, byRepo, the session counter | EnsureSessionForRepo, look-ups | the look-up and the registration are two critical sections; restarts start numbering over | one session per repository; an action stays in its repository |
| router (`daemon/router.go`, `handshake.go`, `transport.go`) | per connection: two goroutines, a channel, an error channel | ServeConn | the client hangs up while actions are in flight; two readers of one stream; a line longer than the scanner takes | what was written is submitted, in order; the goroutines end |
| socket client (`../pkg/client/socket.go`) | the session id it was given | SendAction, Subscribe | keeps its id for ever, a connection per action | its id stays valid |
| patch bookkeeper (`patch/patch.go`) | originals of the files it changed | Apply, Revert | several files, each write can fail; users and tools edit the same files; two names of one file; a restart forgets | a revert leaves no trace of a patch |
| agent prompt loop (`session/agent_tools.go`, `context.go`, `plan.go`) | plan, conversation | rounds, plans, retries, replans | the provider may answer anything | bounded, plan spent, conversation paired, claims come after a write |
| diff parser (`patch/patch.go`) | none: the text of a diff, the lines of a file | parseUnifiedDiff, applyHunks | the file was edited since the diff was made; offsets between hunks | the result is the merge of both edits, or a refusal |
| agent stores (`agents/`, the handlers, `../cmd/krellin/providers.go`) | two JSON files and the keychain, shared by every session and the command line | load, change, save, select, list | read-modify-write without a lock; a save truncates first, and may fail then; several stores per operation | the stores fit together, a success is effective, other agents are spared |
| terminal UI (`client/tui_model.go`, `client/tui.go`) | the modal list, its form, the wait, the transcript | one per key and event; a goroutine per action | events arrive between any two keys, or are lost; others change the same list; goroutines deliver and write concurrently | only confirmed deletes, a valid selection, a current list, a wait that ends |
| server, start-up by the client (`daemon/server.go`, `client/daemon_start.go`, both `main.go`) | the listener, the socket's file, the processes | dial, spawn, poll, listen, stop | several clients start daemons at once; closing removes the file | one server, behind the socket; who tries again is served |

Policy, repository identity and the protocol types are pure functions and data;
the agents' HTTP runtime, the container inventory and the VS Code extension are
I/O. They are not modelled; what the modelled parts see of them is an input or
an outcome.

## 2. The modules

* **FifoChannel** is the abstract queue: what was accepted, what was delivered,
  and whether it is shut. **ActionQueue** is `queue.go` at the level of
  `q.mu`, the wait set of `q.cond` and the watcher goroutines. A critical
  section is one step; between finding nothing and `cond.Wait` a consumer holds
  the mutex (`checked`), the window a cancellation can fall into. `late` counts
  the watchers whose Dequeue has returned before they ran: a watcher
  that sees both `ctx.Done()` and `done` ready may take either.
  `ImplementsFifo` is the refinement.
* **Session** composes `session.go`, `executor.go` and the terminal part of
  `run_command` and `reset`. It uses the queue as the FIFO that ActionQueue is
  shown to implement. One event of `Emit` is one step because `s.mu` covers the
  whole loop over the subscribers; a handler is cut where it emits, writes to
  the terminal or waits for docker. Terminals are numbered: `pty` is the
  session's, `shell` and `reader` follow each one's shell and `streamPTY`.
* **SerialExecutor** is what a session promises whoever submits: what was accepted, the action
  at work (none or one) and what is finished. Session implements it with
  `atWork` as what its executors have in hand (`ImplementsSerial`): Submit is Accept,
  Dequeue is Take, EmitFinished is Finish and every other step is a stutter.
* **Capsule** is `docker.go` command by command, together with what Start, reset,
  freeze and network_toggle do to the container and to `.krellinrc`. Every
  command may fail. The daemon may die, and the host may restart, between any two.
  `.krellinrc` is missing at first (BuildSession then writes a default file) or the user's;
  a write of it that fails or is cut off leaves it as it was, unreadable, or with its image
  and perhaps without `freeze.publish`. A session keeps the `publishTo` it read.
* **Daemon** is the registry and the handshake that uses it, with the clients of
  `socket.go`. A handshake is cut where `d.mu` is released.
* **Router** is one connection: the handshake, the goroutine of `ReadActions`, the
  channel of 8 actions (`Capacity`), the select loop and the sender of events. A
  line that two readers share is `Torn`, and `long` is the first line of more than
  64 KiB, at which the scanner of `ReadActions` stops for good. The session may be unknown.
* **Patches** is `Bookkeeper.Apply` and `Revert` file by file. The content of
  a file is the set of edits it shows, which is all the properties tell apart.
  Diffs call files by `Names`, and two names may lead to one file (`FileOf`): the
  code keeps originals by name and writes at the joined path. `Restart` starts the
  daemon again with a new Bookkeeper. There is one Bookkeeper at a time; that two sessions
  of one repository have two is in Daemon (OneSessionPerRepo).
* **AgentRun** is the `agent_prompt` handler: the rounds with tools, the plan with
  its steps, judgements, retries and replans, and the conversation. A call is a
  result whether it ran, failed or was refused, as in the code, which only counts results.
* **AgentStores** is the handlers `agents_*`, what a prompt does to find its agent, and
  `krellin providers add`, over `providers.json`, `agents.json` and the
  keychain. Every load, truncation and write is a step (`at` says which is next), so
  writers interleave between them, each open and write may fail, and the daemon or the command
  line may die there. A truncated, partly written or mixed file is
  `Torn`. What an operation makes of a list is in **Providers**, which TuiModel uses as well.
* **TuiModel** is `Update` of the TUI, one action per key and per event, the goroutine of each
  action it sends (`sends`), and as much of the session as answers it: its queue, its
  executor (absent after a failed start), the list of agents that every session of the machine shares,
  and the events it emits, which reach the UI if it is subscribed and its channel has room. Handlers
  may fail before or after their save; other sessions change the list without an event; an action may
  be lost with its connection or by a daemon that does not know the session. `stale` and `lost`
  record what a list or an answer on its way has missed.
* **UnifiedDiff** is `parseUnifiedDiff` and `applyHunks` line by line, as recursive functions, applied
  to diffs as `git diff` and `diff -u` write them (`Diff`, external).
  A line is its prefix and its text.
* **StartUp** is EnsureDaemon of several clients, `main` of krellind, and the server's Start and Stop,
  around the file at the socket's path (`path` is the daemon that bound it).

Constants that only bound the exploration are marked `bound:` where they are declared;
`MaxRounds`, `MaxAttempts`, `MaxTurns`, `Buffer` and `Capacity` are the code's
own limits with smaller values. Variables marked `history` record what happened and guard nothing.

## 3. The runs

| run | instance | what it shows |
|---|---|---|
| `queue` | 2 producers of 2 items, 2 consumers, Close, cancellations | exactly once, in order, no lost wakeup, no missed cancellation; refines FifoChannel; accepted items are taken; cancelled consumers stop |
| `session_hub` | 2 callers of Start, 1 subscriber with a channel of 4, 2 actions | one action at a time: refines SerialExecutor; the subscriber learns how Start ended however it raced; the executor's events nest |
| `session_terminal` | 2 commands and 2 resets, attaches that fail, shells that end | execution in acceptance order; no orphan shell; accepted actions finish; readers of old terminals end |
| `capsule` | 1 session, 3 images, no `.krellinrc` or one that publishes | Ensure settles on a running container of its image; a reset replaces; state is lost only to a reset or a moved pin; no unpublished pin while the file sets `freeze.publish` |
| `daemon` | 3 clients, 2 repositories, 3 sessions, 1 restart | the two maps agree; in the daemon's first life actions stay in their repository and kept ids stay registered |
| `router` | 4 actions through a channel of 2, one of which may be too long, a known or unknown session | what is submitted is a gapless prefix; for a known session without events nothing written before a line that is too long is lost; the goroutines end unless nobody receives and more was written than the channel holds |
| `patches` | 2 patches, 2 files with 3 names, a tool edit, a user edit, 1 restart | a successful revert leaves no trace of the patches since the restart in files patched under one name; a patch that does not fit changes nothing |
| `tui` | 2 agents, 4 keys of which 2 enter lines, 1 delete by another client or another session, 1 failure (of a start, connection, handler or event, or the end of the daemon) | an agent is deleted only after two presses with no other key of the list between; the selection is a row; a list at rest is the stored one unless it changed without an event or a list was lost; the wait ends unless something was lost or the session has no executor |
| `agent_stores` | 1 session and the command line, 2 agents, 3 operations, failing steps, 1 death of the daemon or the command line | stores that nothing disturbed fit together; a success that nothing overlapped did all it says, but for a key the keychain kept; other agents are left as they were, unless a file was truncated and not written |
| `unified_diff` | every file of up to 4 lines over 2 texts, every diff with at most one run of additions, 1 or 2 lines of context, 1 edit in between | applied exactly if every shown line is unchanged, and then to the merge; what was accepted can be reversed |
| `start_up` | 2 clients, 3 daemons, 2 polls, 2 signals, each fault once | one server, behind the socket, unless the file was removed; who tries again is served |
| `agent` | 3 requests, 3 rounds, 2 attempts, plans of 2 steps, 2 calls per answer | paired conversation, spent plans, bounded prompts, finals only after a call of a write tool in the part that gives them, nothing remembered unseen |

Why these bounds are enough to be interesting. `queue`: the lost wakeup needs two
sleepers and a woken consumer that leaves, and the missed cancellation one of
each. `session_hub`: the channel of 4 is smaller than what two actions emit
(8 executor events and the session's own), so events are dropped; two callers
are needed to race in `startOnce`. `session_terminal`: two resets and two commands cover a reset
before, between and after attaches, and a shell that ended before a reset.
`capsule`: three images let a pin move twice. `daemon`: three sessions let two
overlapping handshakes of one repository and one of another each build one.
`router`: four actions overfill a channel of two while one is held. `patches`:
two files make "some written, some not" possible, two patches make a recorded
original older than a patch, one file has two names, and a restart falls between two patches. `agent`: a conversation of 4 turns is trimmed by
the third request; 3 rounds leave room for a read, a refused call and a write.
`tui`: a delete takes two keys, and the list may lose its row between them; two more keys open the
list and move. One failure and one change by others are enough for every exception of the two
properties to occur, and what others do is a delete, which removes rows. `agent_stores`: three operations let one begin on what an
interrupted one left while the command line interleaves. `unified_diff`: an addition
above four lines of which the last is deleted gives two hunks with one line of context, and the second one's
offset is not zero. `start_up`: two
clients that both find no daemon start one each, and the third daemon is one started
after a stop.

`CHECK_DEADLOCK FALSE` stands where the system may really stop: users and clients
who have used up their bound, a connection that ended, a patch that was applied.

Symmetry is used only in runs without liveness.

### Fairness

* `ActionQueue!Fairness`: `Dequeue(c)` and `WatcherFires(c)` are strongly fair,
  because `sync.Mutex` hands the lock to a goroutine that has waited for 1 ms and
  the Go scheduler runs every runnable goroutine; `Wait` is weakly fair.
  Nothing is assumed of producers, Close or cancellations.
* `Session!Fairness`: the goroutines the code starts (Start, Run, streamPTY) are
  weakly fair while the process lives. This includes that docker commands and
  `pty.Write` return; a write to a terminal whose shell reads nothing may
  not (`session/handler.go:125`). Nothing is assumed of clients or
  shells.
* `Router!FairSpec`: ServeConn and the goroutine of ReadActions are weakly fair; the
  sender of events is not. Nothing is assumed of the client, not even that it hangs up.
* `Fairness` of TuiModel: the goroutines of the UI and the executor run. Users, other clients
  and connections do what they like; SpinnerEnds excepts what was lost on the way, and a session without an executor.
* `FairStartUpSpec`: processes run, and a user whose krellin failed runs it again. The
  strong fairness of EnsureDaemon only says that the few `Daemons` of
  the model are not always all taken when a client wants to start one.

## 4. Where the code and its documents disagree

Each is a property that the code breaks and a configuration with which TLC shows how.
They are kept beside the runs and not listed in `PROJECT.json` as runs; a
configuration with several properties is run with `-continue`.

| configuration | property | promise |
|---|---|---|
| MCSessionDocumented | StreamComplete | "The event stream is sufficient to reconstruct session behavior" (planning_docs/krellinv0architecture.md:741); Emit drops events for a full channel |
| MCSessionFailedStart | QueueIsServed | "Idle --> Busy : ActionQueue non-empty" (:771); after a start that failed, the queue accepts actions and nobody takes them |
| MCSessionDocumented | NeverPanics | an attach that fails uses up `s.ptyOnce`; the next `run_command` writes to a nil terminal (session/handler.go:125) and the daemon panics |
| MCCapsuleDocumented | ResetUsesPin | "Reset recreates the capsule from the digest pinned in `.krellinrc`" (docs/reset.md:3); it uses the digest read at start |
| MCCapsuleDocumented | LimitsEnforced | "Resource defaults enforced (2 CPU, 4 GB)" (docs/security.md:28); Reset recreates without limits, user and network |
| MCCapsuleDocumented | ResetLeavesRunning | "Reset --> AttachCapsule" (:778) with the "capsule running" (:763); Reset creates and does not start |
| MCCapsuleDocumented | NetworkChoiceSticks | "User can toggle via /network (saved to .krellinrc)" (:57); it is not saved |
| MCDaemonTwoSessions | OneSessionPerRepo | "Reuse existing session for the repo if present" (daemon/ensure.go:18); two handshakes that overlap make two |
| MCDaemonStaleId | ActionStaysInRepo | after a restart an id that a client kept may name another repository's session (socket.go:31, daemon/daemon.go:34) |
| MCRouterPipelined | LinesArrive | "Actions are sent by clients to the daemon as JSON lines" (docs/transport.md:21); the decoder of the handshake may swallow what follows the connect line |
| MCRouterDocumented | EventsAreStreamed | "Events are streamed back to clients as JSON lines" (docs/transport.md:22); only if the undocumented `subscribe` is set |
| MCPatchesDocumented | ApplyIsAtomic | "Patch application must be atomic (success or fail)" (:549); files written before a failed write stay |
| MCPatchesDocumented | RevertKeepsUserEdits | Revert is to "discard the agent's applied patch" (:196); it restores whole files and takes later user edits with it |
| MCPatchesDocumented | RevertUndoesAgent | "The user can always hit Revert to undo agent-caused repo/workspace changes" (planning_docs/capsules.md:11); the agent's tools are not recorded |
| MCUnifiedDiffFresh | FreshIsApplied | "Apply a unified diff patch to the workspace" (:536); a diff of two files is refused, because the header of the second is read as a deletion of the first's last hunk (patch/patch.go:132) |
| MCTuiDocumented | SubmittedInOrder | "enforcing strict operation ordering" (:359); each action of the TUI travels in a goroutine and on a connection of its own |
| MCTuiDocumented | TranscriptKeepsMessages | "Clients should render these prominently" (docs/errors.md:4); what arrives while a `!line` goroutine holds a copy of the transcript is overwritten (client/tui_model.go:474) |
| MCAgentStoresSerialized | StoresAreSerialized | "All stateful operations serialized via executor" (docs/security.md:29); executors of two sessions, and the command line, lose each other's changes to the list of agents |
| MCAgentStoresQuiet | QuietFilesAreWhole | no document promises it; a save that is interrupted after its truncation leaves a file that cannot be decoded (agents/store.go:71) |
| MCAgentStoresQuiet | ActiveIsUsable | no document promises it; an add may disable the active agent without clearing the selection as toggle does (session/handler.go:454) |
| MCStartUpStaleSocket | DaemonCanStart | "EnsureDaemon starts krellind if the socket is not reachable" (client/daemon_start.go:10); a daemon that was killed leaves its file, on which every later one fails to bind |

Lines without a file are of planning_docs/krellinv0architecture.md. Met while reading, and not states a
model tells apart: "`command` or `!command` sends a `run_command`" (docs/tui.md:9), but a line without
`!` is a prompt to the agent; hunks without context lines and diffs of empty files are refused or placed one line off
(patch/patch.go:188), a patch that deletes every line leaves an empty one (:226), and "\ No newline
at end of file" makes a diff refused (:218); an accept loop that met an error is over, while the socket still takes connections
(daemon/server.go:60); krellind ignores the error of Start and lingers (../cmd/krellind/main.go:28).

No document promises what the following break; the properties that would say so except them by name:

* A line of more than 64 KiB, such as a large `apply_patch`, ends the reading of its connection: it and
  the actions after it are lost without an answer (daemon/transport.go:29; AllSubmitted, `long`).
* A client that writes more than 8 actions to an unknown session, or leaves while events are
  sent to it, leaves the goroutine of ReadActions blocked for ever (transport.go:35; ConnectionEnds).
* A file that is patched as `x` and as `./x` has two originals, of which one may hold a patch, and a daemon
  that is started again has none: a Revert that succeeds may leave a patch (patch/patch.go:22, 41, 62;
  RevertDiscardsPatches).
* A write tool that failed counts as a write: a final answer may claim a change that was never made
  (session/agent_tools.go:119-127; FinalAfterWriteCall).
* A blank prompt, or one that cannot be decoded, ends as a failed action with no message (session/handler.go:213, 350; AnswerWasShown).
* The key of a deleted agent stays, and the delete succeeds, if the keychain refuses (session/handler.go:503; SuccessIsEffective).
* A save that fails after it has truncated the file loses every agent or the selection (agents/store.go:71,
  selection.go:54; OthersAreSpared).
* The UI's list of agents is out of date after another session or the command line changed it, and after a handler
  failed behind its save (QuietListIsCurrent).
* The wait for an answer does not end by itself when an event is dropped for a full channel (session/session.go:261), an
  action goes to a daemon that does not know the session (../pkg/client/socket.go:31, daemon/router.go:85),
  or the session failed to start (session.go:195; SpinnerEnds).
* A `.krellinrc` that is cut off while freeze writes it can lose `freeze.publish` or be unreadable, and then no session is
  built (config/config.go:90; PinIsPublished).

## 5. The proofs

Eight modules hold the theorems; each states its invariant and why it is needed
at its head. Assumptions are the named ASSUMEs of the component modules: sets of
goroutines are finite where they are counted, bounds are natural numbers, kinds of
actions or edits are disjoint, and `MaxTurns` is even and positive (12 in the code).

**ActionQueueProofs**: for any producers, any finite set of consumers, any number of items.

| theorem | property | argument |
|---|---|---|
| TypeCorrect | TypeOK | inductive |
| NothingLostOrReordered | ConservesItems | inductive: only Enqueue and Take touch the sequences |
| SleepersAreWatched | SleepersWatched | inductive: a Dequeue starts its watcher before it can sleep |
| CancelledSleeperWillWake | CancelWillWake | from SleepersWatched: the watcher broadcasts under the mutex, so not between the test and the wait |
| ClosedQueueWakesAll | ClosedWakesAll | Close broadcasts under the mutex; nobody starts to wait on a closed queue |
| NoWakeupIsLost | NoLostWakeup | counts the woken consumers against the items; a consumer that holds the mutex found none |
| QueueImplementsFifo | ImplementsFifo | each step maps to a step of FifoChannel or a stutter; needs ConservesItems |

**PatchesProofs**: for any files, names, patches, edits and restarts. `RevertIsThorough`
(RevertDiscardsPatches) is not inductive: what Revert restores must be clean, so
the invariant says that files none of whose names is recorded hold no patch of this daemon, that a
name is recorded before a patch is written to its file, that the original of an only name holds no
patch, and how far a revert under way has come.
`RefusalIsClean` (RefusedChangesNothing) adds that a file shows a patch, and a patch
has a file staged, only once it has come to its writes.
Its second part is about UnifiedDiff, for any texts, paths, scripts, edits and numbers of
context lines (`BoundsAssumption`: the bounds are natural numbers), and as the properties are, for diffs of one file.
What a recursive function computes is found by induction over the number of lines it has read.
Three facts are proved so: what `Parse` makes of a diff is the hunks of its script
(`FileParsed`, line by line in `LineParsed`); `Matching` accepts a hunk exactly if the file shows
its old lines at the place where they are looked for, and puts the new ones there (`HunkMatched`, `HunkApplied`); and
that place is right, because the offset is the number of lines that the hunks above have added
less those they have removed (`OldTo`, `NewTo`). `MergesOrRefusesHolds` (MergesOrRefuses) follows for a file that has
as many lines as when the diff was made. For a file of any length, what was accepted is the
script with its hidden lines as the file had them (`PatchedIsNew`), and its inverse shows
what the result holds (`PatchedBack`): `AcceptedIsReversibleHolds` (AcceptedIsReversible). The invariant
`DiffInv` adds to the two properties only that files hold lines until the diff is applied.

**DaemonProofs**: for any clients, repositories, connections and bounds.
`MapsAgree` (RegistryAgrees) needs that an id is pending on one connection
or registered, never both; `ActionsStay` and `KeptIdIsKnown` add that in the
daemon's first life every id held by a client or a connection was registered
for its own repository. They fail after a restart, as MCDaemonStaleId shows.
Its second part is about StartUp, for any clients, daemons, signals and
faults. `ListenerIsReachable` (ServerIsReachable) is inductive with the types: who
binds the path finds no file, so nobody listens unless the file was removed, and who
stops listening had the file itself. `NeverTwoServers` follows: as long as nobody removed the
file, the one registry of the first part is the only one.

**AgentRunProofs**: for any limits. `PlansAreSpent` is inductive with the types;
`FinalsAreBacked` (FinalAfterWriteCall) adds that every collected result of a write tool is of a call in
the same plan or the same rounds; `PromptsAreBounded` reads
what is spent off the attempt, the step, its retry and the round (`Budget`);
`ConversationIsPaired` and `AnswersAreShown` rest on what adding a question and its
answer to a full conversation drops: a pair, because `MaxTurns` is even.

**RouterProofs**: for any actions, events and bounds. `SubmittedInOrder`
(SubmittedIsPrefix) assumes, by `ASSUME Waits`, a client that waits for its
session: the decoder of the handshake then has nothing of the actions in its
buffer, and what was submitted, read and is on the wire is what was sent.

**CapsuleProofs**: for any sessions and images. Every stage belongs to a job (`StagesFitJobs`), so the
commands that end a job well say which it was; `ResetsReplace` rests on it. `PinsArePublished` adds that a freeze past
its push has pushed what it will pin, and that as long as the file sets `freeze.publish` every
session has read that: a write may lose it and never sets it. `EnsuresSettle` and `CapsulesPersist` assume
`OneSession`: what its Ensure has seen of the container still holds when it acts on it.

**SessionProofs**: for any callers of Start, subscribers, actions, shells and bounds.
`ShellsAreHeld` (NoOrphanShell) rests on there being one executor (`OneStart`): it alone
calls ensurePTY and resetPTY, which hold no mutex (session/session.go:266-298), and what
attaches after a reset finds no terminal. `ActionsInOrder` (ExecutesInOrder) needs that startOnce
lets one caller in, so that one executor serves the queue, and that the queue holds
what was accepted and not yet taken, each action once. `OutcomesReachSubscribers`
follows how Start ended through its two steps, recording and emitting: a subscriber
that registered before the second is sent it there, and one that registered after the
first reads it in its replay. `StreamsAreBracketed` (StreamWellBracketed) relates what
a subscriber has been sent to where the executor is: what it has of the action under way
is a part of its script that ends where the executor stands, and what it has of earlier
ones is finished. `SessionIsSerial` (ImplementsSerial) maps each step to a step of SerialExecutor or
a stutter: at most one executor has an action in hand (`OneStart`), and by the invariant of
`ActionsInOrder` the action that Dequeue takes is the first that is not finished.

**AgentsProofs**: for any names, sessions, operations, deaths and faults. The loops of the
handlers are proved first (`LoopKeeps`, `WithoutKeeps`: what a loop over the list keeps, by
induction over a set of indices), then what each change does to a list whose names are
unique. `SuccessesAreEffective` and `OthersStayAsTheyWere` rest on `Advances`: of an
operation that is alone, each stage says what the stores are in terms of what they were
when it began, so that even an operation that fails or dies half-way has touched its own agent
only, but for a file that it has truncated; and on `Lonely`: a step of another operation would have told it that it is not
alone. `StoresFitTogether` rests on `Fits`, which names the one key or selection that a
stage may leave without its agent. The second part is about TuiModel, for any names,
fields, keys, lines and other clients: SelectionIsARow (`ARowIsSelected`) is inductive only with the types
of what travels between the UI and the session, because the keys read the selected row;
QuietListIsCurrent (`ListsCatchUpWhenQuiet`) because, unless the list is stale, the last one on its way is the stored one, or
the one shown is; DeletesAreConfirmed (`DeletesWereConfirmed`) because a delete waits for its confirmation exactly while
the last key of the list asked for it (`Waiting`).

The two modules of such a pair share a name space, so StartUp, TuiModel and UnifiedDiff name their
specifications for themselves (StartUpSpec, TuiSpec, DiffSpec, ...), and the names of agents are
constants of Providers.

The type invariant of each module (TypeOK, StartUpTypeOK, TuiTypeOK) is proved, and no run spends time on it.

Model-checked only: everything under fairness (AcceptedIsTaken, CancelledStops,
AcceptedFinishes, OldReadersEnd, AllSubmitted, ConnectionEnds, SpinnerEnds, RetriesAreServed), since liveness and
ENABLED are out of the prover's reach. Every safety property and every refinement that a run checks is a theorem. No module uses a RECURSIVE operator.

## 6. Plan

Every component whose state the system's behaviour depends on has its module, and every
safety property that a run checks is a theorem. What would come next: that Session with its queue
replaced by ActionQueue needs nothing more than FifoChannel, and the hazards that no property covers
yet (`PROJECT.json` says why for each).

## 7. Not modelled

The text of prompts, answers and summaries; JSON and TOML; the layout of the
terminal; the output docker prints; the operating system's buffers (a write
to a terminal or a socket returns or fails). The agent's runtime answers
whatever it likes. `StartSession`, which registers a session after starting it,
has no caller in the daemon's production path, and neither has
`containers.Cleanup`. `containers.Inventory` only reads what docker prints. Of the TUI, the mouse, the
timer of its shift key, scrolling, the editing of lines and the commands
that only print are left out, of the form the fields after the name. The checker of agents (`agents/checker.go`) only decides a status
that is shown. `PROJECT.json` gives the status of every component.
