------------------------------ MODULE Session ------------------------------
(***************************************************************************)
(* One session of the daemon: internal/session/session.go, the loop of     *)
(* internal/executor/executor.go, and the handlers of run_command and      *)
(* reset (session/handler.go), which share the terminal.                   *)
(*                                                                         *)
(* Goroutines: the callers of Start, the executor a Start leaves running,  *)
(* the callers of Submit, one streamPTY per terminal, the subscribers.     *)
(* s.mu is held for one Emit or one registration, so each is one step.     *)
(* The queue is the FIFO that ActionQueue implements.  The capsule only    *)
(* answers: its calls succeed or fail, and a shell may end at any time.    *)
(***************************************************************************)
EXTENDS Integers, Sequences, FiniteSets

CONSTANTS
    Starters,      \* goroutines that call Start
    Subscribers,   \* each calls Subscribe once
    RunCommands,   \* the run_command actions clients submit
    Resets,        \* the reset actions
    Plain,         \* the actions that leave the terminal alone
    NoAction,
    Buffer,        \* capacity of a subscriber's channel (router.go:47: 100)
    MaxOutputs     \* bound: chunks of terminal output the shells produce

Actions == RunCommands \union Resets \union Plain

ASSUME ActionsDisjoint ==
    /\ RunCommands \intersect Resets = {}
    /\ (RunCommands \union Resets) \intersect Plain = {}
    /\ NoAction \notin Actions
ASSUME BoundsNat == Buffer \in Nat /\ MaxOutputs \in Nat

VARIABLES
    once,            \* s.startOnce: "new", "running" or "done"
    spc,             \* where each caller of Start is
    startedEvent,    \* s.startedEvent # nil
    lastErrorEvent,  \* s.lastErrorEvent # nil
    ctxDone,         \* the daemon's context is cancelled
    items,           \* the queue
    accepted,        \* history: actions Submit accepted, in order
    xpc,             \* where the executor that a caller of Start left is
    cur,             \* the action that executor has dequeued
    finished,        \* history: actions reported finished, in order
    pty,             \* s.pty: the index of a terminal, 0 for nil
    ptyOnce,         \* s.ptyOnce has been used
    shell,           \* per terminal: "live", "dead" (ended) or "closed" (by us)
    reader,          \* per terminal: what its streamPTY does
    outputs,         \* chunks of output read so far
    sub,             \* where each subscriber is
    snap,            \* what each subscriber found when it registered
    stream,          \* history: every event put in a subscriber's channel
    taken,           \* number of events the subscriber has received
    missed,          \* history: subscribers an event was dropped for
    crashed          \* a goroutine panicked: the daemon process is gone

start == <<once, spc, startedEvent, lastErrorEvent>>
queue == <<items, accepted>>
term == <<pty, ptyOnce, shell, reader, outputs>>
hub == <<sub, snap, stream, taken, missed>>
env == <<start, ctxDone, queue, crashed>>
exec == <<xpc, cur, finished>>
vars == <<env, exec, term, hub>>

StarterStates == {"idle", "ensuring", "marked", "failed", "recorded", "returned"}
ExecutorStates ==
    {"none", "idle", "dequeued", "busy", "handling", "writing", "recreated",
     "dropped", "reattached", "bannered", "handled", "ended", "stopped"}
SubscriberStates == {"out", "replayStarted", "replayError", "live", "closed"}
EventTypes ==
    {"session.started", "start.error", "executor.busy", "action.started",
     "action.finished", "executor.idle", "result", "terminal.output",
     "reset.completed", "pty.error", "read.error"}

Event(type, a) == [type |-> type, action |-> a]
SystemEvent(type) == Event(type, NoAction)

Init ==
    /\ once = "new"
    /\ spc = [t \in Starters |-> "idle"]
    /\ startedEvent = FALSE /\ lastErrorEvent = FALSE
    /\ ctxDone = FALSE /\ crashed = FALSE
    /\ items = << >> /\ accepted = << >> /\ finished = << >>
    /\ xpc = [t \in Starters |-> "none"]
    /\ cur = [t \in Starters |-> NoAction]
    /\ pty = 0 /\ ptyOnce = FALSE
    /\ shell = << >> /\ reader = << >> /\ outputs = 0
    /\ sub = [s \in Subscribers |-> "out"]
    /\ snap = [s \in Subscribers |-> [started |-> FALSE, error |-> FALSE]]
    /\ stream = [s \in Subscribers |-> << >>]
    /\ taken = [s \in Subscribers |-> 0]
    /\ missed = {}

-----------------------------------------------------------------------------
RegisteredAfterReplay == {s \in Subscribers : sub[s] = "live"}
Registered ==
    {s \in Subscribers : sub[s] \in {"replayStarted", "replayError", "live"}}

HasRoom(s) == Len(stream[s]) - taken[s] < Buffer

\* A send in a select with a default: dropped when the channel is full.
Send(to, e) ==
    /\ stream' = [s \in Subscribers |->
                     IF s \in to /\ HasRoom(s) THEN Append(stream[s], e)
                                               ELSE stream[s]]
    /\ missed' = missed \union {s \in to : ~HasRoom(s)}

Emit(e) == Send(Registered, e) /\ UNCHANGED <<sub, snap, taken>>

-----------------------------------------------------------------------------
(***************************************************************************)
(* Start.  sync.Once lets one caller in; the others return once it is done.*)
(***************************************************************************)
NotYetStarted == ~startedEvent

OnceFree == once = "new"

StarterGoes(t, from, to) == spc[t] = from /\ spc' = [spc EXCEPT ![t] = to]

StartEnters(t) ==
    /\ OnceFree
    /\ StarterGoes(t, "idle", "ensuring")
    /\ once' = "running"
    /\ UNCHANGED <<startedEvent, lastErrorEvent, ctxDone, queue, crashed, exec, term, hub>>

StartReturns(t) ==
    /\ once = "done"
    /\ StarterGoes(t, "idle", "returned")
    /\ UNCHANGED <<once, startedEvent, lastErrorEvent, ctxDone, queue, crashed, exec, term, hub>>

\* The capsule is ensured: the event is recorded, for the subscribers to come.
MarkStarted(t) ==
    /\ StarterGoes(t, "ensuring", "marked")
    /\ startedEvent' = TRUE
    /\ UNCHANGED <<once, lastErrorEvent, ctxDone, queue, crashed, exec, term, hub>>

\* Emit session.started, then leave the executor running.
EmitStarted(t) ==
    /\ StarterGoes(t, "marked", "returned")
    /\ once' = "done"
    /\ xpc' = [xpc EXCEPT ![t] = "idle"]
    /\ Emit(SystemEvent("session.started"))
    /\ UNCHANGED <<startedEvent, lastErrorEvent, ctxDone, queue, crashed, cur, finished, term>>

\* The capsule is not: a banner, then the error, and no executor.
EnsureFails(t) ==
    /\ StarterGoes(t, "ensuring", "failed")
    /\ Emit(SystemEvent("terminal.output"))
    /\ UNCHANGED <<once, startedEvent, lastErrorEvent, ctxDone, queue, crashed, exec, term>>

RecordError(t) ==
    /\ StarterGoes(t, "failed", "recorded")
    /\ lastErrorEvent' = TRUE
    /\ UNCHANGED <<once, startedEvent, ctxDone, queue, crashed, exec, term, hub>>

EmitError(t) ==
    /\ StarterGoes(t, "recorded", "returned")
    /\ once' = "done"
    /\ Emit(SystemEvent("start.error"))
    /\ UNCHANGED <<startedEvent, lastErrorEvent, ctxDone, queue, crashed, exec, term>>

Start(t) ==
    \/ StartEnters(t) \/ StartReturns(t) \/ MarkStarted(t) \/ EmitStarted(t)
    \/ EnsureFails(t) \/ RecordError(t) \/ EmitError(t)

Cancel ==
    /\ ~ctxDone
    /\ ctxDone' = TRUE
    /\ UNCHANGED <<start, queue, crashed, exec, term, hub>>

SubmitUrgent(a) ==
    /\ \A n \in 1 .. Len(accepted) : accepted[n] # a
    /\ items' = IF a \in Resets THEN <<a>> \o items ELSE Append(items, a)
    /\ accepted' = Append(accepted, a)
    /\ UNCHANGED <<start, ctxDone, crashed, exec, term, hub>>

\* Submit never looks at whether the session has started.
Submit(a) ==
    /\ \A n \in 1 .. Len(accepted) : accepted[n] # a
    /\ items' = Append(items, a)
    /\ accepted' = Append(accepted, a)
    /\ UNCHANGED <<start, ctxDone, crashed, exec, term, hub>>

-----------------------------------------------------------------------------
(***************************************************************************)
(* Executor.Run.  Script lists its steps, and those of the reset handler,  *)
(* that emit one event and do nothing else.                                *)
(***************************************************************************)
ExecutorGoes(t, from, to) == xpc[t] = from /\ xpc' = [xpc EXCEPT ![t] = to]

Dequeue(t) ==
    /\ ExecutorGoes(t, "idle", "dequeued")
    /\ items # << >>
    /\ cur' = [cur EXCEPT ![t] = Head(items)]
    /\ items' = Tail(items)
    /\ UNCHANGED <<start, ctxDone, accepted, crashed, finished, term, hub>>

DequeueFails(t) ==
    /\ ExecutorGoes(t, "idle", "stopped")
    /\ items = << >> /\ ctxDone
    /\ UNCHANGED <<env, cur, finished, term, hub>>

ScriptBusyLast == {<<"dequeued", "action.started", "busy">>,
                   <<"busy", "executor.busy", "handling">>,
                   <<"reattached", "terminal.output", "bannered">>,
                   <<"bannered", "reset.completed", "handled">>}
Script == {<<"dequeued", "executor.busy", "busy">>,
           <<"busy", "action.started", "handling">>,
           <<"reattached", "terminal.output", "bannered">>,
           <<"bannered", "reset.completed", "handled">>}

EmitNext(t) ==
    /\ \E line \in Script :
          ExecutorGoes(t, line[1], line[3]) /\ Emit(Event(line[2], cur[t]))
    /\ UNCHANGED <<env, cur, finished, term>>

EmitFinished(t) ==
    /\ ExecutorGoes(t, "handled", "ended")
    /\ finished' = Append(finished, cur[t])
    /\ Emit(Event("action.finished", cur[t]))
    /\ UNCHANGED <<env, cur, term>>

EmitIdle(t) ==
    /\ ExecutorGoes(t, "ended", "idle")
    /\ cur' = [cur EXCEPT ![t] = NoAction]
    /\ Emit(Event("executor.idle", cur[t]))
    /\ UNCHANGED <<env, finished, term>>

\* The other handlers: one event and success, or an error.
HandlePlain(t) ==
    /\ cur[t] \in Plain
    /\ ExecutorGoes(t, "handling", "handled")
    /\ Emit(Event("result", cur[t]))
    /\ UNCHANGED <<env, cur, finished, term>>

FailureStopsRun(t) ==
    /\ ExecutorGoes(t, "handling", "stopped")
    /\ UNCHANGED <<env, cur, finished, term, hub>>

\* A handler may refuse its payload, or fail before it changed anything here;
\* a reset whose capsule.Reset fails leaves the terminal as it was.
HandlerFails(t) ==
    /\ ExecutorGoes(t, "handling", "handled")
    /\ UNCHANGED <<env, cur, finished, term, hub>>

-----------------------------------------------------------------------------
(***************************************************************************)
(* The terminal.  ensurePTY attaches at most once until resetPTY renews    *)
(* the sync.Once; an attach that fails uses it up as well.                 *)
(***************************************************************************)
AttachEveryTime == TRUE
NeedsAttach == pty = 0 /\ ~ptyOnce

Attach ==
    /\ pty' = Len(shell) + 1
    /\ ptyOnce' = TRUE
    /\ shell' = Append(shell, "live")
    /\ reader' = Append(reader, "reading")
    /\ UNCHANGED outputs

AttachFails(t) ==
    /\ ptyOnce' = TRUE
    /\ Emit(Event("pty.error", NoAction))
    /\ UNCHANGED <<pty, shell, reader, outputs>>

RunAttaches(t) ==
    /\ cur[t] \in RunCommands /\ NeedsAttach
    /\ \/ ExecutorGoes(t, "handling", "writing") /\ Attach /\ UNCHANGED hub
       \/ ExecutorGoes(t, "handling", "handled") /\ AttachFails(t)
    /\ UNCHANGED <<env, cur, finished>>

\* With a terminal, or a sync.Once that is used up, the handler goes on.
AtWrite(t) ==
    \/ xpc[t] = "writing"
    \/ xpc[t] = "handling" /\ cur[t] \in RunCommands /\ ~NeedsAttach

\* The command is written, or the write fails, or the command is empty (the
\* one case without a terminal).  A write to a terminal whose shell has ended
\* may succeed: nobody reads it.
RunReturns(t) ==
    /\ AtWrite(t)
    /\ xpc' = [xpc EXCEPT ![t] = "handled"]
    /\ UNCHANGED <<env, cur, finished, term, hub>>

\* s.pty.Write on a nil interface, and nothing recovers the panic.
RunPanics(t) ==
    /\ AtWrite(t) /\ pty = 0
    /\ crashed' = TRUE
    /\ UNCHANGED <<start, ctxDone, queue, exec, term, hub>>

\* capsule.Reset removed the container, and with it the shells in it.
ResetRecreates(t) ==
    /\ cur[t] \in Resets
    /\ ExecutorGoes(t, "handling", "recreated")
    /\ shell' = [c \in DOMAIN shell |-> IF shell[c] = "live" THEN "dead" ELSE shell[c]]
    /\ UNCHANGED <<env, cur, finished, pty, ptyOnce, reader, outputs, hub>>

ShellsClosed == [c \in DOMAIN shell |-> IF c = pty THEN "closed" ELSE shell[c]]

\* resetPTY
ResetDropsTerminal(t) ==
    /\ ExecutorGoes(t, "recreated", "dropped")
    /\ shell' = ShellsClosed
    /\ pty' = 0
    /\ ptyOnce' = FALSE
    /\ UNCHANGED <<env, cur, finished, reader, outputs, hub>>

\* The error of a failed attach is emitted, then ignored by the handler.
ResetAttaches(t) ==
    /\ ExecutorGoes(t, "dropped", "reattached")
    /\ (Attach /\ UNCHANGED hub) \/ AttachFails(t)
    /\ UNCHANGED <<env, cur, finished>>

Run(t) ==
    \/ Dequeue(t) \/ DequeueFails(t)
    \/ EmitNext(t) \/ EmitFinished(t) \/ EmitIdle(t)
    \/ HandlePlain(t) \/ HandlerFails(t)
    \/ RunAttaches(t) \/ RunReturns(t) \/ RunPanics(t)
    \/ ResetRecreates(t) \/ ResetDropsTerminal(t) \/ ResetAttaches(t)

-----------------------------------------------------------------------------
(***************************************************************************)
(* streamPTY, one goroutine per terminal.                                  *)
(***************************************************************************)
\* What a shell printed before it ended may still be read.
ReadOutput(c) ==
    /\ reader[c] = "reading" /\ shell[c] # "closed"
    /\ outputs < MaxOutputs
    /\ outputs' = outputs + 1
    /\ reader' = [reader EXCEPT ![c] = "holding"]
    /\ UNCHANGED <<env, exec, pty, ptyOnce, shell, hub>>

EmitOutput(c) ==
    /\ reader[c] = "holding"
    /\ reader' = [reader EXCEPT ![c] = IF ctxDone THEN "done" ELSE "reading"]
    /\ Emit(SystemEvent("terminal.output"))
    /\ UNCHANGED <<env, exec, pty, ptyOnce, shell, outputs>>

\* The reader reports the end of the shell and exits; s.pty stays as it is.
ReadFails(c) ==
    /\ reader[c] = "reading" /\ shell[c] # "live"
    /\ reader' = [reader EXCEPT ![c] = "done"]
    /\ Emit(SystemEvent("read.error"))
    /\ UNCHANGED <<env, exec, pty, ptyOnce, shell, outputs>>

ShellEnds(c) ==
    /\ shell[c] = "live"
    /\ shell' = [shell EXCEPT ![c] = "dead"]
    /\ UNCHANGED <<env, exec, pty, ptyOnce, reader, outputs, hub>>

Stream(c) == ReadOutput(c) \/ EmitOutput(c) \/ ReadFails(c)

-----------------------------------------------------------------------------
(***************************************************************************)
(* Subscribe registers the channel and reads the two recorded events under *)
(* s.mu, then replays them, in this order, without it.                     *)
(***************************************************************************)
Register(s) ==
    /\ sub[s] = "out"
    /\ sub' = [sub EXCEPT ![s] = "replayStarted"]
    /\ snap' = [snap EXCEPT ![s] =
                   [started |-> startedEvent, error |-> lastErrorEvent]]
    /\ UNCHANGED <<env, exec, term, stream, taken, missed>>

Replay(s, from, recorded, type, to) ==
    /\ sub[s] = from
    /\ sub' = [sub EXCEPT ![s] = to]
    /\ IF recorded THEN Send({s}, SystemEvent(type)) ELSE UNCHANGED <<stream, missed>>
    /\ UNCHANGED <<env, exec, term, snap, taken>>

ReplayStarted(s) ==
    Replay(s, "replayStarted", snap[s].started, "session.started", "replayError")

ReplayError(s) ==
    Replay(s, "replayError", snap[s].error, "start.error", "live")

\* The router starts to receive when Subscribe has returned.
Receive(s) ==
    /\ sub[s] \in {"live", "closed"}
    /\ taken[s] < Len(stream[s])
    /\ taken' = [taken EXCEPT ![s] = @ + 1]
    /\ UNCHANGED <<env, exec, term, sub, snap, stream, missed>>

\* Deleted under s.mu, then closed: no Emit can find it in between.
Unsubscribe(s) ==
    /\ sub[s] = "live"
    /\ sub' = [sub EXCEPT ![s] = "closed"]
    /\ UNCHANGED <<env, exec, term, snap, stream, taken, missed>>

Subscription(s) ==
    Register(s) \/ ReplayStarted(s) \/ ReplayError(s) \/ Receive(s) \/ Unsubscribe(s)

Next ==
    /\ ~crashed
    /\ \/ \E t \in Starters : Start(t) \/ Run(t)
       \/ \E a \in Actions : Submit(a)
       \/ \E c \in 1 .. Len(shell) : Stream(c) \/ ShellEnds(c)
       \/ \E s \in Subscribers : Subscription(s)
       \/ Cancel

Spec == Init /\ [][Next]_vars

(***************************************************************************)
(* Go runs every runnable goroutine, and what a handler calls (docker, the *)
(* terminal) is assumed to return; nothing makes a client submit, receive  *)
(* or leave, a shell print or end, or the daemon be stopped.               *)
(***************************************************************************)
Fairness ==
    /\ \A t \in Starters : WF_vars(~crashed /\ Start(t)) /\ WF_vars(~crashed /\ Run(t))
    /\ \A c \in 1 .. Cardinality(Actions) :
          WF_vars(~crashed /\ c <= Len(shell) /\ Stream(c))

FairSpec == Spec /\ Fairness

-----------------------------------------------------------------------------
TypeOK ==
    /\ once \in {"new", "running", "done"}
    /\ spc \in [Starters -> StarterStates]
    /\ {startedEvent, lastErrorEvent, ctxDone, crashed, ptyOnce} \subseteq BOOLEAN
    /\ items \in Seq(Actions) /\ accepted \in Seq(Actions)
    /\ finished \in Seq(Actions \union {NoAction})
    /\ xpc \in [Starters -> ExecutorStates]
    /\ cur \in [Starters -> Actions \union {NoAction}]
    /\ shell \in Seq({"live", "dead", "closed"})
    /\ reader \in Seq({"reading", "holding", "done"})
    /\ Len(reader) = Len(shell)
    /\ pty \in 0 .. Len(shell)
    /\ outputs \in 0 .. MaxOutputs
    /\ sub \in [Subscribers -> SubscriberStates]
    /\ snap \in [Subscribers -> [started : BOOLEAN, error : BOOLEAN]]
    /\ stream \in [Subscribers -> Seq([type : EventTypes, action : Actions \union {NoAction}])]
    /\ taken \in [Subscribers -> Nat]
    /\ missed \subseteq Subscribers

\* The executors that have an action at hand.
InFlight ==
    {t \in Starters : xpc[t] \notin {"none", "idle", "ended", "stopped"}}

\* Actions are executed once each, in the order they were accepted, whatever
\* Start, the terminal and the subscribers do meanwhile (executor.go:33-53).
ExecutesInOrder ==
    accepted = IF InFlight = {} THEN finished \o items
               ELSE finished \o <<cur[CHOOSE t \in InFlight : TRUE]>> \o items

\* A session is a serial executor, "All stateful mutations flow through Actions
\* and are serialized by the Session Executor" (docs/protocol.md:3), although
\* each Start could leave an executor running and a handler may fail at any step.
Serial == INSTANCE SerialExecutor WITH atWork <- {cur[t] : t \in InFlight}
ImplementsSerial == Serial!Spec

\* However Subscribe races with Start, a subscriber whose channel had room
\* has been sent how Start ended (session.go:191-194, 208-212, 225-245).
OutcomeReachesSubscriber ==
    \A s \in Subscribers :
        sub[s] = "live" /\ s \notin missed /\ once = "done" =>
            \E n \in 1 .. Len(stream[s]) :
                stream[s][n].type = IF startedEvent THEN "session.started"
                                                    ELSE "start.error"

Brackets == {"executor.busy", "action.started", "action.finished", "executor.idle"}
Follows(d, e) ==
    \/ /\ <<d.type, e.type>> \in {<<"executor.busy", "action.started">>,
                                 <<"action.started", "action.finished">>,
                                 <<"action.finished", "executor.idle">>}
       /\ d.action = e.action
    \/ d.type = "executor.idle" /\ e.type = "executor.busy" /\ d.action # e.action

IsBracket(s, n) == stream[s][n].type \in Brackets
NoBracketIn(s, from, to) == \A n \in from .. to : ~IsBracket(s, n)

\* A subscriber that missed nothing sees the executor's events of one action
\* complete before those of the next, from where it joined (executor.go:40-51).
StreamWellBracketed ==
    \A s \in Subscribers \ missed : \A m, n \in 1 .. Len(stream[s]) :
        m < n /\ IsBracket(s, m) /\ IsBracket(s, n) /\ NoBracketIn(s, m + 1, n - 1)
            => Follows(stream[s][m], stream[s][n])

\* No shell is left running without the session holding its terminal:
\* resetPTY closes the old one before a new one is attached (session.go:292).
NoOrphanShell == \A c \in 1 .. Len(shell) : shell[c] = "live" => c = pty

\* An action that a started session accepted is finished, unless the daemon
\* stops (executor.go:33-53): no handler outcome stops the executor.
AcceptedFinishes ==
    \A n \in 1 .. Cardinality(Actions) :
        Len(accepted) >= n ~>
            Len(finished) >= n \/ crashed \/ ctxDone \/ lastErrorEvent

\* The streamPTY of a terminal that was replaced exits (session.go:318-329):
\* resets do not pile up goroutines.
OldReadersEnd ==
    \A c \in 1 .. Cardinality(Actions) :
        (c <= Len(shell) /\ c # pty) ~>
            crashed \/ (c <= Len(shell) /\ reader[c] = "done")

\* The daemon survives whatever its handlers meet (docs/errors.md:3).
NeverPanics == ~crashed

\* "The event stream is sufficient to reconstruct session behavior"
\* (planning_docs/krellinv0architecture.md:741): no event is withheld from a subscriber.
StreamComplete == missed = {}

\* "Idle --> Busy : ActionQueue non-empty"
\* (planning_docs/krellinv0architecture.md:771): an accepted action is
\* executed, or the daemon stops.
QueueIsServed ==
    \A n \in 1 .. Cardinality(Actions) :
        Len(accepted) >= n ~> Len(finished) >= n \/ crashed \/ ctxDone
=============================================================================
