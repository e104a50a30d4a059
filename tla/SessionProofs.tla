--------------------------- MODULE SessionProofs ---------------------------
(***************************************************************************)
(* Proofs about Session, for any callers of Start, subscribers, actions    *)
(* and bounds. None of the four invariants is inductive: all rest on there *)
(* being one caller inside Start and one executor (OneStart); the order of *)
(* execution adds that an action is accepted once; what a subscriber sees  *)
(* adds what each phase of Start has recorded, and which bracket the phase *)
(* of the executor sent last.                                              *)
(***************************************************************************)
EXTENDS Session, SequenceTheorems, TLAPS

Starting == {"ensuring", "marked", "failed", "recorded"}
Executing == {"dequeued", "busy", "handling", "writing", "recreated", "dropped",
              "reattached", "bannered", "handled"}

\* sync.Once lets one caller in, and one executor is what it may leave.
OneStart ==
    /\ \A t \in Starters : spc[t] \in Starting => once = "running"
    /\ \A t \in Starters : xpc[t] # "none" => once = "done"
    /\ \A t, u \in Starters : spc[t] \in Starting /\ spc[u] \in Starting => t = u
    /\ \A t, u \in Starters : xpc[t] # "none" /\ xpc[u] # "none" => t = u

\* Where an action is: finished, at hand or queued.
InOrder ==
    /\ \A t \in Starters : xpc[t] \in Executing =>
           cur[t] \in Actions /\ accepted = (finished \o <<cur[t]>>) \o items
    /\ (\A t \in Starters : xpc[t] \notin Executing) => accepted = finished \o items

AcceptedOnce ==
    \A m, n \in 1 .. Len(accepted) : accepted[m] = accepted[n] => m = n

\* resetPTY has left no terminal for the attach that follows it.
TerminalDropped == \A t \in Starters : xpc[t] = "dropped" => pty = 0

\* What Start has recorded on its way.
Recorded ==
    /\ once = "new" => ~startedEvent /\ ~lastErrorEvent
    /\ once = "done" => startedEvent \/ lastErrorEvent
    /\ \A t \in Starters : spc[t] \in Starting =>
           /\ startedEvent <=> spc[t] = "marked"
           /\ lastErrorEvent <=> spc[t] = "recorded"

Got(s, type) == \E n \in 1 .. Len(stream[s]) : stream[s][n].type = type

\* What was recorded before it registered is replayed to a subscriber; what is
\* recorded later is emitted before Start ends.
Told ==
    \A s \in Registered \ missed :
        /\ once = "done" /\ startedEvent /\ ~snap[s].started => Got(s, "session.started")
        /\ once = "done" /\ lastErrorEvent /\ ~snap[s].error => Got(s, "start.error")
        /\ sub[s] \in {"replayError", "live"} /\ snap[s].started => Got(s, "session.started")
        /\ sub[s] = "live" /\ snap[s].error => Got(s, "start.error")

IsFinished(a) == \E n \in 1 .. Len(finished) : finished[n] = a

\* The bracket that the executor t has sent last.
IsLatest(t, e) ==
    /\ xpc[t] \in {"idle", "stopped", "dequeued"} =>
           e.type = "executor.idle" /\ IsFinished(e.action)
    /\ xpc[t] = "busy" => e = Event("executor.busy", cur[t])
    /\ xpc[t] \in Executing \ {"dequeued", "busy"} => e = Event("action.started", cur[t])
    /\ xpc[t] = "ended" => e = Event("action.finished", cur[t])

IsLastBracket(s, n) == IsBracket(s, n) /\ NoBracketIn(s, n + 1, Len(stream[s]))

StreamInPhase ==
    \A s \in Registered \ missed : \A n \in 1 .. Len(stream[s]) :
        /\ IsBracket(s, n) => \E t \in Starters : xpc[t] # "none"
        /\ IsLastBracket(s, n) =>
               \A t \in Starters : xpc[t] # "none" => IsLatest(t, stream[s][n])

EndedIsFinished == \A t \in Starters : xpc[t] = "ended" => IsFinished(cur[t])
NothingBefore == \A s \in Subscribers : sub[s] = "out" => stream[s] = << >>

-----------------------------------------------------------------------------
(***************************************************************************)
(* Types, in the parts that a step changes together.                       *)
(***************************************************************************)
Events == [type : EventTypes, action : Actions \union {NoAction}]

Flags ==
    /\ startedEvent \in BOOLEAN /\ lastErrorEvent \in BOOLEAN /\ ctxDone \in BOOLEAN
    /\ crashed \in BOOLEAN /\ ptyOnce \in BOOLEAN

ControlTypes ==
    /\ once \in {"new", "running", "done"}
    /\ spc \in [Starters -> StarterStates]
    /\ xpc \in [Starters -> ExecutorStates]
    /\ cur \in [Starters -> Actions \union {NoAction}]
    /\ \A t \in Starters : xpc[t] \in Executing => cur[t] \in Actions

QueueTypes ==
    /\ items \in Seq(Actions) /\ accepted \in Seq(Actions)
    /\ finished \in Seq(Actions \union {NoAction})

TermTypes ==
    /\ shell \in Seq({"live", "dead", "closed"})
    /\ reader \in Seq({"reading", "holding", "done"})
    /\ Len(reader) = Len(shell)
    /\ pty \in 0 .. Len(shell)
    /\ outputs \in 0 .. MaxOutputs

HubTypes ==
    /\ sub \in [Subscribers -> SubscriberStates]
    /\ snap \in [Subscribers -> [started : BOOLEAN, error : BOOLEAN]]
    /\ stream \in [Subscribers -> Seq(Events)]
    /\ taken \in [Subscribers -> Nat]
    /\ missed \subseteq Subscribers

Types == Flags /\ ControlTypes /\ QueueTypes /\ TermTypes /\ HubTypes

LEMMA TypesAreTypes == Types => TypeOK
<1>1. Flags => {startedEvent, lastErrorEvent, ctxDone, crashed, ptyOnce} \subseteq BOOLEAN
  BY Zenon DEF Flags
<1>. QED
  BY <1>1 DEF Types, ControlTypes, QueueTypes, TermTypes, HubTypes, Events, TypeOK

LEMMA TypesInit == Init => Types
<1>. SUFFICES ASSUME Init PROVE Types
  OBVIOUS
<1>1. Flags
  BY Zenon DEF Init, Flags
<1>2. ControlTypes
  BY DEF Init, ControlTypes, StarterStates, ExecutorStates, Executing
<1>3. QueueTypes
  BY EmptySeq DEF Init, QueueTypes
<1>4. TermTypes
  BY EmptySeq, BoundsNat DEF Init, TermTypes
<1>5. HubTypes
  <2>1. \A s \in Subscribers : stream[s] \in Seq(Events)
    BY EmptySeq DEF Init
  <2>. QED
    BY <2>1 DEF Init, HubTypes, SubscriberStates
<1>. QED
  BY <1>1, <1>2, <1>3, <1>4, <1>5 DEF Types

-----------------------------------------------------------------------------
(***************************************************************************)
(* What the operators of the hub do.                                       *)
(***************************************************************************)
LEMMA SendFacts ==
  ASSUME HubTypes, NEW to \in SUBSET Subscribers, NEW e \in Events, Send(to, e)
  PROVE  /\ stream' \in [Subscribers -> Seq(Events)] /\ missed' \subseteq Subscribers
         /\ missed \subseteq missed'
         /\ \A s \in Subscribers : stream'[s] = stream[s] \/ stream'[s] = Append(stream[s], e)
         /\ \A s \in Subscribers \ to : stream'[s] = stream[s]
         /\ \A s \in to \ missed' : stream'[s] = Append(stream[s], e)
<1>1. \A s \in Subscribers : stream[s] \in Seq(Events) /\ Append(stream[s], e) \in Seq(Events)
  BY AppendProperties DEF HubTypes
<1>2. stream' = [s \in Subscribers |->
                     IF s \in to /\ HasRoom(s) THEN Append(stream[s], e) ELSE stream[s]]
  BY DEF Send
<1>3. missed' = missed \union {s \in to : ~HasRoom(s)}
  BY DEF Send
<1>4. missed' \subseteq Subscribers /\ missed \subseteq missed'
  BY <1>3 DEF HubTypes
<1>5. \A s \in Subscribers : stream'[s] =
          IF s \in to /\ HasRoom(s) THEN Append(stream[s], e) ELSE stream[s]
  BY <1>2
<1>6. stream' \in [Subscribers -> Seq(Events)]
  BY <1>1, <1>2
<1>. QED
  BY <1>3, <1>4, <1>5, <1>6

\* An event reaches who is registered, or is missed.
LEMMA EmitFacts ==
  ASSUME HubTypes, NEW e \in Events, Emit(e)
  PROVE  /\ HubTypes' /\ UNCHANGED <<sub, snap>>
         /\ missed \subseteq missed'
         /\ \A s \in Subscribers : stream'[s] = stream[s] \/ stream'[s] = Append(stream[s], e)
         /\ \A s \in Subscribers \ Registered : stream'[s] = stream[s]
         /\ \A s \in Registered \ missed' : stream'[s] = Append(stream[s], e)
<1>1. Registered \in SUBSET Subscribers
  BY DEF Registered
<1>2. Send(Registered, e) /\ UNCHANGED <<sub, snap, taken>>
  BY DEF Emit
<1>. QED
  BY <1>1, <1>2, SendFacts DEF HubTypes

\* The goroutines of Start, Run and streamPTY touch the hub by Emit alone.
LEMMA GoroutinesEmit ==
  ASSUME Types, \/ \E t \in Starters : Start(t) \/ Run(t)
                \/ \E c \in 1 .. Len(shell) : Stream(c) \/ ShellEnds(c)
  PROVE  UNCHANGED hub \/ \E e \in Events : Emit(e)
<1>1. \A type \in EventTypes : SystemEvent(type) \in Events
  BY DEF SystemEvent, Event, Events
<1>2. \A type \in EventTypes, t \in Starters : Event(type, cur[t]) \in Events
  BY DEF Event, Events, Types, ControlTypes
<1>3. ASSUME NEW t \in Starters, Start(t)
      PROVE  UNCHANGED hub \/ \E e \in Events : Emit(e)
  <2>1. UNCHANGED hub \/ \E type \in EventTypes : Emit(SystemEvent(type))
    BY <1>3 DEF Start, StartEnters, StartReturns, MarkStarted, EmitStarted, EnsureFails,
                RecordError, EmitError, EventTypes
  <2>. QED
    BY <2>1, <1>1
<1>4. ASSUME NEW t \in Starters, Run(t)
      PROVE  UNCHANGED hub \/ \E e \in Events : Emit(e)
  <2>1. CASE EmitNext(t)
    <3>1. \E type \in EventTypes : Emit(Event(type, cur[t]))
      BY <2>1 DEF EmitNext, Script, EventTypes
    <3>. QED
      BY <3>1, <1>2
  <2>2. CASE RunAttaches(t) \/ ResetAttaches(t)
    <3>1. UNCHANGED hub \/ Emit(Event("pty.error", NoAction))
      BY <2>2 DEF RunAttaches, ResetAttaches, AttachFails
    <3>. QED
      BY <3>1, <1>1 DEF SystemEvent, EventTypes
  <2>3. CASE EmitFinished(t) \/ EmitIdle(t) \/ HandlePlain(t)
    <3>1. \E type \in EventTypes : Emit(Event(type, cur[t]))
      BY <2>3 DEF EmitFinished, EmitIdle, HandlePlain, EventTypes
    <3>. QED
      BY <3>1, <1>2
  <2>4. CASE \/ Dequeue(t) \/ DequeueFails(t) \/ HandlerFails(t) \/ RunReturns(t)
             \/ RunPanics(t) \/ ResetRecreates(t) \/ ResetDropsTerminal(t)
    BY <2>4 DEF Dequeue, DequeueFails, HandlerFails, RunReturns, RunPanics, ResetRecreates,
                ResetDropsTerminal
  <2>. QED
    BY <1>4, <2>1, <2>2, <2>3, <2>4 DEF Run
<1>5. ASSUME NEW c \in 1 .. Len(shell), Stream(c) \/ ShellEnds(c)
      PROVE  UNCHANGED hub \/ \E e \in Events : Emit(e)
  <2>1. UNCHANGED hub \/ \E type \in EventTypes : Emit(SystemEvent(type))
    BY <1>5 DEF Stream, ReadOutput, EmitOutput, ReadFails, ShellEnds, EventTypes
  <2>. QED
    BY <2>1, <1>1
<1>. QED
  BY <1>3, <1>4, <1>5

\* A replay, which the subscriber sends itself.
LEMMA ReplayFacts ==
  ASSUME HubTypes, NEW s \in Subscribers, NEW from, NEW recorded \in BOOLEAN,
         NEW type \in EventTypes, NEW to \in SubscriberStates,
         Replay(s, from, recorded, type, to)
  PROVE  /\ HubTypes' /\ snap' = snap /\ missed \subseteq missed'
         /\ sub[s] = from /\ sub' = [sub EXCEPT ![s] = to]
         /\ \A r \in Subscribers : stream'[r] = stream[r] \/ stream'[r] = Append(stream[r], SystemEvent(type))
         /\ \A r \in Subscribers \ {s} : stream'[r] = stream[r]
         /\ recorded /\ s \notin missed' => stream'[s] = Append(stream[s], SystemEvent(type))
<1>1. SystemEvent(type) \in Events /\ {s} \in SUBSET Subscribers
  BY DEF SystemEvent, Event, Events
<1>2. sub[s] = from /\ sub' = [sub EXCEPT ![s] = to] /\ UNCHANGED <<snap, taken>>
  BY DEF Replay
<1>3. CASE recorded
  <2>1. Send({s}, SystemEvent(type))
    BY <1>3 DEF Replay
  <2>2. /\ stream' \in [Subscribers -> Seq(Events)] /\ missed' \subseteq Subscribers
        /\ missed \subseteq missed'
        /\ \A r \in Subscribers : stream'[r] = stream[r] \/ stream'[r] = Append(stream[r], SystemEvent(type))
        /\ \A r \in Subscribers \ {s} : stream'[r] = stream[r]
        /\ s \notin missed' => stream'[s] = Append(stream[s], SystemEvent(type))
    BY <1>1, <2>1, SendFacts
  <2>. QED
    BY <1>2, <2>2 DEF HubTypes
<1>4. CASE ~recorded
  <2>1. UNCHANGED <<stream, missed>>
    BY <1>4 DEF Replay
  <2>. QED
    BY <1>2, <1>4, <2>1 DEF HubTypes
<1>. QED
  BY <1>3, <1>4

LEMMA SubscriptionTypes ==
  ASSUME Types, NEW s \in Subscribers, Subscription(s)
  PROVE  HubTypes' /\ UNCHANGED <<env, exec, term>>
<1>1. HubTypes /\ startedEvent \in BOOLEAN /\ lastErrorEvent \in BOOLEAN
  BY DEF Types, Flags
<1>2. CASE Register(s)
  <2>1. [started |-> startedEvent, error |-> lastErrorEvent] \in [started : BOOLEAN, error : BOOLEAN]
    BY <1>1
  <2>. QED
    BY <1>1, <1>2, <2>1 DEF Register, HubTypes, SubscriberStates
<1>3. CASE ReplayStarted(s)
  <2>1. snap[s].started \in BOOLEAN
    BY <1>1 DEF HubTypes
  <2>. QED
    BY <1>1, <1>3, <2>1, ReplayFacts DEF ReplayStarted, Replay, SubscriberStates, EventTypes
<1>4. CASE ReplayError(s)
  <2>1. snap[s].error \in BOOLEAN
    BY <1>1 DEF HubTypes
  <2>. QED
    BY <1>1, <1>4, <2>1, ReplayFacts DEF ReplayError, Replay, SubscriberStates, EventTypes
<1>5. CASE Receive(s)
  <2>1. taken[s] + 1 \in Nat
    BY <1>1 DEF HubTypes
  <2>. QED
    BY <1>1, <1>5, <2>1 DEF Receive, HubTypes
<1>6. CASE Unsubscribe(s)
  BY <1>1, <1>6 DEF Unsubscribe, HubTypes, SubscriberStates
<1>. QED
  BY <1>2, <1>3, <1>4, <1>5, <1>6 DEF Subscription

LEMMA HubStep == Types /\ [Next]_vars => HubTypes'
<1>. SUFFICES ASSUME Types, [Next]_vars PROVE HubTypes'
  OBVIOUS
<1>1. HubTypes
  BY DEF Types
<1>2. CASE UNCHANGED hub \/ \E e \in Events : Emit(e)
  <2>1. CASE UNCHANGED hub
    BY <1>1, <2>1 DEF hub, HubTypes
  <2>2. CASE \E e \in Events : Emit(e)
    BY <1>1, <2>2, EmitFacts
  <2>. QED
    BY <1>2, <2>1, <2>2
<1>3. ASSUME NEW s \in Subscribers, Subscription(s) PROVE HubTypes'
  BY <1>3, SubscriptionTypes
<1>4. CASE (\E a \in Actions : Submit(a)) \/ Cancel \/ UNCHANGED vars
  BY <1>2, <1>4 DEF Submit, Cancel, vars
<1>. QED
  BY <1>2, <1>3, <1>4, GoroutinesEmit DEF Next

-----------------------------------------------------------------------------
(***************************************************************************)
(* Every step keeps the types.                                             *)
(***************************************************************************)
\* Flags change by assignment of TRUE or FALSE.
FlagsAssigned ==
    /\ startedEvent' = startedEvent \/ startedEvent' = TRUE
    /\ lastErrorEvent' = lastErrorEvent \/ lastErrorEvent' = TRUE
    /\ ctxDone' = ctxDone \/ ctxDone' = TRUE
    /\ crashed' = crashed \/ crashed' = TRUE
    /\ ptyOnce' = ptyOnce \/ ptyOnce' = TRUE \/ ptyOnce' = FALSE

LEMMA FlagsKept == Flags /\ FlagsAssigned => Flags'
BY Zenon DEF Flags, FlagsAssigned

StartSteps(t) ==
    /\ UNCHANGED <<ctxDone, queue, crashed, cur, finished, term>>
    /\ \E from, to \in StarterStates : StarterGoes(t, from, to)
    /\ once' \in {once, "running", "done"}
    /\ xpc' = xpc \/ xpc' = [xpc EXCEPT ![t] = "idle"]
    /\ startedEvent' = startedEvent \/ startedEvent' = TRUE
    /\ lastErrorEvent' = lastErrorEvent \/ lastErrorEvent' = TRUE

LEMMA StartFacts == ASSUME NEW t \in Starters, Start(t) PROVE StartSteps(t)
BY DEF Start, StartEnters, StartReturns, MarkStarted, EmitStarted, EnsureFails, RecordError,
       EmitError, StarterGoes, StarterStates, StartSteps, exec

LEMMA StartTypes ==
  ASSUME Types, NEW t \in Starters, Start(t)
  PROVE  Flags' /\ ControlTypes' /\ QueueTypes' /\ TermTypes'
<1>1. StartSteps(t)
  BY StartFacts
<1>2. FlagsAssigned
  BY <1>1 DEF StartSteps, FlagsAssigned, term
<1>3. ControlTypes'
  BY <1>1 DEF StartSteps, StarterGoes, Types, ControlTypes, ExecutorStates, Executing
<1>4. QueueTypes' /\ TermTypes'
  BY <1>1 DEF StartSteps, Types, QueueTypes, TermTypes, queue, term
<1>. QED
  BY <1>2, <1>3, <1>4, FlagsKept DEF Types

\* A new terminal.
LEMMA AttachTypes == ASSUME TermTypes, Attach PROVE TermTypes' /\ ptyOnce' = TRUE
<1>1. /\ shell' \in Seq({"live", "dead", "closed"}) /\ Len(shell') = Len(shell) + 1
      /\ reader' \in Seq({"reading", "holding", "done"}) /\ Len(reader') = Len(reader) + 1
  BY AppendProperties DEF Attach, TermTypes
<1>. QED
  BY <1>1 DEF Attach, TermTypes

\* A terminal whose shell changes is still one.
LEMMA ShellTypes ==
  ASSUME TermTypes, NEW f, f \in [DOMAIN shell -> {"live", "dead", "closed"}],
         shell' = f, UNCHANGED <<reader, outputs>>, pty' \in {pty, 0}
  PROVE  TermTypes' /\ Len(shell') = Len(shell)
<1>1. DOMAIN shell = 1 .. Len(shell) /\ Len(shell) \in Nat
  BY LenProperties DEF TermTypes
<1>2. f \in Seq({"live", "dead", "closed"}) /\ Len(f) = Len(shell)
  BY <1>1, IsASeq
<1>. QED
  BY <1>2 DEF TermTypes

LEMMA RunTypes ==
  ASSUME Types, NEW t \in Starters, Run(t)
  PROVE  Flags' /\ ControlTypes' /\ QueueTypes' /\ TermTypes'
<1>. USE DEF ControlTypes, ExecutorStates, Executing, ExecutorGoes
<1>1. Flags /\ ControlTypes /\ QueueTypes /\ TermTypes
  BY DEF Types
<1>2. ASSUME UNCHANGED <<env, term>> PROVE Flags' /\ TermTypes'
  BY <1>1, <1>2 DEF env, start, queue, term, Flags, TermTypes
<1>3. ASSUME UNCHANGED <<env, finished>> PROVE QueueTypes'
  BY <1>1, <1>3 DEF env, queue, QueueTypes
<1>4. CASE Dequeue(t)
  <2>1. Head(items) \in Actions /\ Tail(items) \in Seq(Actions)
    BY <1>1, <1>4, HeadTailProperties DEF Dequeue, QueueTypes
  <2>2. ControlTypes'
    BY <1>1, <1>4, <2>1 DEF Dequeue, start
  <2>3. QueueTypes'
    BY <1>1, <1>4, <2>1 DEF Dequeue, QueueTypes
  <2>4. Flags' /\ TermTypes'
    BY <1>1, <1>4 DEF Dequeue, start, term, Flags, TermTypes
  <2>. QED
    BY <2>2, <2>3, <2>4
<1>5. CASE DequeueFails(t) \/ HandlerFails(t) \/ RunReturns(t) \/ HandlePlain(t)
  <2>1. ControlTypes'
    BY <1>1, <1>5 DEF DequeueFails, HandlerFails, RunReturns, AtWrite, HandlePlain, env, start
  <2>2. UNCHANGED <<env, term, finished>>
    BY <1>5 DEF DequeueFails, HandlerFails, RunReturns, HandlePlain
  <2>. QED
    BY <1>2, <1>3, <2>1, <2>2
<1>6. CASE EmitNext(t)
  <2>1. ControlTypes'
    BY <1>1, <1>6 DEF EmitNext, Script, env, start
  <2>2. UNCHANGED <<env, term, finished>>
    BY <1>6 DEF EmitNext
  <2>. QED
    BY <1>2, <1>3, <2>1, <2>2
<1>7. CASE EmitFinished(t)
  <2>1. ControlTypes'
    BY <1>1, <1>7 DEF EmitFinished, env, start
  <2>2. QueueTypes'
    BY <1>1, <1>7, AppendProperties DEF EmitFinished, env, queue, QueueTypes
  <2>3. UNCHANGED <<env, term>>
    BY <1>7 DEF EmitFinished
  <2>. QED
    BY <1>2, <2>1, <2>2, <2>3
<1>8. CASE EmitIdle(t)
  <2>1. ControlTypes'
    BY <1>1, <1>8 DEF EmitIdle, env, start
  <2>2. UNCHANGED <<env, term, finished>>
    BY <1>8 DEF EmitIdle
  <2>. QED
    BY <1>2, <1>3, <2>1, <2>2
<1>9. CASE RunPanics(t)
  <2>1. FlagsAssigned
    BY <1>9 DEF RunPanics, start, term, FlagsAssigned
  <2>2. ControlTypes' /\ QueueTypes' /\ TermTypes'
    BY <1>1, <1>9 DEF RunPanics, start, queue, exec, term, QueueTypes, TermTypes
  <2>. QED
    BY <1>1, <2>1, <2>2, FlagsKept
<1>10. CASE RunAttaches(t) \/ ResetAttaches(t)
  <2>1. UNCHANGED <<env, cur, finished>> /\ (Attach \/ AttachFails(t))
    BY <1>10 DEF RunAttaches, ResetAttaches
  <2>2. ControlTypes'
    BY <1>1, <1>10, <2>1 DEF RunAttaches, ResetAttaches, env, start
  <2>3. TermTypes' /\ ptyOnce' = TRUE
    BY <1>1, <2>1, AttachTypes DEF AttachFails, TermTypes
  <2>4. FlagsAssigned
    BY <2>1, <2>3 DEF env, start, FlagsAssigned
  <2>. QED
    BY <1>1, <1>3, <2>1, <2>2, <2>3, <2>4, FlagsKept
<1>11. CASE ResetRecreates(t) \/ ResetDropsTerminal(t)
  <2>1. /\ UNCHANGED <<env, cur, finished, reader, outputs>> /\ pty' \in {pty, 0}
        /\ ptyOnce' = ptyOnce \/ ptyOnce' = FALSE
    BY <1>11 DEF ResetRecreates, ResetDropsTerminal
  <2>2. shell' \in [DOMAIN shell -> {"live", "dead", "closed"}]
    <3>1. \A c \in DOMAIN shell : shell[c] \in {"live", "dead", "closed"}
      BY <1>1, ElementOfSeq, LenProperties DEF TermTypes
    <3>. QED
      BY <1>11, <3>1 DEF ResetRecreates, ResetDropsTerminal, ShellsClosed
  <2>3. TermTypes'
    BY <1>1, <2>1, <2>2, ShellTypes
  <2>4. ControlTypes'
    BY <1>1, <1>11, <2>1 DEF ResetRecreates, ResetDropsTerminal, env, start
  <2>5. FlagsAssigned
    BY <2>1 DEF env, start, FlagsAssigned
  <2>. QED
    BY <1>1, <1>3, <2>1, <2>3, <2>4, <2>5, FlagsKept
<1>. QED
  BY <1>4, <1>5, <1>6, <1>7, <1>8, <1>9, <1>10, <1>11 DEF Run

LEMMA StreamTypes ==
  ASSUME Types, NEW c \in 1 .. Len(shell), Stream(c) \/ ShellEnds(c)
  PROVE  Flags' /\ ControlTypes' /\ QueueTypes' /\ TermTypes'
<1>1. Flags /\ ControlTypes /\ QueueTypes /\ TermTypes
  BY DEF Types
<1>2. UNCHANGED <<env, exec, pty, ptyOnce>>
  BY DEF Stream, ReadOutput, EmitOutput, ReadFails, ShellEnds
<1>3. Flags' /\ ControlTypes' /\ QueueTypes'
  BY <1>1, <1>2 DEF env, start, queue, exec, Flags, ControlTypes, QueueTypes
<1>4. CASE Stream(c)
  <2>1. \E r \in {"reading", "holding", "done"} : reader' = [reader EXCEPT ![c] = r]
    BY <1>4 DEF Stream, ReadOutput, EmitOutput, ReadFails
  <2>2. /\ shell' = shell
        /\ outputs' = outputs \/ (outputs < MaxOutputs /\ outputs' = outputs + 1)
    BY <1>4 DEF Stream, ReadOutput, EmitOutput, ReadFails
  <2>3. reader' \in Seq({"reading", "holding", "done"}) /\ Len(reader') = Len(reader)
    BY <1>1, <2>1, ExceptSeq DEF TermTypes
  <2>. QED
    BY <1>1, <1>2, <1>3, <2>2, <2>3, BoundsNat DEF TermTypes
<1>5. CASE ShellEnds(c)
  <2>1. shell' \in [DOMAIN shell -> {"live", "dead", "closed"}]
    <3>1. \A d \in DOMAIN shell : shell[d] \in {"live", "dead", "closed"}
      BY <1>1, ElementOfSeq, LenProperties DEF TermTypes
    <3>. QED
      BY <1>5, <3>1 DEF ShellEnds
  <2>. QED
    BY <1>1, <1>2, <1>3, <1>5, <2>1, ShellTypes DEF ShellEnds
<1>. QED
  BY <1>4, <1>5

LEMMA TypesStep == Types /\ [Next]_vars => Types'
<1>. SUFFICES ASSUME Types, [Next]_vars PROVE Flags' /\ ControlTypes' /\ QueueTypes' /\ TermTypes'
  BY HubStep DEF Types
<1>1. ASSUME NEW t \in Starters, Start(t) \/ Run(t)
      PROVE  Flags' /\ ControlTypes' /\ QueueTypes' /\ TermTypes'
  BY <1>1, StartTypes, RunTypes
<1>2. ASSUME NEW c \in 1 .. Len(shell), Stream(c) \/ ShellEnds(c)
      PROVE  Flags' /\ ControlTypes' /\ QueueTypes' /\ TermTypes'
  BY <1>2, StreamTypes
<1>3. ASSUME NEW a \in Actions, Submit(a)
      PROVE  Flags' /\ ControlTypes' /\ QueueTypes' /\ TermTypes'
  <2>1. items' \in Seq(Actions) /\ accepted' \in Seq(Actions)
    BY <1>3, AppendProperties DEF Submit, Types, QueueTypes
  <2>. QED
    BY <1>3, <2>1 DEF Submit, Types, start, exec, term, Flags, ControlTypes, QueueTypes, TermTypes
<1>4. CASE Cancel
  <2>1. FlagsAssigned
    BY <1>4 DEF Cancel, start, term, FlagsAssigned
  <2>2. ControlTypes' /\ QueueTypes' /\ TermTypes'
    BY <1>4 DEF Cancel, start, queue, exec, term, Types, ControlTypes, QueueTypes, TermTypes
  <2>. QED
    BY <2>1, <2>2, FlagsKept DEF Types
<1>5. CASE UNCHANGED <<env, exec, term>>
  BY <1>5 DEF env, start, queue, exec, term, Types, Flags, ControlTypes, QueueTypes, TermTypes
<1>6. ASSUME NEW s \in Subscribers, Subscription(s) PROVE UNCHANGED <<env, exec, term>>
  BY <1>6, SubscriptionTypes
<1>. QED
  BY <1>1, <1>2, <1>3, <1>4, <1>5, <1>6 DEF Next, vars

LEMMA Typed == Spec => []Types
BY TypesInit, TypesStep, PTL DEF Spec

\* Every variable of a session keeps its type, whatever its goroutines do.
THEOREM TypeCorrect == Spec => []TypeOK
BY Typed, TypesAreTypes, PTL

-----------------------------------------------------------------------------
(***************************************************************************)
(* One caller inside Start, one executor.                                  *)
(***************************************************************************)
RunSteps(t) ==
    /\ UNCHANGED start
    /\ xpc[t] # "none" /\ xpc'[t] # "none"
    /\ \A u \in Starters \ {t} : xpc'[u] = xpc[u] /\ cur'[u] = cur[u]

LEMMA RunFacts == ASSUME Types, NEW t \in Starters, Run(t) PROVE RunSteps(t)
<1>1. UNCHANGED start
  BY DEF Run, Dequeue, DequeueFails, EmitNext, EmitFinished, EmitIdle, HandlePlain,
         HandlerFails, RunAttaches, RunReturns, RunPanics, ResetRecreates,
         ResetDropsTerminal, ResetAttaches, env
<1>2. \/ UNCHANGED <<xpc, cur>> /\ AtWrite(t)
      \/ \E from, to \in ExecutorStates \ {"none"} :
            /\ ExecutorGoes(t, from, to)
            /\ cur' = cur \/ \E a : cur' = [cur EXCEPT ![t] = a]
  <2>1. CASE RunPanics(t)
    BY <2>1 DEF RunPanics, exec
  <2>2. CASE RunReturns(t)
    <3>1. xpc[t] \in {"writing", "handling"} /\ xpc' = [xpc EXCEPT ![t] = "handled"] /\ cur' = cur
      BY <2>2 DEF RunReturns, AtWrite
    <3>. QED
      BY <3>1 DEF ExecutorGoes, ExecutorStates
  <2>3. CASE EmitNext(t)
    BY <2>3 DEF EmitNext, Script, ExecutorStates
  <2>4. CASE Dequeue(t) \/ EmitIdle(t)
    BY <2>4 DEF Dequeue, EmitIdle, ExecutorStates
  <2>5. CASE \/ DequeueFails(t) \/ EmitFinished(t) \/ HandlePlain(t) \/ HandlerFails(t)
             \/ RunAttaches(t) \/ ResetRecreates(t) \/ ResetDropsTerminal(t) \/ ResetAttaches(t)
    <3>1. cur' = cur
      BY <2>5 DEF DequeueFails, EmitFinished, HandlePlain, HandlerFails, RunAttaches,
                  ResetRecreates, ResetDropsTerminal, ResetAttaches
    <3>2. \E from, to \in ExecutorStates \ {"none"} : ExecutorGoes(t, from, to)
      BY <2>5 DEF DequeueFails, EmitFinished, HandlePlain, HandlerFails, RunAttaches,
                  ResetRecreates, ResetDropsTerminal, ResetAttaches, ExecutorStates
    <3>. QED
      BY <3>1, <3>2
  <2>. QED
    BY <2>1, <2>2, <2>3, <2>4, <2>5 DEF Run
<1>3. /\ xpc[t] # "none" /\ xpc'[t] # "none"
      /\ \A u \in Starters \ {t} : xpc'[u] = xpc[u] /\ cur'[u] = cur[u]
  BY <1>2 DEF Types, ControlTypes, ExecutorGoes, AtWrite
<1>. QED
  BY <1>1, <1>3 DEF RunSteps

\* Everybody else leaves Start and the executor alone.
LEMMA OthersFacts ==
  ASSUME Types, [Next]_vars, ~\E t \in Starters : Start(t) \/ Run(t)
  PROVE  UNCHANGED <<start, exec>>
<1>1. ASSUME NEW s \in Subscribers, Subscription(s) PROVE UNCHANGED <<start, exec>>
  BY <1>1, SubscriptionTypes DEF env
<1>2. ASSUME NEW c \in 1 .. Len(shell), Stream(c) \/ ShellEnds(c) PROVE UNCHANGED <<start, exec>>
  BY <1>2 DEF Stream, ReadOutput, EmitOutput, ReadFails, ShellEnds, env
<1>. QED
  BY <1>1, <1>2 DEF Next, Submit, Cancel, vars, env

LEMMA OneStartInit == Init => OneStart
BY DEF Init, OneStart, Starting

LEMMA OneStartStep == Types /\ OneStart /\ [Next]_vars => OneStart'
<1>. SUFFICES ASSUME Types, OneStart, [Next]_vars PROVE OneStart'
  OBVIOUS
<1>. USE DEF OneStart, Starting
<1>1. ASSUME NEW t \in Starters, Start(t) PROVE OneStart'
  <2>1. CASE StartEnters(t)
    BY <1>1, <2>1 DEF StartEnters, OnceFree, StarterGoes, exec, Types, ControlTypes
  <2>2. CASE StartReturns(t)
    BY <1>1, <2>2 DEF StartReturns, StarterGoes, exec, Types, ControlTypes
  <2>3. CASE MarkStarted(t) \/ EnsureFails(t) \/ RecordError(t)
    BY <1>1, <2>3 DEF MarkStarted, EnsureFails, RecordError, StarterGoes, exec, Types, ControlTypes
  <2>4. CASE EmitStarted(t)
    BY <1>1, <2>4 DEF EmitStarted, StarterGoes, Types, ControlTypes
  <2>5. CASE EmitError(t)
    BY <1>1, <2>5 DEF EmitError, StarterGoes, exec, Types, ControlTypes
  <2>. QED
    BY <1>1, <2>1, <2>2, <2>3, <2>4, <2>5 DEF Start
<1>2. ASSUME NEW t \in Starters, Run(t) PROVE OneStart'
  BY <1>2, RunFacts DEF RunSteps, start
<1>3. CASE UNCHANGED <<start, exec>>
  BY <1>3 DEF start, exec
<1>. QED
  BY <1>1, <1>2, <1>3, OthersFacts

-----------------------------------------------------------------------------
(***************************************************************************)
(* The terminal.                                                           *)
(***************************************************************************)
TermInv == NoOrphanShell /\ TerminalDropped

LEMMA TermInvInit == Init => TermInv
BY DEF Init, TermInv, NoOrphanShell, TerminalDropped

LEMMA AttachFacts ==
  ASSUME Types, NoOrphanShell, pty = 0, Attach
  PROVE  NoOrphanShell'
<1>1. \A c \in 1 .. Len(shell) : shell[c] # "live"
  BY LenProperties DEF NoOrphanShell, Types, TermTypes
<1>2. /\ Len(shell') = Len(shell) + 1 /\ pty' = Len(shell) + 1
      /\ \A c \in 1 .. Len(shell) : shell'[c] = shell[c]
  BY AppendProperties DEF Attach, Types, TermTypes
<1>. QED
  BY <1>1, <1>2, LenProperties DEF NoOrphanShell, Types, TermTypes

LEMMA TermInvRun ==
  ASSUME Types, OneStart, TermInv, NEW t \in Starters, Run(t)
  PROVE  TermInv'
<1>. USE DEF TermInv, Types, ControlTypes
<1>1. RunSteps(t)
  BY RunFacts
<1>2. \A u \in Starters \ {t} : xpc'[u] # "dropped"
  BY <1>1 DEF RunSteps, OneStart
<1>3. CASE RunAttaches(t) \/ ResetAttaches(t)
  <2>1. xpc'[t] \in {"writing", "handled", "reattached"}
    BY <1>3 DEF RunAttaches, ResetAttaches, ExecutorGoes
  <2>2. pty = 0
    BY <1>3 DEF RunAttaches, ResetAttaches, ExecutorGoes, NeedsAttach, TerminalDropped
  <2>3. Attach \/ UNCHANGED <<pty, shell>>
    BY <1>3 DEF RunAttaches, ResetAttaches, AttachFails
  <2>4. NoOrphanShell'
    BY <2>2, <2>3, AttachFacts DEF NoOrphanShell
  <2>. QED
    BY <1>2, <2>1, <2>4 DEF TerminalDropped
<1>4. CASE ResetRecreates(t)
  <2>1. xpc'[t] = "recreated" /\ pty' = pty
    BY <1>4 DEF ResetRecreates, ExecutorGoes
  <2>2. Len(shell') = Len(shell) /\ \A c \in 1 .. Len(shell) : shell'[c] # "live"
    <3>1. DOMAIN shell = 1 .. Len(shell) /\ Len(shell) \in Nat
      BY LenProperties DEF TermTypes
    <3>2. shell' = [c \in 1 .. Len(shell) |-> IF shell[c] = "live" THEN "dead" ELSE shell[c]]
      BY <1>4, <3>1 DEF ResetRecreates
    <3>. QED
      BY <3>1, <3>2
  <2>. QED
    BY <1>2, <2>1, <2>2 DEF TerminalDropped, NoOrphanShell
<1>5. CASE ResetDropsTerminal(t)
  <2>1. DOMAIN shell = 1 .. Len(shell) /\ Len(shell) \in Nat
    BY LenProperties DEF TermTypes
  <2>2. shell' = [c \in 1 .. Len(shell) |-> IF c = pty THEN "closed" ELSE shell[c]]
    BY <1>5, <2>1 DEF ResetDropsTerminal, ShellsClosed
  <2>3. Len(shell') = Len(shell) /\ \A c \in 1 .. Len(shell) : shell'[c] # "live"
    BY <2>1, <2>2 DEF NoOrphanShell
  <2>4. pty' = 0
    BY <1>5 DEF ResetDropsTerminal
  <2>. QED
    BY <1>2, <2>3, <2>4 DEF TerminalDropped, NoOrphanShell
<1>6. CASE UNCHANGED <<pty, shell>> /\ (xpc'[t] # "dropped" \/ xpc' = xpc)
  BY <1>2, <1>6 DEF TerminalDropped, NoOrphanShell
<1>7. CASE \/ Dequeue(t) \/ DequeueFails(t) \/ EmitNext(t) \/ EmitFinished(t) \/ EmitIdle(t)
           \/ HandlePlain(t) \/ HandlerFails(t) \/ RunReturns(t) \/ RunPanics(t)
  <2>1. UNCHANGED <<pty, shell>>
    BY <1>7 DEF Dequeue, DequeueFails, EmitNext, EmitFinished, EmitIdle, HandlePlain,
                HandlerFails, RunReturns, RunPanics, term
  <2>2. xpc'[t] # "dropped" \/ xpc' = xpc
    BY <1>7 DEF Dequeue, DequeueFails, EmitNext, Script, EmitFinished, EmitIdle, HandlePlain,
                HandlerFails, RunReturns, RunPanics, exec, ExecutorGoes
  <2>. QED
    BY <1>6, <2>1, <2>2
<1>. QED
  BY <1>3, <1>4, <1>5, <1>7 DEF Run

LEMMA TermInvStep == Types /\ OneStart /\ TermInv /\ [Next]_vars => TermInv'
<1>. SUFFICES ASSUME Types, OneStart, TermInv, [Next]_vars PROVE TermInv'
  OBVIOUS
<1>. USE DEF TermInv, NoOrphanShell, TerminalDropped
<1>1. ASSUME NEW t \in Starters, Start(t) PROVE TermInv'
  <2>1. StartSteps(t)
    BY <1>1, StartFacts
  <2>2. UNCHANGED <<pty, shell>> /\ \A u \in Starters : xpc'[u] = "dropped" => xpc[u] = "dropped"
    BY <2>1 DEF StartSteps, term, Types, ControlTypes
  <2>. QED
    BY <2>2
<1>2. ASSUME NEW t \in Starters, Run(t) PROVE TermInv'
  BY <1>2, TermInvRun
<1>3. ASSUME NEW c \in 1 .. Len(shell), ShellEnds(c) PROVE TermInv'
  <2>1. Len(shell') = Len(shell) /\ \A d \in 1 .. Len(shell) : shell'[d] = "live" => shell[d] = "live"
    BY <1>3, ExceptSeq, LenProperties DEF ShellEnds, Types, TermTypes
  <2>2. UNCHANGED <<pty, xpc>>
    BY <1>3 DEF ShellEnds, exec
  <2>. QED
    BY <2>1, <2>2
<1>4. CASE UNCHANGED <<pty, shell, xpc>>
  BY <1>4
<1>5. ASSUME NEW s \in Subscribers, Subscription(s) PROVE UNCHANGED <<pty, shell, xpc>>
  BY <1>5, SubscriptionTypes DEF term, exec
<1>6. ASSUME NEW c \in 1 .. Len(shell), Stream(c) PROVE UNCHANGED <<pty, shell, xpc>>
  BY <1>6 DEF Stream, ReadOutput, EmitOutput, ReadFails, exec
<1>. QED
  BY <1>1, <1>2, <1>3, <1>4, <1>5, <1>6 DEF Next, Submit, Cancel, vars, term, exec

\* The control of Start and of the executor, on which all else rests.
LEMMA Controlled == Spec => [](Types /\ OneStart)
BY Typed, OneStartInit, OneStartStep, PTL DEF Spec

\* Whatever handlers fail, shells end and resets come: no shell runs on without
\* the session holding its terminal, for any number of terminals.
THEOREM ShellsAreHeld == Spec => []NoOrphanShell
<1>1. TermInv => NoOrphanShell
  BY DEF TermInv
<1>. QED
  BY <1>1, Controlled, TermInvInit, TermInvStep, PTL DEF Spec

-----------------------------------------------------------------------------
(***************************************************************************)
(* The order of execution.                                                 *)
(***************************************************************************)
LEMMA InOrderInit == Init => InOrder /\ AcceptedOnce
BY DEF Init, InOrder, AcceptedOnce, Executing

\* What Submit accepts goes to the end of the queue.
LEMMA SubmitKeepsOrder ==
  ASSUME Types, InOrder, NEW a \in Actions, Submit(a)
  PROVE  InOrder'
<1>1. UNCHANGED <<xpc, cur, finished>>
  BY DEF Submit, exec
<1>2. items' = Append(items, a) /\ accepted' = Append(accepted, a)
  BY DEF Submit
<1>3. QueueTypes
  BY DEF Types
<1>4. ASSUME NEW front \in Seq(Actions \union {NoAction}), accepted = front \o items
      PROVE  accepted' = front \o items'
  <2>1. accepted' = accepted \o <<a>> /\ items' = items \o <<a>>
    BY <1>2, <1>3, AppendIsConcat DEF QueueTypes
  <2>2. <<a>> \in Seq(Actions \union {NoAction}) /\ items \in Seq(Actions \union {NoAction})
    BY <1>3, SeqMonotonic DEF QueueTypes
  <2>3. (front \o items) \o <<a>> = front \o (items \o <<a>>)
    BY <2>2, ConcatAssociative
  <2>. QED
    BY <1>4, <2>1, <2>3
<1>5. ASSUME NEW t \in Starters, xpc[t] \in Executing
      PROVE  cur[t] \in Actions /\ accepted' = (finished \o <<cur[t]>>) \o items'
  <2>1. cur[t] \in Actions
    BY <1>5 DEF InOrder
  <2>2. <<cur[t]>> \in Seq(Actions \union {NoAction})
    BY <2>1
  <2>3. finished \o <<cur[t]>> \in Seq(Actions \union {NoAction})
    BY <1>3, <2>2, ConcatProperties DEF QueueTypes
  <2>. QED
    BY <1>4, <1>5, <2>1, <2>3 DEF InOrder
<1>6. (\A t \in Starters : xpc[t] \notin Executing) => accepted' = finished \o items'
  BY <1>3, <1>4 DEF InOrder, QueueTypes
<1>. QED
  BY <1>1, <1>5, <1>6 DEF InOrder

\* Dequeue takes the head of the queue in hand.
LEMMA DequeueKeepsOrder ==
  ASSUME Types, OneStart, InOrder, NEW t \in Starters, Dequeue(t)
  PROVE  InOrder'
<1>1. /\ xpc[t] = "idle" /\ xpc' = [xpc EXCEPT ![t] = "dequeued"]
      /\ items # << >> /\ items' = Tail(items) /\ cur' = [cur EXCEPT ![t] = Head(items)]
      /\ UNCHANGED <<accepted, finished>>
  BY DEF Dequeue, ExecutorGoes
<1>2. QueueTypes /\ ControlTypes
  BY DEF Types
<1>3. \A u \in Starters \ {t} : xpc[u] \notin Executing /\ xpc'[u] \notin Executing
  BY <1>1, <1>2 DEF OneStart, ControlTypes, Executing
<1>4. xpc'[t] \in Executing /\ xpc[t] \notin Executing /\ cur'[t] = Head(items)
  BY <1>1, <1>2 DEF ControlTypes, Executing
<1>5. accepted = finished \o items
  BY <1>3, <1>4 DEF InOrder
<1>6. Head(items) \in Actions /\ Tail(items) \in Seq(Actions) /\ items = <<Head(items)>> \o Tail(items)
  BY <1>1, <1>2 DEF QueueTypes
<1>7. accepted = (finished \o <<Head(items)>>) \o Tail(items)
  <2>1. /\ finished \in Seq(Actions \union {NoAction})
        /\ <<Head(items)>> \in Seq(Actions \union {NoAction})
        /\ Tail(items) \in Seq(Actions \union {NoAction})
    BY <1>2, <1>6, SeqMonotonic DEF QueueTypes
  <2>. QED
    BY <1>5, <1>6, <2>1, ConcatAssociative
<1>. QED
  BY <1>1, <1>3, <1>4, <1>6, <1>7 DEF InOrder

\* EmitFinished puts what was in hand behind what is finished.
LEMMA FinishKeepsOrder ==
  ASSUME Types, OneStart, InOrder, NEW t \in Starters, EmitFinished(t)
  PROVE  InOrder'
<1>1. /\ xpc[t] = "handled" /\ xpc' = [xpc EXCEPT ![t] = "ended"]
      /\ finished' = Append(finished, cur[t])
      /\ UNCHANGED <<accepted, items, cur>>
  BY DEF EmitFinished, ExecutorGoes, env, queue
<1>2. QueueTypes /\ ControlTypes
  BY DEF Types
<1>3. \A u \in Starters \ {t} : xpc[u] \notin Executing /\ xpc'[u] \notin Executing
  BY <1>1, <1>2 DEF OneStart, ControlTypes, Executing
<1>4. xpc[t] \in Executing /\ xpc'[t] \notin Executing
  BY <1>1, <1>2 DEF ControlTypes, Executing
<1>5. cur[t] \in Actions /\ accepted = (finished \o <<cur[t]>>) \o items
  BY <1>4 DEF InOrder
<1>6. finished' = finished \o <<cur[t]>>
  BY <1>1, <1>2, <1>5, AppendIsConcat DEF QueueTypes
<1>. QED
  BY <1>1, <1>3, <1>4, <1>5, <1>6 DEF InOrder

\* The other steps of an executor leave what it has in hand alone.
HandKept(t) ==
    /\ UNCHANGED <<accepted, items, finished>>
    /\ xpc'[t] \in Executing <=> xpc[t] \in Executing
    /\ xpc[t] \in Executing => cur'[t] = cur[t]

LEMMA RunKeepsHand ==
  ASSUME Types, NEW t \in Starters, Run(t), ~Dequeue(t), ~EmitFinished(t)
  PROVE  HandKept(t)
<1>. USE DEF Types, ControlTypes, Executing, HandKept
<1>1. CASE EmitNext(t)
  BY <1>1 DEF EmitNext, Script, ExecutorGoes, env, queue
<1>2. CASE DequeueFails(t) \/ EmitIdle(t)
  BY <1>2 DEF DequeueFails, EmitIdle, ExecutorGoes, env, queue
<1>3. CASE HandlePlain(t) \/ HandlerFails(t) \/ RunReturns(t) \/ RunPanics(t)
  BY <1>3 DEF HandlePlain, HandlerFails, RunReturns, RunPanics, AtWrite, ExecutorGoes, env, queue, exec
<1>4. CASE RunAttaches(t) \/ ResetRecreates(t) \/ ResetDropsTerminal(t) \/ ResetAttaches(t)
  BY <1>4 DEF RunAttaches, ResetRecreates, ResetDropsTerminal, ResetAttaches, ExecutorGoes, env, queue
<1>. QED
  BY <1>1, <1>2, <1>3, <1>4 DEF Run

LEMMA InOrderStep == Types /\ OneStart /\ InOrder /\ [Next]_vars => InOrder'
<1>. SUFFICES ASSUME Types, OneStart, InOrder, [Next]_vars PROVE InOrder'
  OBVIOUS
<1>1. ASSUME NEW t \in Starters, Run(t), ~Dequeue(t), ~EmitFinished(t) PROVE InOrder'
  <2>1. HandKept(t) /\ RunSteps(t)
    BY <1>1, RunKeepsHand, RunFacts
  <2>. QED
    BY <2>1 DEF HandKept, RunSteps, InOrder
<1>2. ASSUME NEW t \in Starters, Start(t) PROVE InOrder'
  <2>1. StartSteps(t)
    BY <1>2, StartFacts
  <2>2. UNCHANGED <<accepted, items, finished, cur>>
    BY <2>1 DEF StartSteps, queue
  <2>3. \A u \in Starters : xpc[u] \in Executing <=> xpc'[u] \in Executing
    <3>1. CASE EmitStarted(t)
      <4>1. xpc[t] = "none"
        BY <3>1 DEF EmitStarted, StarterGoes, OneStart, Starting
      <4>. QED
        BY <3>1, <4>1 DEF EmitStarted, Types, ControlTypes, Executing
    <3>2. CASE ~EmitStarted(t)
      BY <1>2, <3>2 DEF Start, StartEnters, StartReturns, MarkStarted, EnsureFails, RecordError,
                        EmitError, exec
    <3>. QED
      BY <3>1, <3>2
  <2>. QED
    BY <2>2, <2>3 DEF InOrder
<1>3. CASE UNCHANGED <<accepted, items, exec>>
  BY <1>3 DEF InOrder, exec
<1>4. ASSUME NEW s \in Subscribers, Subscription(s) PROVE UNCHANGED <<accepted, items, exec>>
  BY <1>4, SubscriptionTypes DEF env, queue
<1>5. ASSUME NEW c \in 1 .. Len(shell), Stream(c) \/ ShellEnds(c)
      PROVE  UNCHANGED <<accepted, items, exec>>
  BY <1>5 DEF Stream, ReadOutput, EmitOutput, ReadFails, ShellEnds, env, queue
<1>6. CASE Cancel \/ UNCHANGED vars
  BY <1>3, <1>6 DEF Cancel, vars, env, queue
<1>. QED
  BY <1>1, <1>2, <1>3, <1>4, <1>5, <1>6, SubmitKeepsOrder, DequeueKeepsOrder, FinishKeepsOrder
  DEF Next

LEMMA InOrderSuffices == Types /\ OneStart /\ InOrder => ExecutesInOrder
<1>. SUFFICES ASSUME Types, OneStart, InOrder PROVE ExecutesInOrder
  OBVIOUS
<1>1. \A t \in Starters : t \in InFlight <=> xpc[t] \in Executing
  BY DEF Types, ControlTypes, InFlight, ExecutorStates, Executing
<1>2. CASE InFlight = {}
  BY <1>1, <1>2 DEF InOrder, ExecutesInOrder
<1>3. CASE InFlight # {}
  <2>1. PICK t \in InFlight : t = CHOOSE u \in InFlight : TRUE
    BY <1>3
  <2>2. t \in Starters /\ xpc[t] \in Executing
    BY <1>1, <2>1 DEF InFlight
  <2>. QED
    BY <1>3, <2>1, <2>2 DEF InOrder, ExecutesInOrder
<1>. QED
  BY <1>2, <1>3

\* Actions are executed once each and in the order they were accepted, however
\* many clients submit them and whatever Start, the terminal and the
\* subscribers do meanwhile.
THEOREM ActionsInOrder == Spec => []ExecutesInOrder
<1>1. Init => InOrder
  BY InOrderInit
<1>. QED
  BY <1>1, InOrderStep, InOrderSuffices, Controlled, PTL DEF Spec

-----------------------------------------------------------------------------
(***************************************************************************)
(* A session is a serial executor: Submit is Accept, Dequeue is Take and   *)
(* EmitFinished is Finish; every other step leaves what is at work alone.  *)
(***************************************************************************)
AtWork == {cur[t] : t \in InFlight}

\* An executor has an action at work while it executes.
LEMMA AtWorkIsExecuted ==
  ASSUME ControlTypes
  PROVE  AtWork = {cur[t] : t \in {u \in Starters : xpc[u] \in Executing}}
<1>1. \A t \in Starters : t \in InFlight <=> xpc[t] \in Executing
  BY DEF ControlTypes, InFlight, ExecutorStates, Executing
<1>2. InFlight = {u \in Starters : xpc[u] \in Executing}
  BY <1>1 DEF InFlight
<1>. QED
  BY <1>2 DEF AtWork

\* The same of the state after a step.
LEMMA AtWorkNext ==
  ASSUME ControlTypes'
  PROVE  AtWork' = {cur'[t] : t \in {u \in Starters : xpc'[u] \in Executing}}
<1>1. \A t \in Starters : t \in InFlight' <=> xpc'[t] \in Executing
  BY DEF ControlTypes, InFlight, ExecutorStates, Executing
<1>2. InFlight' = {u \in Starters : xpc'[u] \in Executing}
  BY <1>1 DEF InFlight
<1>. QED
  BY <1>2 DEF AtWork

\* Who keeps what every executor has in hand keeps what is at work.
LEMMA HandsKept ==
  ASSUME ControlTypes, ControlTypes',
         \A t \in Starters : xpc'[t] \in Executing <=> xpc[t] \in Executing,
         \A t \in Starters : xpc[t] \in Executing => cur'[t] = cur[t]
  PROVE  AtWork' = AtWork
<1>1. {u \in Starters : xpc'[u] \in Executing} = {u \in Starters : xpc[u] \in Executing}
  OBVIOUS
<1>. QED
  BY <1>1, AtWorkIsExecuted, AtWorkNext

\* Dequeue takes the first action that was not finished, when none is at work.
LEMMA DequeueTakes ==
  ASSUME Types, ControlTypes', OneStart, InOrder, NEW t \in Starters, Dequeue(t)
  PROVE  Serial!Take
<1>1. /\ xpc[t] = "idle" /\ xpc' = [xpc EXCEPT ![t] = "dequeued"]
      /\ items # << >> /\ cur' = [cur EXCEPT ![t] = Head(items)]
      /\ UNCHANGED <<accepted, finished>>
  BY DEF Dequeue, ExecutorGoes
<1>2. QueueTypes /\ ControlTypes
  BY DEF Types
<1>3. \A u \in Starters \ {t} : xpc[u] \notin Executing /\ xpc'[u] \notin Executing
  BY <1>1, <1>2 DEF OneStart, ControlTypes, Executing
<1>4. xpc'[t] \in Executing /\ xpc[t] \notin Executing /\ cur'[t] = Head(items)
  BY <1>1, <1>2 DEF ControlTypes, Executing
<1>5. AtWork = {} /\ AtWork' = {Head(items)}
  <2>1. {u \in Starters : xpc[u] \in Executing} = {} /\ {u \in Starters : xpc'[u] \in Executing} = {t}
    BY <1>3, <1>4
  <2>. QED
    BY <1>2, <1>4, <2>1, AtWorkIsExecuted, AtWorkNext
<1>6. accepted = finished \o items
  BY <1>3, <1>4 DEF InOrder
<1>7. Len(finished) < Len(accepted) /\ accepted[Len(finished) + 1] = Head(items)
  <2>1. /\ finished \in Seq(Actions \union {NoAction}) /\ items \in Seq(Actions \union {NoAction})
        /\ Len(items) \in Nat \ {0} /\ Len(finished) \in Nat /\ Head(items) = items[1]
    BY <1>1, <1>2, EmptySeq, LenProperties, SeqMonotonic DEF QueueTypes
  <2>2. Len(accepted) = Len(finished) + Len(items) /\ accepted[Len(finished) + 1] = items[1]
    BY <1>6, <2>1, ConcatProperties
  <2>. QED
    BY <2>1, <2>2
<1>. QED
  BY <1>1, <1>5, <1>7 DEF Serial!Take, AtWork

\* EmitFinished finishes what is at work.
LEMMA FinishFinishes ==
  ASSUME Types, ControlTypes', OneStart, InOrder, NEW t \in Starters, EmitFinished(t)
  PROVE  cur[t] \in Actions /\ Serial!Finish(cur[t])
<1>1. /\ xpc[t] = "handled" /\ xpc' = [xpc EXCEPT ![t] = "ended"]
      /\ finished' = Append(finished, cur[t])
      /\ UNCHANGED <<accepted, cur>>
  BY DEF EmitFinished, ExecutorGoes, env, queue
<1>2. ControlTypes
  BY DEF Types
<1>3. \A u \in Starters \ {t} : xpc[u] \notin Executing /\ xpc'[u] \notin Executing
  BY <1>1, <1>2 DEF OneStart, ControlTypes, Executing
<1>4. xpc[t] \in Executing /\ xpc'[t] \notin Executing
  BY <1>1, <1>2 DEF ControlTypes, Executing
<1>5. AtWork = {cur[t]} /\ AtWork' = {}
  <2>1. {u \in Starters : xpc[u] \in Executing} = {t} /\ {u \in Starters : xpc'[u] \in Executing} = {}
    BY <1>3, <1>4
  <2>. QED
    BY <1>2, <2>1, AtWorkIsExecuted, AtWorkNext
<1>6. cur[t] \in Actions
  BY <1>4 DEF InOrder
<1>. QED
  BY <1>1, <1>5, <1>6 DEF Serial!Finish, AtWork

\* The step of a caller of Start leaves what is at work alone.
LEMMA StartKeepsWork ==
  ASSUME Types, ControlTypes', OneStart, NEW t \in Starters, Start(t)
  PROVE  UNCHANGED <<accepted, finished>> /\ AtWork' = AtWork
<1>1. StartSteps(t)
  BY StartFacts
<1>2. \A u \in Starters : xpc[u] \in Executing <=> xpc'[u] \in Executing
  <2>1. CASE EmitStarted(t)
    <3>1. xpc[t] = "none"
      BY <2>1 DEF EmitStarted, StarterGoes, OneStart, Starting
    <3>. QED
      BY <2>1, <3>1 DEF EmitStarted, Types, ControlTypes, Executing
  <2>2. CASE ~EmitStarted(t)
    BY <2>2 DEF Start, StartEnters, StartReturns, MarkStarted, EnsureFails, RecordError, EmitError, exec
  <2>. QED
    BY <2>1, <2>2
<1>3. UNCHANGED <<accepted, finished, cur>>
  BY <1>1 DEF StartSteps, queue
<1>. QED
  BY <1>2, <1>3, HandsKept DEF Types

\* Every step of a session is a step of the executor or a stutter.
LEMMA SerialStep ==
  Types /\ Types' /\ OneStart /\ InOrder /\ [Next]_vars => [Serial!Next]_(Serial!serialVars)
<1>. SUFFICES ASSUME Types, Types', OneStart, InOrder, [Next]_vars
              PROVE  [Serial!Next]_(Serial!serialVars)
  OBVIOUS
<1>0. ControlTypes /\ ControlTypes'
  BY DEF Types
<1>1. ASSUME NEW t \in Starters, Dequeue(t) PROVE Serial!Next
  BY <1>0, <1>1, DequeueTakes DEF Serial!Next
<1>2. ASSUME NEW t \in Starters, EmitFinished(t) PROVE Serial!Next
  <2>1. cur[t] \in Actions /\ Serial!Finish(cur[t])
    BY <1>0, <1>2, FinishFinishes
  <2>2. PICK a \in Actions : a = cur[t]
    BY <2>1
  <2>3. Serial!Finish(a)
    BY <2>1, <2>2 DEF Serial!Finish
  <2>. QED
    BY <2>3 DEF Serial!Next
<1>3. ASSUME UNCHANGED <<accepted, finished>>, AtWork' = AtWork
      PROVE  UNCHANGED Serial!serialVars
  BY <1>3 DEF Serial!serialVars, AtWork
<1>4. ASSUME NEW t \in Starters, Run(t), ~Dequeue(t), ~EmitFinished(t)
      PROVE  UNCHANGED Serial!serialVars
  <2>1. HandKept(t) /\ RunSteps(t)
    BY <1>4, RunKeepsHand, RunFacts
  <2>2. /\ \A u \in Starters : xpc'[u] \in Executing <=> xpc[u] \in Executing
        /\ \A u \in Starters : xpc[u] \in Executing => cur'[u] = cur[u]
    BY <2>1 DEF HandKept, RunSteps
  <2>. QED
    BY <1>0, <1>3, <2>1, <2>2, HandsKept DEF HandKept
<1>5. ASSUME NEW t \in Starters, Start(t) PROVE UNCHANGED Serial!serialVars
  BY <1>0, <1>3, <1>5, StartKeepsWork
<1>6. ASSUME NEW a \in Actions, Submit(a) PROVE Serial!Next
  <2>1. accepted' = Append(accepted, a) /\ UNCHANGED <<xpc, cur, finished>>
    BY <1>6 DEF Submit, exec
  <2>2. AtWork' = AtWork
    BY <1>0, <2>1, HandsKept
  <2>3. Serial!Accept(a)
    BY <2>1, <2>2 DEF Serial!Accept, AtWork
  <2>. QED
    BY <2>3 DEF Serial!Next
<1>7. ASSUME UNCHANGED <<accepted, exec>> PROVE UNCHANGED Serial!serialVars
  <2>1. UNCHANGED <<accepted, finished, xpc, cur>>
    BY <1>7 DEF exec
  <2>. QED
    BY <1>0, <1>3, <2>1, HandsKept
<1>8. ASSUME NEW s \in Subscribers, Subscription(s) PROVE UNCHANGED <<accepted, exec>>
  BY <1>8, SubscriptionTypes DEF env, queue
<1>9. ASSUME NEW c \in 1 .. Len(shell), Stream(c) \/ ShellEnds(c) PROVE UNCHANGED <<accepted, exec>>
  BY <1>9 DEF Stream, ReadOutput, EmitOutput, ReadFails, ShellEnds, env, queue
<1>10. CASE Cancel \/ UNCHANGED vars
  BY <1>7, <1>10 DEF Cancel, vars, env, queue
<1>. QED
  BY <1>1, <1>2, <1>4, <1>5, <1>6, <1>7, <1>8, <1>9, <1>10 DEF Next

\* The executor processes one action at a time, whoever calls Start and however
\* its handlers fail: a session implements the abstract serial executor.
THEOREM SessionIsSerial == Spec => ImplementsSerial
<1>1. Init => Serial!Init
  BY DEF Init, Serial!Init, InFlight
<1>2. Init => InOrder
  BY InOrderInit
<1>3. Spec => []InOrder
  BY <1>2, InOrderStep, Controlled, PTL DEF Spec
<1>. QED
  BY <1>1, <1>3, SerialStep, Controlled, PTL DEF Spec, ImplementsSerial, Serial!Spec

-----------------------------------------------------------------------------
(***************************************************************************)
(* What a subscriber is told of Start.                                     *)
(***************************************************************************)
LEMMA RecordedInit == Init => Recorded
BY DEF Init, Recorded, Starting

LEMMA RecordedStep == Types /\ OneStart /\ Recorded /\ [Next]_vars => Recorded'
<1>. SUFFICES ASSUME Types, OneStart, Recorded, [Next]_vars PROVE Recorded'
  OBVIOUS
<1>. USE DEF Recorded, Starting
<1>1. ASSUME NEW t \in Starters, Start(t) PROVE Recorded'
  <2>1. \A u \in Starters \ {t} : spc'[u] = spc[u]
    BY <1>1, StartFacts DEF StartSteps, StarterGoes, Types, ControlTypes
  <2>2. spc[t] \in Starting \/ StartEnters(t) => \A u \in Starters \ {t} : spc[u] \notin Starting
    BY DEF OneStart, StartEnters, OnceFree
  <2>3. CASE StartEnters(t) \/ StartReturns(t)
    BY <2>1, <2>2, <2>3 DEF StartEnters, StartReturns, OnceFree, StarterGoes, OneStart, Types, ControlTypes
  <2>4. CASE MarkStarted(t) \/ EnsureFails(t) \/ RecordError(t)
    BY <2>1, <2>2, <2>4 DEF MarkStarted, EnsureFails, RecordError, StarterGoes, OneStart, Types, ControlTypes
  <2>5. CASE EmitStarted(t) \/ EmitError(t)
    BY <2>1, <2>2, <2>5 DEF EmitStarted, EmitError, StarterGoes, OneStart, Types, ControlTypes
  <2>. QED
    BY <1>1, <2>3, <2>4, <2>5 DEF Start
<1>2. CASE UNCHANGED start
  BY <1>2 DEF start
<1>3. ASSUME NEW t \in Starters, Run(t) PROVE UNCHANGED start
  BY <1>3, RunFacts DEF RunSteps
<1>. QED
  BY <1>1, <1>2, <1>3, OthersFacts

\* Nothing that was sent is taken back.
LEMMA GotGrows ==
  ASSUME HubTypes, NEW s \in Subscribers, NEW e \in Events,
         stream'[s] = stream[s] \/ stream'[s] = Append(stream[s], e)
  PROVE  /\ \A type : Got(s, type) => Got(s, type)'
         /\ stream'[s] = Append(stream[s], e) => Got(s, e.type)'
<1>1. stream[s] \in Seq(Events)
  BY DEF HubTypes
<1>2. CASE stream'[s] = stream[s]
  <2>1. Append(stream[s], e) # stream[s]
    BY <1>1, AppendProperties
  <2>. QED
    BY <1>2, <2>1 DEF Got
<1>3. CASE stream'[s] = Append(stream[s], e)
  <2>1. /\ Len(stream[s]) \in Nat /\ Len(stream'[s]) = Len(stream[s]) + 1
        /\ \A n \in 1 .. Len(stream[s]) : stream'[s][n] = stream[s][n]
        /\ stream'[s][Len(stream[s]) + 1] = e
    BY <1>1, <1>3, AppendProperties, LenProperties
  <2>. QED
    BY <2>1 DEF Got
<1>. QED
  BY <1>2, <1>3

LEMMA ToldInit == Init => Told
BY DEF Init, Told, Registered

\* A step of Start tells what it has recorded when it ends.
LEMMA ToldStart ==
  ASSUME Types, OneStart, Recorded, Told, NEW t \in Starters, Start(t)
  PROVE  Told'
<1>1. HubTypes
  BY DEF Types
<1>2. CASE EmitStarted(t)
  <2>1. SystemEvent("session.started") \in Events /\ SystemEvent("session.started").type = "session.started"
    BY DEF SystemEvent, Event, Events, EventTypes
  <2>2. Emit(SystemEvent("session.started"))
    BY <1>2 DEF EmitStarted
  <2>3. /\ UNCHANGED <<sub, snap>> /\ missed \subseteq missed'
        /\ \A s \in Subscribers :
              stream'[s] = stream[s] \/ stream'[s] = Append(stream[s], SystemEvent("session.started"))
        /\ \A s \in Registered \ missed' :
              stream'[s] = Append(stream[s], SystemEvent("session.started"))
    BY <1>1, <2>1, <2>2, EmitFacts
  <2>4. \A s \in Registered \ missed' : Got(s, "session.started")'
    BY <1>1, <2>1, <2>3, GotGrows DEF Registered
  <2>5. \A s \in Subscribers : Got(s, "start.error") => Got(s, "start.error")'
    BY <1>1, <2>1, <2>3, GotGrows
  <2>6. ~lastErrorEvent /\ lastErrorEvent' = lastErrorEvent
    BY <1>2 DEF EmitStarted, StarterGoes, Recorded, Starting
  <2>. QED
    BY <2>3, <2>4, <2>5, <2>6 DEF Told, Registered
<1>3. CASE EmitError(t)
  <2>1. SystemEvent("start.error") \in Events /\ SystemEvent("start.error").type = "start.error"
    BY DEF SystemEvent, Event, Events, EventTypes
  <2>2. Emit(SystemEvent("start.error"))
    BY <1>3 DEF EmitError
  <2>3. /\ UNCHANGED <<sub, snap>> /\ missed \subseteq missed'
        /\ \A s \in Subscribers :
              stream'[s] = stream[s] \/ stream'[s] = Append(stream[s], SystemEvent("start.error"))
        /\ \A s \in Registered \ missed' :
              stream'[s] = Append(stream[s], SystemEvent("start.error"))
    BY <1>1, <2>1, <2>2, EmitFacts
  <2>4. \A s \in Registered \ missed' : Got(s, "start.error")'
    BY <1>1, <2>1, <2>3, GotGrows DEF Registered
  <2>5. \A s \in Subscribers : Got(s, "session.started") => Got(s, "session.started")'
    BY <1>1, <2>1, <2>3, GotGrows
  <2>6. ~startedEvent /\ startedEvent' = startedEvent
    BY <1>3 DEF EmitError, StarterGoes, Recorded, Starting
  <2>. QED
    BY <2>3, <2>4, <2>5, <2>6 DEF Told, Registered
<1>4. CASE StartReturns(t)
  BY <1>4 DEF StartReturns, hub, Told, Registered, Got
<1>5. CASE StartEnters(t) \/ MarkStarted(t) \/ RecordError(t)
  <2>1. once' # "done"
    BY <1>5 DEF StartEnters, MarkStarted, RecordError, StarterGoes, OneStart, Starting
  <2>2. UNCHANGED hub
    BY <1>5 DEF StartEnters, MarkStarted, RecordError
  <2>. QED
    BY <2>1, <2>2 DEF hub, Told, Registered, Got
<1>6. CASE EnsureFails(t)
  <2>1. once' # "done"
    BY <1>6 DEF EnsureFails, StarterGoes, OneStart, Starting
  <2>2. SystemEvent("terminal.output") \in Events /\ Emit(SystemEvent("terminal.output"))
    BY <1>6 DEF EnsureFails, SystemEvent, Event, Events, EventTypes
  <2>3. /\ UNCHANGED <<sub, snap>> /\ missed \subseteq missed'
        /\ \A s \in Subscribers : \A type : Got(s, type) => Got(s, type)'
    BY <1>1, <2>2, EmitFacts, GotGrows
  <2>. QED
    BY <2>1, <2>3 DEF Told, Registered
<1>. QED
  BY <1>2, <1>3, <1>4, <1>5, <1>6 DEF Start

\* Register notes what was recorded; the replays tell it.
LEMMA ToldSubscription ==
  ASSUME Types, Told, NEW s \in Subscribers, Subscription(s)
  PROVE  Told'
<1>1. HubTypes /\ startedEvent \in BOOLEAN /\ lastErrorEvent \in BOOLEAN
  BY DEF Types, Flags
<1>2. UNCHANGED <<once, startedEvent, lastErrorEvent>>
  BY SubscriptionTypes DEF env, start
<1>3. CASE Register(s)
  <2>1. /\ sub' = [sub EXCEPT ![s] = "replayStarted"]
        /\ snap' = [snap EXCEPT ![s] = [started |-> startedEvent, error |-> lastErrorEvent]]
        /\ UNCHANGED <<stream, missed>>
    BY <1>3 DEF Register
  <2>2. /\ sub'[s] = "replayStarted"
        /\ snap'[s].started = startedEvent /\ snap'[s].error = lastErrorEvent
        /\ \A r \in Subscribers \ {s} : sub'[r] = sub[r] /\ snap'[r] = snap[r]
    BY <1>1, <2>1 DEF HubTypes
  <2>. QED
    BY <1>2, <2>1, <2>2 DEF Told, Registered, Got
<1>4. CASE ReplayStarted(s)
  <2>1. /\ snap[s].started \in BOOLEAN /\ SystemEvent("session.started") \in Events
        /\ SystemEvent("session.started").type = "session.started"
        /\ "session.started" \in EventTypes /\ "replayError" \in SubscriberStates
    BY <1>1 DEF HubTypes, SystemEvent, Event, Events, EventTypes, SubscriberStates
  <2>2. /\ snap' = snap /\ missed \subseteq missed'
        /\ sub[s] = "replayStarted" /\ sub' = [sub EXCEPT ![s] = "replayError"]
        /\ \A r \in Subscribers : stream'[r] = stream[r]
                                    \/ stream'[r] = Append(stream[r], SystemEvent("session.started"))
        /\ snap[s].started /\ s \notin missed'
              => stream'[s] = Append(stream[s], SystemEvent("session.started"))
    <3>1. sub[s] = "replayStarted" /\ sub' = [sub EXCEPT ![s] = "replayError"] /\ snap' = snap
      BY <1>4 DEF ReplayStarted, Replay
    <3>2. CASE snap[s].started
      <4>1. Send({s}, SystemEvent("session.started"))
        BY <1>4, <3>2 DEF ReplayStarted, Replay
      <4>2. {s} \in SUBSET Subscribers
        OBVIOUS
      <4>. QED
        BY <1>1, <2>1, <3>1, <3>2, <4>1, <4>2, SendFacts
    <3>3. CASE ~snap[s].started
      BY <1>4, <3>1, <3>3 DEF ReplayStarted, Replay
    <3>. QED
      BY <3>2, <3>3
  <2>3. /\ \A r \in Subscribers : \A type : Got(r, type) => Got(r, type)'
        /\ snap[s].started /\ s \notin missed' => Got(s, "session.started")'
    BY <1>1, <2>1, <2>2, GotGrows
  <2>4. sub'[s] = "replayError" /\ \A r \in Subscribers \ {s} : sub'[r] = sub[r]
    BY <1>1, <2>2 DEF HubTypes
  <2>. QED
    BY <1>2, <2>2, <2>3, <2>4 DEF Told, Registered
<1>5. CASE ReplayError(s)
  <2>1. /\ snap[s].error \in BOOLEAN /\ SystemEvent("start.error") \in Events
        /\ SystemEvent("start.error").type = "start.error"
        /\ "start.error" \in EventTypes /\ "live" \in SubscriberStates
    BY <1>1 DEF HubTypes, SystemEvent, Event, Events, EventTypes, SubscriberStates
  <2>2. /\ snap' = snap /\ missed \subseteq missed'
        /\ sub[s] = "replayError" /\ sub' = [sub EXCEPT ![s] = "live"]
        /\ \A r \in Subscribers : stream'[r] = stream[r]
                                    \/ stream'[r] = Append(stream[r], SystemEvent("start.error"))
        /\ snap[s].error /\ s \notin missed'
              => stream'[s] = Append(stream[s], SystemEvent("start.error"))
    <3>1. sub[s] = "replayError" /\ sub' = [sub EXCEPT ![s] = "live"] /\ snap' = snap
      BY <1>5 DEF ReplayError, Replay
    <3>2. CASE snap[s].error
      <4>1. Send({s}, SystemEvent("start.error"))
        BY <1>5, <3>2 DEF ReplayError, Replay
      <4>2. {s} \in SUBSET Subscribers
        OBVIOUS
      <4>. QED
        BY <1>1, <2>1, <3>1, <3>2, <4>1, <4>2, SendFacts
    <3>3. CASE ~snap[s].error
      BY <1>5, <3>1, <3>3 DEF ReplayError, Replay
    <3>. QED
      BY <3>2, <3>3
  <2>3. /\ \A r \in Subscribers : \A type : Got(r, type) => Got(r, type)'
        /\ snap[s].error /\ s \notin missed' => Got(s, "start.error")'
    BY <1>1, <2>1, <2>2, GotGrows
  <2>4. sub'[s] = "live" /\ \A r \in Subscribers \ {s} : sub'[r] = sub[r]
    BY <1>1, <2>2 DEF HubTypes
  <2>. QED
    BY <1>2, <2>2, <2>3, <2>4 DEF Told, Registered
<1>6. CASE Receive(s) \/ Unsubscribe(s)
  <2>1. /\ UNCHANGED <<snap, stream, missed>>
        /\ \A r \in Subscribers : sub'[r] = sub[r] \/ sub'[r] = "closed"
    BY <1>1, <1>6 DEF Receive, Unsubscribe, HubTypes
  <2>. QED
    BY <1>2, <2>1 DEF Told, Registered, Got
<1>. QED
  BY <1>3, <1>4, <1>5, <1>6 DEF Subscription

LEMMA ToldStep == Types /\ OneStart /\ Recorded /\ Told /\ [Next]_vars => Told'
<1>. SUFFICES ASSUME Types, OneStart, Recorded, Told, [Next]_vars PROVE Told'
  OBVIOUS
<1>1. HubTypes
  BY DEF Types
<1>2. CASE UNCHANGED start /\ (UNCHANGED hub \/ \E e \in Events : Emit(e))
  <2>1. CASE UNCHANGED hub
    BY <1>2, <2>1 DEF start, hub, Told, Registered, Got
  <2>2. ASSUME NEW e \in Events, Emit(e) PROVE Told'
    <3>1. /\ UNCHANGED <<sub, snap>> /\ missed \subseteq missed'
          /\ \A s \in Subscribers : \A type : Got(s, type) => Got(s, type)'
      BY <1>1, <2>2, EmitFacts, GotGrows
    <3>. QED
      BY <1>2, <3>1 DEF start, Told, Registered
  <2>. QED
    BY <1>2, <2>1, <2>2
<1>3. ASSUME NEW t \in Starters, Run(t) PROVE Told'
  BY <1>2, <1>3, GoroutinesEmit, RunFacts DEF RunSteps
<1>4. ASSUME NEW c \in 1 .. Len(shell), Stream(c) \/ ShellEnds(c) PROVE Told'
  <2>1. UNCHANGED start
    BY <1>4 DEF Stream, ReadOutput, EmitOutput, ReadFails, ShellEnds, env
  <2>. QED
    BY <1>2, <1>4, <2>1, GoroutinesEmit
<1>5. CASE (\E a \in Actions : Submit(a)) \/ Cancel \/ UNCHANGED vars
  BY <1>2, <1>5 DEF Submit, Cancel, vars, env
<1>. QED
  BY <1>3, <1>4, <1>5, ToldStart, ToldSubscription DEF Next

\* However Subscribe races with Start, a subscriber whose channel had room
\* has been sent how Start ended, for any number of subscribers.
THEOREM OutcomesReachSubscribers == Spec => []OutcomeReachesSubscriber
<1>1. Recorded /\ Told => OutcomeReachesSubscriber
  BY DEF Recorded, Told, Registered, Got, OutcomeReachesSubscriber
<1>. QED
  BY <1>1, Controlled, RecordedInit, RecordedStep, ToldInit, ToldStep, PTL DEF Spec

-----------------------------------------------------------------------------
(***************************************************************************)
(* What the stream of a subscriber looks like.                             *)
(***************************************************************************)
WellBracketed(s) ==
    \A m, n \in 1 .. Len(stream[s]) :
        m < n /\ IsBracket(s, m) /\ IsBracket(s, n) /\ NoBracketIn(s, m + 1, n - 1)
            => Follows(stream[s][m], stream[s][n])

Quiet(s) ==
    \/ stream'[s] = stream[s]
    \/ \E e \in Events : e.type \notin Brackets /\ stream'[s] = Append(stream[s], e)

\* An event that is no bracket changes nothing between the brackets.
LEMMA QuietAppend ==
  ASSUME HubTypes, NEW s \in Subscribers, Quiet(s)
  PROVE  /\ WellBracketed(s) => WellBracketed(s)'
         /\ \A n \in 1 .. Len(stream'[s]) : IsBracket(s, n)' =>
               n \in 1 .. Len(stream[s]) /\ IsBracket(s, n) /\ stream'[s][n] = stream[s][n]
         /\ \A n \in 1 .. Len(stream'[s]) : IsLastBracket(s, n)' => IsLastBracket(s, n)
<1>1. stream[s] \in Seq(Events)
  BY DEF HubTypes
<1>2. CASE stream'[s] = stream[s]
  BY <1>2 DEF WellBracketed, IsBracket, NoBracketIn, IsLastBracket
<1>3. ASSUME NEW e \in Events, e.type \notin Brackets, stream'[s] = Append(stream[s], e)
      PROVE  /\ WellBracketed(s) => WellBracketed(s)'
             /\ \A n \in 1 .. Len(stream'[s]) : IsBracket(s, n)' =>
                   n \in 1 .. Len(stream[s]) /\ IsBracket(s, n) /\ stream'[s][n] = stream[s][n]
             /\ \A n \in 1 .. Len(stream'[s]) : IsLastBracket(s, n)' => IsLastBracket(s, n)
  <2>1. /\ Len(stream[s]) \in Nat /\ Len(stream'[s]) = Len(stream[s]) + 1
        /\ \A n \in 1 .. Len(stream[s]) : stream'[s][n] = stream[s][n]
        /\ stream'[s][Len(stream[s]) + 1] = e
    BY <1>1, <1>3, AppendProperties, LenProperties
  <2>2. \A n \in 1 .. Len(stream[s]) : IsBracket(s, n)' <=> IsBracket(s, n)
    BY <2>1 DEF IsBracket
  <2>3. ASSUME NEW n \in 1 .. Len(stream'[s]), n = Len(stream[s]) + 1 PROVE ~IsBracket(s, n)'
    BY <1>3, <2>3, <2>1 DEF IsBracket
  <2>4. \A n \in 1 .. Len(stream'[s]) : IsBracket(s, n)' => n \in 1 .. Len(stream[s])
    BY <2>1, <2>3
  <2>5. ASSUME WellBracketed(s), NEW m \in 1 .. Len(stream'[s]), NEW n \in 1 .. Len(stream'[s]),
               m < n, IsBracket(s, m)', IsBracket(s, n)', NoBracketIn(s, m + 1, n - 1)'
        PROVE  Follows(stream'[s][m], stream'[s][n])
    <3>1. m \in 1 .. Len(stream[s]) /\ n \in 1 .. Len(stream[s]) /\ IsBracket(s, m) /\ IsBracket(s, n)
      BY <2>2, <2>4, <2>5
    <3>2. \A k \in m + 1 .. n - 1 : k \in 1 .. Len(stream[s])
      BY <2>1, <3>1
    <3>3. NoBracketIn(s, m + 1, n - 1)
      BY <2>2, <2>5, <3>2 DEF NoBracketIn
    <3>4. Follows(stream[s][m], stream[s][n])
      BY <2>5, <3>1, <3>3 DEF WellBracketed
    <3>. QED
      BY <2>1, <3>1, <3>4
  <2>6. WellBracketed(s) => WellBracketed(s)'
    BY <2>5 DEF WellBracketed
  <2>7. \A n \in 1 .. Len(stream'[s]) : IsLastBracket(s, n)' => IsLastBracket(s, n)
    <3>1. \A n \in 1 .. Len(stream[s]) : \A k \in n + 1 .. Len(stream[s]) :
              k \in 1 .. Len(stream[s]) /\ k \in n + 1 .. Len(stream'[s])
      BY <2>1
    <3>. QED
      BY <2>2, <2>4, <3>1 DEF IsLastBracket, NoBracketIn
  <2>. QED
    BY <2>1, <2>2, <2>4, <2>6, <2>7
<1>. QED
  BY <1>2, <1>3 DEF Quiet

\* A bracket is the last, and is well placed when it follows the last before it.
LEMMA BracketAppend ==
  ASSUME HubTypes, NEW s \in Subscribers, NEW e \in Events, e.type \in Brackets,
         stream'[s] = Append(stream[s], e), WellBracketed(s),
         \A n \in 1 .. Len(stream[s]) : IsLastBracket(s, n) => Follows(stream[s][n], e)
  PROVE  /\ WellBracketed(s)'
         /\ \A n \in 1 .. Len(stream'[s]) : IsLastBracket(s, n)' => stream'[s][n] = e
<1>1. stream[s] \in Seq(Events)
  BY DEF HubTypes
<1>2. /\ Len(stream[s]) \in Nat /\ Len(stream'[s]) = Len(stream[s]) + 1
      /\ \A n \in 1 .. Len(stream[s]) : stream'[s][n] = stream[s][n]
      /\ stream'[s][Len(stream[s]) + 1] = e
  BY <1>1, AppendProperties, LenProperties
<1>3. \A n \in 1 .. Len(stream[s]) : IsBracket(s, n)' <=> IsBracket(s, n)
  BY <1>2 DEF IsBracket
<1>4. ASSUME NEW m \in 1 .. Len(stream'[s]), NEW n \in 1 .. Len(stream'[s]),
             m < n, IsBracket(s, m)', IsBracket(s, n)', NoBracketIn(s, m + 1, n - 1)'
      PROVE  Follows(stream'[s][m], stream'[s][n])
  <2>1. m \in 1 .. Len(stream[s]) /\ IsBracket(s, m)
    BY <1>2, <1>3, <1>4
  <2>2. \A k \in m + 1 .. n - 1 : k \in 1 .. Len(stream[s])
    BY <1>2, <1>4
  <2>3. NoBracketIn(s, m + 1, n - 1)
    BY <1>3, <1>4, <2>2 DEF NoBracketIn
  <2>4. CASE n \in 1 .. Len(stream[s])
    <3>1. Follows(stream[s][m], stream[s][n])
      BY <1>3, <1>4, <2>1, <2>3, <2>4 DEF WellBracketed
    <3>. QED
      BY <1>2, <2>1, <2>4, <3>1
  <2>5. CASE n = Len(stream[s]) + 1
    <3>1. IsLastBracket(s, m)
      BY <1>2, <2>1, <2>3, <2>5 DEF IsLastBracket
    <3>. QED
      BY <1>2, <2>1, <2>5, <3>1
  <2>. QED
    BY <1>2, <2>4, <2>5
<1>5. WellBracketed(s)'
  BY <1>4 DEF WellBracketed
<1>6. ASSUME NEW n \in 1 .. Len(stream'[s]), n = Len(stream[s]) + 1 PROVE IsBracket(s, n)'
  BY <1>2, <1>6 DEF IsBracket
<1>7. ASSUME NEW n \in 1 .. Len(stream[s]) PROVE ~IsLastBracket(s, n)'
  <2>1. PICK k \in 1 .. Len(stream'[s]) : k = Len(stream[s]) + 1 /\ k \in n + 1 .. Len(stream'[s])
    BY <1>2
  <2>. QED
    BY <1>6, <2>1 DEF IsLastBracket, NoBracketIn
<1>. QED
  BY <1>2, <1>5, <1>7

LEMMA BracketsInit ==
  Init => StreamInPhase /\ StreamWellBracketed /\ EndedIsFinished /\ NothingBefore
BY DEF Init, StreamInPhase, StreamWellBracketed, EndedIsFinished, NothingBefore, Registered

\* The phase of the executor is as good as before.
SameLatest ==
    \A t \in Starters :
        /\ xpc[t] # "none" <=> xpc'[t] # "none"
        /\ \A e \in Events : IsLatest(t, e) => IsLatest(t, e)'

LEMMA KeptWhenQuiet ==
  ASSUME HubTypes, StreamInPhase, StreamWellBracketed, SameLatest, missed \subseteq missed',
         \A s \in Subscribers : Quiet(s),
         \A s \in Subscribers : s \in Registered' => s \in Registered \/ stream'[s] = << >>
  PROVE  StreamInPhase' /\ StreamWellBracketed'
<1>1. ASSUME NEW s \in Subscribers \ missed' PROVE WellBracketed(s)'
  BY <1>1, QuietAppend DEF StreamWellBracketed, WellBracketed
<1>2. ASSUME NEW s \in Registered' \ missed', NEW n \in 1 .. Len(stream'[s])
      PROVE  /\ IsBracket(s, n)' => \E t \in Starters : xpc'[t] # "none"
             /\ IsLastBracket(s, n)' =>
                    \A t \in Starters : xpc'[t] # "none" => IsLatest(t, stream[s][n])'
  <2>1. s \in Subscribers \ missed
    BY <1>2 DEF Registered
  <2>2. s \in Registered \ missed
    BY <1>2, <2>1
  <2>3. IsBracket(s, n)' => n \in 1 .. Len(stream[s]) /\ IsBracket(s, n) /\ stream'[s][n] = stream[s][n]
    BY <2>1, QuietAppend
  <2>4. IsLastBracket(s, n)' => IsLastBracket(s, n)
    BY <2>1, QuietAppend
  <2>5. stream[s] \in Seq(Events)
    BY <2>1 DEF HubTypes
  <2>6. ASSUME IsLastBracket(s, n)', NEW t \in Starters, xpc'[t] # "none"
        PROVE  IsLatest(t, stream[s][n])'
    <3>1. n \in 1 .. Len(stream[s]) /\ stream'[s][n] = stream[s][n] /\ IsLastBracket(s, n)
      BY <2>3, <2>4, <2>6 DEF IsLastBracket
    <3>2. stream[s][n] \in Events
      BY <2>5, <3>1
    <3>3. IsLatest(t, stream[s][n])
      BY <2>2, <2>6, <3>1 DEF StreamInPhase, SameLatest
    <3>. QED
      BY <3>1, <3>2, <3>3 DEF SameLatest, IsLatest
  <2>. QED
    BY <2>2, <2>3, <2>6 DEF StreamInPhase, SameLatest
<1>. QED
  BY <1>1, <1>2 DEF StreamInPhase, StreamWellBracketed, WellBracketed

LEMMA AcceptedOnceStep == Types /\ AcceptedOnce /\ [Next]_vars => AcceptedOnce'
<1>. SUFFICES ASSUME Types, AcceptedOnce, [Next]_vars PROVE AcceptedOnce'
  OBVIOUS
<1>1. ASSUME NEW a \in Actions, Submit(a) PROVE AcceptedOnce'
  <2>1. /\ accepted \in Seq(Actions) /\ accepted' = Append(accepted, a)
        /\ \A n \in 1 .. Len(accepted) : accepted[n] # a
    BY <1>1 DEF Submit, Types, QueueTypes
  <2>2. /\ Len(accepted) \in Nat /\ Len(accepted') = Len(accepted) + 1
        /\ \A n \in 1 .. Len(accepted) : accepted'[n] = accepted[n]
        /\ accepted'[Len(accepted) + 1] = a
    BY <2>1, AppendProperties, LenProperties
  <2>. QED
    BY <2>1, <2>2 DEF AcceptedOnce
<1>2. CASE UNCHANGED accepted
  BY <1>2 DEF AcceptedOnce
<1>3. ASSUME NEW t \in Starters, Start(t) \/ Run(t) PROVE UNCHANGED accepted
  <2>1. CASE Start(t)
    BY <2>1, StartFacts DEF StartSteps, queue
  <2>2. CASE Run(t)
    BY <2>2, RunKeepsHand DEF HandKept, Dequeue, EmitFinished, env, queue
  <2>. QED
    BY <1>3, <2>1, <2>2
<1>4. ASSUME NEW c \in 1 .. Len(shell), Stream(c) \/ ShellEnds(c) PROVE UNCHANGED accepted
  BY <1>4 DEF Stream, ReadOutput, EmitOutput, ReadFails, ShellEnds, env, queue
<1>5. ASSUME NEW s \in Subscribers, Subscription(s) PROVE UNCHANGED accepted
  BY <1>5, SubscriptionTypes DEF env, queue
<1>6. CASE Cancel \/ UNCHANGED vars
  BY <1>2, <1>6 DEF Cancel, vars, env, queue
<1>. QED
  BY <1>1, <1>2, <1>3, <1>4, <1>5, <1>6 DEF Next

\* What an executor has in hand was not finished before.
LEMMA HandIsNew ==
  ASSUME Types, InOrder, AcceptedOnce, NEW t \in Starters, xpc[t] \in Executing
  PROVE  ~IsFinished(cur[t])
<1>1. cur[t] \in Actions /\ accepted = (finished \o <<cur[t]>>) \o items
  BY DEF InOrder
<1>2. finished \in Seq(Actions \union {NoAction}) /\ items \in Seq(Actions \union {NoAction})
  BY SeqMonotonic DEF Types, QueueTypes
<1>3. <<cur[t]>> \in Seq(Actions \union {NoAction}) /\ Len(<<cur[t]>>) = 1 /\ <<cur[t]>>[1] = cur[t]
  BY <1>1
<1>4. DEFINE front == finished \o <<cur[t]>>
<1>5. /\ front \in Seq(Actions \union {NoAction}) /\ Len(front) = Len(finished) + 1
      /\ \A n \in 1 .. Len(finished) : front[n] = finished[n]
      /\ front[Len(finished) + 1] = cur[t]
  BY <1>2, <1>3, ConcatProperties, LenProperties
<1>6. /\ Len(accepted) = Len(front) + Len(items)
      /\ \A n \in 1 .. Len(front) : accepted[n] = front[n]
  BY <1>1, <1>2, <1>5, ConcatProperties, LenProperties
<1>7. Len(finished) \in Nat /\ Len(items) \in Nat
  BY <1>2, LenProperties
<1>8. ASSUME NEW n \in 1 .. Len(finished), finished[n] = cur[t] PROVE FALSE
  <2>1. n \in 1 .. Len(accepted) /\ Len(finished) + 1 \in 1 .. Len(accepted)
    BY <1>5, <1>6, <1>7
  <2>2. accepted[n] = accepted[Len(finished) + 1]
    BY <1>5, <1>6, <1>7, <1>8
  <2>. QED
    BY <1>7, <2>1, <2>2 DEF AcceptedOnce
<1>. QED
  BY <1>8 DEF IsFinished

\* What is finished stays finished; EmitFinished adds what is in hand.
LEMMA FinishedGrows ==
  ASSUME Types, finished' = finished \/ \E x \in Actions \union {NoAction} : finished' = Append(finished, x)
  PROVE  /\ \A a : IsFinished(a) => IsFinished(a)'
         /\ \A x \in Actions \union {NoAction} : finished' = Append(finished, x) => IsFinished(x)'
<1>1. finished \in Seq(Actions \union {NoAction})
  BY DEF Types, QueueTypes
<1>2. ASSUME NEW x \in Actions \union {NoAction}, finished' = Append(finished, x)
      PROVE  (\A a : IsFinished(a) => IsFinished(a)') /\ \A y : y = x => IsFinished(y)'
  <2>1. /\ Len(finished) \in Nat /\ Len(finished') = Len(finished) + 1
        /\ \A n \in 1 .. Len(finished) : finished'[n] = finished[n]
        /\ finished'[Len(finished) + 1] = x
    BY <1>1, <1>2, AppendProperties, LenProperties
  <2>. QED
    BY <2>1 DEF IsFinished
<1>3. CASE finished' = finished
  <2>1. \A x \in Actions \union {NoAction} : finished' # Append(finished, x)
    BY <1>1, <1>3, AppendProperties
  <2>. QED
    BY <1>3, <2>1 DEF IsFinished
<1>. QED
  BY <1>2, <1>3

LEMMA EndedIsFinishedStep == Types /\ EndedIsFinished /\ [Next]_vars => EndedIsFinished'
<1>. SUFFICES ASSUME Types, EndedIsFinished, [Next]_vars PROVE EndedIsFinished'
  OBVIOUS
<1>. USE DEF Types, ControlTypes
<1>1. ASSUME NEW t \in Starters, Run(t) PROVE EndedIsFinished'
  <2>1. RunSteps(t)
    BY <1>1, RunFacts
  <2>2. CASE EmitFinished(t)
    <3>1. xpc' = [xpc EXCEPT ![t] = "ended"] /\ cur' = cur /\ finished' = Append(finished, cur[t])
      BY <2>2 DEF EmitFinished, ExecutorGoes
    <3>2. \A a : IsFinished(a) \/ a = cur[t] => IsFinished(a)'
      BY <3>1, FinishedGrows
    <3>. QED
      BY <3>1, <3>2 DEF EndedIsFinished, IsFinished
  <2>3. CASE ~EmitFinished(t)
    <3>1. finished' = finished
      BY <1>1, <2>3, RunKeepsHand DEF HandKept, Dequeue
    <3>2. xpc'[t] # "ended" \/ UNCHANGED <<xpc, cur>>
      <4>1. CASE Dequeue(t) \/ EmitNext(t) \/ EmitIdle(t) \/ RunPanics(t)
        BY <4>1 DEF Dequeue, EmitNext, Script, EmitIdle, RunPanics, exec, ExecutorGoes
      <4>2. CASE DequeueFails(t) \/ HandlePlain(t) \/ HandlerFails(t) \/ RunReturns(t)
        BY <4>2 DEF DequeueFails, HandlePlain, HandlerFails, RunReturns, ExecutorGoes
      <4>3. CASE RunAttaches(t) \/ ResetRecreates(t) \/ ResetDropsTerminal(t) \/ ResetAttaches(t)
        BY <4>3 DEF RunAttaches, ResetRecreates, ResetDropsTerminal, ResetAttaches, ExecutorGoes
      <4>. QED
        BY <1>1, <2>3, <4>1, <4>2, <4>3 DEF Run
    <3>. QED
      BY <2>1, <3>1, <3>2 DEF EndedIsFinished, IsFinished, RunSteps
  <2>. QED
    BY <2>2, <2>3
<1>2. ASSUME NEW t \in Starters, Start(t) PROVE EndedIsFinished'
  <2>1. StartSteps(t)
    BY <1>2, StartFacts
  <2>. QED
    BY <2>1 DEF StartSteps, EndedIsFinished, IsFinished
<1>3. CASE UNCHANGED exec
  BY <1>3 DEF exec, EndedIsFinished, IsFinished
<1>. QED
  BY <1>1, <1>2, <1>3, OthersFacts

\* Emit reaches the registered alone, and so does a replay.
LEMMA NothingBeforeStep == Types /\ NothingBefore /\ [Next]_vars => NothingBefore'
<1>. SUFFICES ASSUME Types, NothingBefore, [Next]_vars PROVE NothingBefore'
  OBVIOUS
<1>1. HubTypes
  BY DEF Types
<1>2. CASE UNCHANGED hub \/ \E e \in Events : Emit(e)
  <2>1. CASE UNCHANGED hub
    BY <2>1 DEF hub, NothingBefore
  <2>2. ASSUME NEW e \in Events, Emit(e) PROVE NothingBefore'
    BY <1>1, <2>2, EmitFacts DEF NothingBefore, Registered
  <2>. QED
    BY <1>2, <2>1, <2>2
<1>3. ASSUME NEW s \in Subscribers, Subscription(s) PROVE NothingBefore'
  <2>1. CASE Register(s) \/ Receive(s) \/ Unsubscribe(s)
    BY <1>1, <2>1 DEF Register, Receive, Unsubscribe, HubTypes, NothingBefore
  <2>2. CASE ReplayStarted(s) \/ ReplayError(s)
    <3>1. /\ sub[s] # "out" /\ sub'[s] # "out"
          /\ \A r \in Subscribers \ {s} : sub'[r] = sub[r]
      BY <1>1, <2>2 DEF ReplayStarted, ReplayError, Replay, HubTypes
    <3>2. \A r \in Subscribers \ {s} : stream'[r] = stream[r]
      BY <1>1, <2>2 DEF ReplayStarted, ReplayError, Replay, Send
    <3>. QED
      BY <3>1, <3>2 DEF NothingBefore
  <2>. QED
    BY <1>3, <2>1, <2>2 DEF Subscription
<1>4. CASE (\E a \in Actions : Submit(a)) \/ Cancel \/ UNCHANGED vars
  BY <1>2, <1>4 DEF Submit, Cancel, vars
<1>. QED
  BY <1>2, <1>3, <1>4, GoroutinesEmit DEF Next

\* An executor's bracket reaches everyone who is registered.
LEMMA BracketEmit ==
  ASSUME Types, OneStart, StreamInPhase, StreamWellBracketed,
         NEW t \in Starters, RunSteps(t), NEW e \in Events, e.type \in Brackets, Emit(e),
         \A d \in Events : IsLatest(t, d) => Follows(d, e), IsLatest(t, e)'
  PROVE  StreamInPhase' /\ StreamWellBracketed'
<1>1. HubTypes
  BY DEF Types
<1>2. /\ UNCHANGED <<sub, snap>> /\ missed \subseteq missed'
      /\ \A s \in Subscribers \ Registered : stream'[s] = stream[s]
      /\ \A s \in Registered \ missed' : stream'[s] = Append(stream[s], e)
  BY <1>1, EmitFacts
<1>3. ASSUME NEW s \in Registered \ missed'
      PROVE  /\ WellBracketed(s)'
             /\ \A n \in 1 .. Len(stream'[s]) : IsLastBracket(s, n)' => stream'[s][n] = e
  <2>1. s \in Subscribers /\ s \in Registered \ missed /\ stream[s] \in Seq(Events)
    BY <1>1, <1>2 DEF Registered, HubTypes
  <2>2. \A n \in 1 .. Len(stream[s]) : stream[s][n] \in Events
    BY <2>1
  <2>3. WellBracketed(s)
    BY <2>1 DEF StreamWellBracketed, WellBracketed
  <2>4. \A n \in 1 .. Len(stream[s]) : IsLastBracket(s, n) => Follows(stream[s][n], e)
    BY <2>1, <2>2 DEF StreamInPhase, RunSteps
  <2>5. stream'[s] = Append(stream[s], e)
    BY <1>2
  <2>. QED
    BY <1>1, <2>1, <2>3, <2>4, <2>5, BracketAppend
<1>4. ASSUME NEW s \in Subscribers \ missed' PROVE WellBracketed(s)'
  <2>1. CASE s \in Registered
    BY <1>3, <2>1
  <2>2. CASE s \notin Registered
    <3>1. WellBracketed(s) /\ Quiet(s)
      BY <1>2, <2>2 DEF StreamWellBracketed, WellBracketed, Quiet
    <3>. QED
      BY <1>1, <3>1, QuietAppend
  <2>. QED
    BY <2>1, <2>2
<1>5. \A u \in Starters : xpc'[u] # "none" => u = t
  BY DEF RunSteps, OneStart
<1>6. StreamInPhase'
  <2>1. Registered' = Registered
    BY <1>2 DEF Registered
  <2>. SUFFICES ASSUME NEW s \in Registered \ missed', NEW n \in 1 .. Len(stream'[s])
                PROVE  /\ \E u \in Starters : xpc'[u] # "none"
                       /\ IsLastBracket(s, n)' => IsLatest(t, stream[s][n])'
    BY <1>5, <2>1 DEF StreamInPhase
  <2>2. IsLastBracket(s, n)' => IsLatest(t, stream[s][n])'
    BY <1>3 DEF IsLatest
  <2>. QED
    BY <2>2 DEF RunSteps
<1>. QED
  BY <1>4, <1>6 DEF StreamWellBracketed, WellBracketed

\* Whoever emits something else, and leaves the executor in its phase.
LEMMA QuietEmit ==
  ASSUME Types, StreamInPhase, StreamWellBracketed, SameLatest,
         UNCHANGED hub \/ \E e \in Events : e.type \notin Brackets /\ Emit(e)
  PROVE  StreamInPhase' /\ StreamWellBracketed'
<1>1. HubTypes
  BY DEF Types
<1>2. CASE UNCHANGED hub
  BY <1>1, <1>2, KeptWhenQuiet DEF hub, Quiet, Registered
<1>3. ASSUME NEW e \in Events, e.type \notin Brackets, Emit(e)
      PROVE  StreamInPhase' /\ StreamWellBracketed'
  <2>1. /\ UNCHANGED <<sub, snap>> /\ missed \subseteq missed'
        /\ \A s \in Subscribers : stream'[s] = stream[s] \/ stream'[s] = Append(stream[s], e)
    BY <1>1, <1>3, EmitFacts
  <2>2. \A s \in Subscribers : Quiet(s)
    BY <1>3, <2>1 DEF Quiet
  <2>. QED
    BY <1>1, <2>1, <2>2, KeptWhenQuiet DEF Registered
<1>. QED
  BY <1>2, <1>3

\* Every step of an executor emits the bracket that follows the last, or none.
LEMMA RunKeepsBrackets ==
  ASSUME Types, OneStart, InOrder, AcceptedOnce, EndedIsFinished,
         StreamInPhase, StreamWellBracketed, NEW t \in Starters, Run(t)
  PROVE  StreamInPhase' /\ StreamWellBracketed'
<1>1. RunSteps(t) /\ ControlTypes
  BY RunFacts DEF Types
<1>2. \A type \in EventTypes : Event(type, cur[t]) \in Events /\ SystemEvent(type) \in Events
  BY <1>1 DEF Event, SystemEvent, Events, ControlTypes
<1>3. ASSUME finished' = finished, \A e \in Events : IsLatest(t, e) => IsLatest(t, e)'
      PROVE  SameLatest
  <2>1. \A u \in Starters : xpc[u] # "none" <=> xpc'[u] # "none"
    BY <1>1 DEF RunSteps
  <2>2. \A u \in Starters \ {t}, e \in Events : IsLatest(u, e) => IsLatest(u, e)'
    BY <1>1, <1>3 DEF RunSteps, IsLatest, IsFinished
  <2>. QED
    BY <1>3, <2>1, <2>2 DEF SameLatest
<1>4. CASE EmitFinished(t)
  <2>1. PICK e \in Events : e = Event("action.finished", cur[t])
    BY <1>2 DEF EventTypes
  <2>2. Emit(e) /\ xpc[t] = "handled" /\ xpc'[t] = "ended" /\ cur' = cur
    BY <1>1, <1>4, <2>1 DEF EmitFinished, ExecutorGoes, ControlTypes
  <2>3. \A d \in Events : IsLatest(t, d) => Follows(d, e)
    BY <2>1, <2>2 DEF IsLatest, Executing, Follows, Event
  <2>4. IsLatest(t, e)' /\ e.type \in Brackets
    BY <2>1, <2>2 DEF IsLatest, Executing, Event, Brackets
  <2>. QED
    BY <1>1, <2>2, <2>3, <2>4, BracketEmit
<1>5. CASE EmitIdle(t)
  <2>1. PICK e \in Events : e = Event("executor.idle", cur[t])
    BY <1>2 DEF EventTypes
  <2>2. Emit(e) /\ xpc[t] = "ended" /\ xpc'[t] = "idle" /\ finished' = finished
    BY <1>1, <1>5, <2>1 DEF EmitIdle, ExecutorGoes, ControlTypes
  <2>3. \A d \in Events : IsLatest(t, d) => Follows(d, e)
    BY <2>1, <2>2 DEF IsLatest, Executing, Follows, Event
  <2>4. IsFinished(cur[t])
    BY <2>2 DEF EndedIsFinished
  <2>5. IsLatest(t, e)' /\ e.type \in Brackets
    BY <2>1, <2>2, <2>4 DEF IsLatest, IsFinished, Executing, Event, Brackets
  <2>. QED
    BY <1>1, <2>2, <2>3, <2>5, BracketEmit
<1>6. CASE EmitNext(t)
  <2>1. PICK line \in Script :
            ExecutorGoes(t, line[1], line[3]) /\ Emit(Event(line[2], cur[t]))
    BY <1>6 DEF EmitNext
  <2>2. finished' = finished /\ cur' = cur /\ line[2] \in EventTypes
    BY <1>6 DEF EmitNext, Script, EventTypes
  <2>3. PICK e \in Events : e = Event(line[2], cur[t])
    BY <1>2, <2>2
  <2>4. Emit(e) /\ xpc[t] = line[1] /\ xpc'[t] = line[3] /\ e.type = line[2] /\ e.action = cur[t]
    BY <1>1, <2>1, <2>3 DEF ExecutorGoes, ControlTypes, Event
  <2>5. CASE line = <<"dequeued", "executor.busy", "busy">>
    <3>1. ~IsFinished(cur[t])
      BY <2>4, <2>5, HandIsNew DEF Executing
    <3>2. \A d \in Events : IsLatest(t, d) => Follows(d, e)
      BY <2>4, <2>5, <3>1 DEF IsLatest, Follows
    <3>3. IsLatest(t, e)' /\ e.type \in Brackets
      BY <2>2, <2>3, <2>4, <2>5 DEF IsLatest, Executing, Brackets
    <3>. QED
      BY <1>1, <2>4, <3>2, <3>3, BracketEmit
  <2>6. CASE line = <<"busy", "action.started", "handling">>
    <3>1. \A d \in Events : IsLatest(t, d) => Follows(d, e)
      BY <2>4, <2>6 DEF IsLatest, Follows, Event
    <3>2. IsLatest(t, e)' /\ e.type \in Brackets
      BY <2>2, <2>3, <2>4, <2>6 DEF IsLatest, Executing, Brackets
    <3>. QED
      BY <1>1, <2>4, <3>1, <3>2, BracketEmit
  <2>7. CASE line[1] \in {"reattached", "bannered"}
    <3>1. e.type \notin Brackets /\ xpc'[t] \in {"bannered", "handled"}
      BY <2>4, <2>7 DEF Script, Brackets
    <3>2. \A d \in Events : IsLatest(t, d) => IsLatest(t, d)'
      BY <2>2, <2>4, <2>7, <3>1 DEF IsLatest, Executing
    <3>. QED
      BY <1>3, <2>2, <2>4, <3>1, <3>2, QuietEmit
  <2>. QED
    BY <2>5, <2>6, <2>7 DEF Script
<1>7. CASE Dequeue(t) \/ DequeueFails(t)
  <2>1. /\ UNCHANGED hub /\ finished' = finished
        /\ xpc[t] = "idle" /\ xpc'[t] \in {"dequeued", "stopped"}
    BY <1>1, <1>7 DEF Dequeue, DequeueFails, ExecutorGoes, ControlTypes
  <2>2. \A d \in Events : IsLatest(t, d) => IsLatest(t, d)'
    BY <2>1 DEF IsLatest, IsFinished, Executing
  <2>. QED
    BY <1>3, <2>1, <2>2, QuietEmit
<1>8. CASE \/ HandlePlain(t) \/ HandlerFails(t) \/ RunAttaches(t) \/ RunReturns(t) \/ RunPanics(t)
           \/ ResetRecreates(t) \/ ResetDropsTerminal(t) \/ ResetAttaches(t)
  <2>1. finished' = finished /\ cur' = cur
    BY <1>8 DEF HandlePlain, HandlerFails, RunAttaches, RunReturns, RunPanics, ResetRecreates,
                ResetDropsTerminal, ResetAttaches, exec
  <2>2. {xpc[t], xpc'[t]} \subseteq Executing \ {"dequeued", "busy"}
    BY <1>1, <1>8 DEF HandlePlain, HandlerFails, RunAttaches, RunReturns, RunPanics, ResetRecreates,
                      ResetDropsTerminal, ResetAttaches, AtWrite, exec, ExecutorGoes, ControlTypes,
                      Executing
  <2>3. \A d \in Events : IsLatest(t, d) => IsLatest(t, d)'
    BY <2>1, <2>2 DEF IsLatest, Executing
  <2>4. UNCHANGED hub \/ \E e \in Events : e.type \notin Brackets /\ Emit(e)
    <3>1. CASE RunAttaches(t) \/ ResetAttaches(t)
      <4>1. UNCHANGED hub \/ Emit(SystemEvent("pty.error"))
        BY <3>1 DEF RunAttaches, ResetAttaches, AttachFails, SystemEvent
      <4>. QED
        BY <1>2, <4>1 DEF SystemEvent, Event, EventTypes, Brackets
    <3>2. CASE HandlePlain(t)
      BY <1>2, <3>2 DEF HandlePlain, Event, EventTypes, Brackets
    <3>3. CASE HandlerFails(t) \/ RunReturns(t) \/ RunPanics(t) \/ ResetRecreates(t) \/ ResetDropsTerminal(t)
      BY <3>3 DEF HandlerFails, RunReturns, RunPanics, ResetRecreates, ResetDropsTerminal
    <3>. QED
      BY <1>8, <3>1, <3>2, <3>3
  <2>. QED
    BY <1>3, <2>1, <2>3, <2>4, QuietEmit
<1>. QED
  BY <1>4, <1>5, <1>6, <1>7, <1>8 DEF Run

\* Start leaves an executor only where none was, and no stream has a bracket yet.
LEMMA StartKeepsBrackets ==
  ASSUME Types, OneStart, StreamInPhase, StreamWellBracketed, NEW t \in Starters, Start(t)
  PROVE  StreamInPhase' /\ StreamWellBracketed'
<1>1. HubTypes
  BY DEF Types
<1>2. \A type \in EventTypes : SystemEvent(type) \in Events /\ SystemEvent(type).type = type
  BY DEF SystemEvent, Event, Events
<1>3. CASE EmitStarted(t)
  <2>1. PICK e \in Events : e = SystemEvent("session.started") /\ e.type \notin Brackets
    BY <1>2 DEF EventTypes, Brackets
  <2>2. Emit(e)
    BY <1>3, <2>1 DEF EmitStarted
  <2>3. \A u \in Starters : xpc[u] = "none"
    BY <1>3 DEF EmitStarted, StarterGoes, OneStart, Starting
  <2>4. /\ UNCHANGED <<sub, snap>> /\ missed \subseteq missed'
        /\ \A s \in Subscribers : Quiet(s)
    BY <1>1, <2>1, <2>2, EmitFacts DEF Quiet
  <2>5. \A s \in Registered \ missed' : \A n \in 1 .. Len(stream'[s]) : ~IsBracket(s, n)'
    BY <1>1, <2>3, <2>4, QuietAppend DEF StreamInPhase, Registered
  <2>6. StreamInPhase'
    BY <2>4, <2>5 DEF StreamInPhase, Registered, IsLastBracket
  <2>7. \A s \in Subscribers \ missed' : WellBracketed(s)'
    BY <1>1, <2>4, QuietAppend DEF StreamWellBracketed, WellBracketed
  <2>. QED
    BY <2>6, <2>7 DEF StreamWellBracketed, WellBracketed
<1>4. CASE ~EmitStarted(t)
  <2>1. UNCHANGED exec
    BY <1>4 DEF Start, StartEnters, StartReturns, MarkStarted, EnsureFails, RecordError, EmitError
  <2>2. SameLatest
    BY <2>1 DEF exec, SameLatest, IsLatest, IsFinished
  <2>3. UNCHANGED hub \/ \E e \in Events : e.type \notin Brackets /\ Emit(e)
    <3>1. \/ UNCHANGED hub
          \/ Emit(SystemEvent("terminal.output")) \/ Emit(SystemEvent("start.error"))
      BY <1>4 DEF Start, StartEnters, StartReturns, MarkStarted, EnsureFails, RecordError, EmitError
    <3>. QED
      BY <1>2, <3>1 DEF EventTypes, Brackets
  <2>. QED
    BY <2>2, <2>3, QuietEmit
<1>. QED
  BY <1>3, <1>4

\* Who registers has been sent nothing, and replays are no brackets.
LEMMA SubscriptionKeepsBrackets ==
  ASSUME Types, NothingBefore, StreamInPhase, StreamWellBracketed,
         NEW s \in Subscribers, Subscription(s)
  PROVE  StreamInPhase' /\ StreamWellBracketed'
<1>1. HubTypes
  BY DEF Types
<1>2. SameLatest
  BY SubscriptionTypes DEF exec, SameLatest, IsLatest, IsFinished
<1>3. CASE Register(s) \/ Receive(s) \/ Unsubscribe(s)
  <2>1. UNCHANGED <<stream, missed>> /\ \A r \in Subscribers \ {s} : sub'[r] = sub[r]
    BY <1>1, <1>3 DEF Register, Receive, Unsubscribe, HubTypes
  <2>2. sub[s] = "out" \/ sub'[s] = sub[s] \/ sub'[s] = "closed"
    BY <1>1, <1>3 DEF Register, Receive, Unsubscribe, HubTypes
  <2>3. \A r \in Subscribers : r \in Registered' => r \in Registered \/ stream'[r] = << >>
    BY <2>1, <2>2 DEF Registered, NothingBefore
  <2>. QED
    BY <1>1, <1>2, <2>1, <2>3, KeptWhenQuiet DEF Quiet
<1>4. CASE ReplayStarted(s) \/ ReplayError(s)
  <2>1. PICK type \in {"session.started", "start.error"} :
            UNCHANGED <<stream, missed>> \/ Send({s}, SystemEvent(type))
    BY <1>4 DEF ReplayStarted, ReplayError, Replay
  <2>2. PICK e \in Events : e = SystemEvent(type) /\ e.type \notin Brackets
    BY <2>1 DEF SystemEvent, Event, Events, EventTypes, Brackets
  <2>3. missed \subseteq missed' /\ \A r \in Subscribers : Quiet(r)
    <3>1. {s} \in SUBSET Subscribers
      OBVIOUS
    <3>2. CASE Send({s}, e)
      <4>1. missed \subseteq missed' /\ \A r \in Subscribers : stream'[r] = stream[r] \/ stream'[r] = Append(stream[r], e)
        BY <1>1, <3>1, <3>2, SendFacts
      <4>. QED
        BY <2>2, <4>1 DEF Quiet
    <3>3. CASE UNCHANGED <<stream, missed>>
      BY <3>3 DEF Quiet
    <3>. QED
      BY <2>1, <2>2, <3>2, <3>3
  <2>4. \A r \in Subscribers : r \in Registered' => r \in Registered
    BY <1>1, <1>4 DEF ReplayStarted, ReplayError, Replay, Registered, HubTypes
  <2>. QED
    BY <1>1, <1>2, <2>3, <2>4, KeptWhenQuiet
<1>. QED
  BY <1>3, <1>4 DEF Subscription

Bracketed == StreamInPhase /\ StreamWellBracketed

LEMMA BracketedStep ==
  /\ Types /\ OneStart /\ InOrder /\ AcceptedOnce /\ EndedIsFinished /\ NothingBefore
  /\ Bracketed /\ [Next]_vars
  => Bracketed'
<1>. SUFFICES ASSUME Types, OneStart, InOrder, AcceptedOnce, EndedIsFinished, NothingBefore,
                     StreamInPhase, StreamWellBracketed, [Next]_vars
              PROVE  StreamInPhase' /\ StreamWellBracketed'
  BY DEF Bracketed
<1>1. ASSUME UNCHANGED exec, UNCHANGED hub \/ \E e \in Events : e.type \notin Brackets /\ Emit(e)
      PROVE  StreamInPhase' /\ StreamWellBracketed'
  <2>1. SameLatest
    BY <1>1 DEF exec, SameLatest, IsLatest, IsFinished
  <2>. QED
    BY <1>1, <2>1, QuietEmit
<1>2. ASSUME NEW c \in 1 .. Len(shell), Stream(c) \/ ShellEnds(c)
      PROVE  StreamInPhase' /\ StreamWellBracketed'
  <2>1. UNCHANGED exec
    BY <1>2 DEF Stream, ReadOutput, EmitOutput, ReadFails, ShellEnds
  <2>2. \/ UNCHANGED hub
        \/ Emit(SystemEvent("terminal.output")) \/ Emit(SystemEvent("read.error"))
    BY <1>2 DEF Stream, ReadOutput, EmitOutput, ReadFails, ShellEnds
  <2>3. UNCHANGED hub \/ \E e \in Events : e.type \notin Brackets /\ Emit(e)
    BY <2>2 DEF SystemEvent, Event, Events, EventTypes, Brackets
  <2>. QED
    BY <1>1, <2>1, <2>3
<1>3. CASE (\E a \in Actions : Submit(a)) \/ Cancel \/ UNCHANGED vars
  BY <1>1, <1>3 DEF Submit, Cancel, vars
<1>. QED
  BY <1>2, <1>3, StartKeepsBrackets, RunKeepsBrackets, SubscriptionKeepsBrackets DEF Next

\* However many subscribers join and leave, and whatever else is emitted
\* between: one that missed nothing sees the executor's events of an action
\* complete and in order before those of the next.
THEOREM StreamsAreBracketed == Spec => []StreamWellBracketed
<1>1. Init => InOrder /\ AcceptedOnce
  BY InOrderInit
<1>2. Init => Bracketed /\ EndedIsFinished /\ NothingBefore
  BY BracketsInit DEF Bracketed
<1>3. Bracketed => StreamWellBracketed
  BY DEF Bracketed
<1>. QED
  BY <1>1, <1>2, <1>3, Controlled, InOrderStep, AcceptedOnceStep, EndedIsFinishedStep,
     NothingBeforeStep, BracketedStep, PTL DEF Spec
=============================================================================
