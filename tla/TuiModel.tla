------------------------------ MODULE TuiModel ------------------------------
(***************************************************************************)
(* The terminal UI (internal/client/tui_model.go): what a key sends, what  *)
(* an event changes, and the goroutines in between. The Update function    *)
(* handles one message at a time; each action it sends is a command, a     *)
(* goroutine of its own with a connection of its own, and the command that *)
(* runs "!line" also writes the model's transcript. The session is its     *)
(* queue, what its handlers do to the list of agents, and the events they  *)
(* emit. Other clients of the session submit actions as well, and other    *)
(* sessions and the command line change the same list (providers.json).    *)
(* How changes of the list overlap is in AgentStores.                      *)
(*                                                                         *)
(* Left out: layout, scrolling, the mouse, editing of text, the history of *)
(* lines, and the commands that only print (/log, /diff, local git).       *)
(***************************************************************************)
EXTENDS Providers, SequencesExt

CONSTANTS
    Fields,       \* text fields of the form (tui_model.go:1138: 6)
    Lines, MaxLines,  \* bound: the kinds of lines that are typed, and how many
    MaxKeys,      \* bound: keys that change something
    OthersDo, MaxOthers,  \* bound: what others do to the list, and how often
    MaxFailures   \* bound: how often something fails: a connection, a handler, ...

Bounds ==
    /\ IsFiniteSet(Names) /\ None \notin Names /\ Fields \in Nat \ {0}
    /\ Lines \subseteq {"prompt", "run", "clear", "agents"}
    /\ MaxLines \in Nat /\ MaxKeys \in Nat /\ MaxOthers \in Nat /\ MaxFailures \in Nat
    /\ OthersDo \subseteq
          [type : {"agents_set_active", "agents_toggle", "agents_add", "agents_delete"},
           name : Names, enabled : BOOLEAN]

ASSUME TuiAssumption == Bounds

VARIABLES
    open, mode,  \* agentsOpen, agentsMode
    loading,     \* agentsLoading
    shown,       \* agentsProviders
    selected,    \* agentsSelected, from 0
    deleting,    \* agentsDeleteName while agentsDeletePending, else None
    form,        \* the form of mode "add": agentsAddFieldIdx, name, enabled
    thinking,    \* thinking and pendingAgent, which are set and cleared together
    showLogo, terminal,  \* the transcript: the messages of the session it shows
    sends,       \* commands that have not delivered their action yet
    connected,   \* does TUI.Run hold a subscription?
    life,        \* of the session: it "runs", has "failed" to start, or is "gone"
    queue,       \* of the session
    executing,   \* what its executor has still to do for the action it has taken
    store,       \* the list of agents, of every session of the machine
    events,      \* emitted and not handled yet
    keys, lines, others, failures,  \* how many there were
    received,    \* history: messages handled since the last line that clears
    asked,       \* history: the name at the last key of the list, if it was a "d" that asks
    lost,        \* history: since the last prompt something on its way was lost
    stale        \* history: the list was not asked for yet; or, since the last time it
                 \* was loaded to be sent, it was changed without that, or was lost

modal == <<open, mode, loading, shown, selected, deleting, form, asked>>
chat == <<thinking, showLogo, terminal, received>>
session == <<life, queue, executing, store, events, connected, others, stale>>
tuiVars == <<modal, chat, sends, session, lost, keys, lines, failures>>

NoForm == [name |-> None, enabled |-> TRUE, field |-> 0]
Mine(id, type, name, enabled) ==
    [id |-> id, type |-> type, name |-> name, enabled |-> enabled]
Theirs == 0   \* the id of every action of another client

\* A failed start leaves an error, which whoever subscribes is sent (session.go:171-195).
StartError == [type |-> "error", id |-> Theirs]
Replayed == IF life = "failed" THEN <<StartError>> ELSE << >>

TuiInit ==
    /\ open = FALSE /\ mode = "list" /\ loading = FALSE /\ shown = << >>
    /\ selected = 0 /\ deleting = None /\ asked = None /\ form = NoForm
    /\ thinking = FALSE /\ showLogo = TRUE /\ terminal = {} /\ received = {}
    /\ \/ life = "runs" /\ failures = 0
       \/ life = "failed" /\ failures = 1 /\ MaxFailures > 0
    /\ sends = {} /\ connected = TRUE /\ queue = << >> /\ executing = << >>
    /\ events = Replayed
    /\ store \in {SetToSeq({[name |-> n, enabled |-> TRUE] : n \in Names})}
    /\ keys = 0 /\ lines = 0 /\ others = 0 /\ lost = FALSE /\ stale = TRUE

-----------------------------------------------------------------------------
(* Keys. Each is handled by one call of Update; a command it returns is    *)
(* started as a goroutine, one of `sends`.                                 *)
Key == keys < MaxKeys /\ keys' = keys + 1 /\ UNCHANGED failures

Launch(type, name, enabled) ==
    sends' = sends \cup
        {[action |-> Mine(keys + 1, type, name, enabled),
          stage |-> IF type = "run_command" THEN "start" ELSE "send", copy |-> {}]}

\* A line that is entered outside the modal (tui_model.go:283-287).
Typed(line) ==
    /\ Key /\ ~open /\ line \in Lines
    /\ lines < MaxLines /\ lines' = lines + 1

\* The first line takes the logo away, and what the transcript held with it.
Kept(messages) == IF showLogo THEN {} ELSE messages
TakeLogo ==
    /\ showLogo' = FALSE
    /\ terminal' = Kept(terminal) /\ received' = Kept(received)

TypePrompt ==
    /\ Typed("prompt") /\ TakeLogo
    /\ thinking' = TRUE /\ lost' = FALSE
    /\ Launch("agent_prompt", None, TRUE)
    /\ UNCHANGED <<modal, session>>

TypeRun ==
    /\ Typed("run") /\ TakeLogo
    /\ Launch("run_command", None, TRUE)
    /\ UNCHANGED <<modal, thinking, session, lost>>

TypeClear ==
    /\ Typed("clear")
    /\ showLogo' = FALSE /\ terminal' = {} /\ received' = {}
    /\ UNCHANGED <<modal, thinking, sends, session, lost>>

TypeAgents ==
    /\ Typed("agents") /\ TakeLogo
    /\ open' = TRUE /\ mode' = "list" /\ loading' = TRUE /\ selected' = 0
    /\ Launch("agents_list", None, TRUE)
    /\ UNCHANGED <<shown, deleting, asked, form, thinking, session, lost>>

-----------------------------------------------------------------------------
(* Keys of the list. Every one but "d" withdraws a delete that waits for   *)
(* its confirmation, also where it has nothing else to do. Other keys go   *)
(* to the input line, which the modal hides.                               *)
ListKey(asks) ==
    /\ Key /\ open /\ mode = "list"
    /\ asked' = asks
    /\ UNCHANGED <<chat, session, lost, lines>>
Row == shown[selected + 1]

CloseList ==
    /\ ListKey(None)
    /\ open' = FALSE /\ deleting' = None
    /\ UNCHANGED <<mode, loading, shown, selected, form, sends>>

\* A key that moves and leaves a delete waiting would be confirmed on the way back.
MovesKeepingDelete ==
    /\ ListKey(None)
    /\ \/ selected > 0 /\ selected' = selected - 1
       \/ selected + 1 < Len(shown) /\ selected' = selected + 1
       \/ (selected = 0 \/ selected + 1 >= Len(shown)) /\ UNCHANGED selected
    /\ UNCHANGED <<open, mode, loading, shown, deleting, form, sends>>

MoveSelection ==
    /\ ListKey(None)
    /\ deleting' = None
    /\ \/ selected > 0 /\ selected' = selected - 1
       \/ selected + 1 < Len(shown) /\ selected' = selected + 1
       \/ (selected = 0 \/ selected + 1 >= Len(shown)) /\ UNCHANGED selected
    /\ UNCHANGED <<open, mode, loading, shown, form, sends>>

SetActive ==
    /\ ListKey(None)
    /\ deleting' = None
    /\ shown # << >> /\ Launch("agents_set_active", Row.name, TRUE)
    /\ UNCHANGED <<open, mode, loading, shown, selected, form>>

\* The new value is computed from the list as it was last received.
Toggle ==
    /\ ListKey(None)
    /\ deleting' = None
    /\ shown # << >> /\ Launch("agents_toggle", Row.name, ~Row.enabled)
    /\ UNCHANGED <<open, mode, loading, shown, selected, form>>

OpenForm(name, enabled) ==
    /\ ListKey(None)
    /\ deleting' = None /\ mode' = "add"
    /\ form' = [name |-> name, enabled |-> enabled, field |-> 0]
    /\ UNCHANGED <<open, loading, shown, selected, sends>>
OpenAdd == OpenForm(None, TRUE)
OpenEdit == shown # << >> /\ OpenForm(Row.name, Row.enabled)

\* "d" asks for a confirmation; a second "d" on the same name confirms.
Confirmed == deleting = Row.name

AskDelete ==
    /\ shown # << >> /\ ~Confirmed
    /\ ListKey(Row.name)
    /\ deleting' = Row.name
    /\ UNCHANGED <<open, mode, loading, shown, selected, form, sends>>

ConfirmDelete ==
    /\ ListKey(None)
    /\ shown # << >> /\ Confirmed
    /\ deleting' = None
    /\ Launch("agents_delete", Row.name, TRUE)
    /\ UNCHANGED <<open, mode, loading, shown, selected, form>>

-----------------------------------------------------------------------------
(* Keys of the form. The fields after the name are not told apart; a form  *)
(* that lacks one stays as it is, and one that was left is built anew.     *)
FormKey ==
    /\ Key /\ open /\ mode = "add"
    /\ UNCHANGED <<open, shown, selected, deleting, asked, chat, session, lost, lines>>

LeaveForm ==
    /\ FormKey
    /\ mode' = "list" /\ form' = NoForm
    /\ UNCHANGED <<loading, sends>>

MoveField ==
    /\ FormKey
    /\ \/ form.field < Fields /\ form' = [form EXCEPT !.field = @ + 1]
       \/ form.field > 0 /\ form' = [form EXCEPT !.field = @ - 1]
    /\ UNCHANGED <<mode, loading, sends>>

EditField ==
    /\ FormKey
    /\ \/ /\ form.field = 0
          /\ \E name \in Names : form' = [form EXCEPT !.name = name]
       \/ /\ form.field = Fields
          /\ form' = [form EXCEPT !.enabled = ~@]
    /\ UNCHANGED <<mode, loading, sends>>

\* ctrl+s in any field, enter in the last.
SubmitForm ==
    /\ FormKey
    /\ form.name # None
    /\ mode' = "list" /\ loading' = TRUE
    /\ Launch("agents_add", form.name, form.enabled)
    /\ form' = NoForm

-----------------------------------------------------------------------------
(* Messages that are not keys.                                             *)
Fails == failures < MaxFailures /\ failures' = failures + 1

Unclamped(providers) == selected
Clamped(providers) ==
    IF selected < Len(providers) THEN selected
    ELSE IF providers = << >> THEN 0 ELSE Len(providers) - 1

ListArrives(providers) ==
    /\ shown' = providers /\ loading' = FALSE
    /\ selected' = Clamped(providers)
    /\ UNCHANGED <<open, mode, deleting, asked, form, chat>>

\* An agent's message, an error and the end of any action end the wait for an
\* answer, whoever's they are. (The errors of terminals are in Session.)
OnlyAnswerEndsWait(event) == event.type = "message"
EndsWait(event) == event.type \in {"message", "error", "finished"}

OutcomeArrives(event) ==
    /\ thinking' = (thinking /\ ~EndsWait(event))
    /\ LET printed == IF event.type = "message" THEN {event.id} ELSE {}
       IN terminal' = terminal \cup printed /\ received' = received \cup printed
    /\ UNCHANGED <<modal, showLogo>>

HandleEvent ==
    /\ events # << >>
    /\ events' = Tail(events)
    /\ \/ Head(events).type = "list" /\ ListArrives(Head(events).providers)
       \/ Head(events).type # "list" /\ OutcomeArrives(Head(events))
    /\ UNCHANGED <<sends, connected, life, queue, executing, store, others, lost, stale,
                   keys, lines, failures>>

\* The command of "!line" writes the transcript from its own goroutine: it reads
\* the slice, and stores the longer one.
ReadTranscript(s) ==
    /\ s.stage = "start"
    /\ sends' = (sends \ {s}) \cup {[s EXCEPT !.stage = "store", !.copy = terminal]}
    /\ UNCHANGED <<modal, chat, session, lost, keys, lines, failures>>

StoreTranscript(s) ==
    /\ s.stage = "store"
    /\ terminal' = s.copy
    /\ sends' = (sends \ {s}) \cup {[s EXCEPT !.stage = "send", !.copy = {}]}
    /\ UNCHANGED <<modal, thinking, showLogo, received, session, lost, keys, lines, failures>>

\* SendAction dials, connects and writes; what it wrote is submitted, also where no
\* executor runs.
SendAction(s) ==
    /\ s.stage = "send" /\ life # "gone"
    /\ sends' = sends \ {s}
    /\ queue' = Append(queue, s.action)
    /\ UNCHANGED <<modal, chat, life, executing, store, events, connected, others,
                   lost, stale, keys, lines, failures>>

\* It fails: the message that reports it (errMsg) is only printed. Or it succeeds and
\* nothing comes of it: SendAction does not look at an answer that cannot be read, and a
\* daemon that does not know the session drops what it reads (router.go:85-87).
SendIsLost(s) ==
    /\ s.stage = "send"
    /\ Fails \/ (life = "gone" /\ UNCHANGED failures)
    /\ sends' = sends \ {s}
    /\ lost' = TRUE
    /\ UNCHANGED <<modal, chat, session, keys, lines>>

Command ==
    \E s \in sends : ReadTranscript(s) \/ StoreTranscript(s) \/ SendAction(s) \/ SendIsLost(s)

-----------------------------------------------------------------------------
(* The session. What its handlers do to the stores in full is AgentStores. *)
AgentActions == {"agents_set_active", "agents_toggle", "agents_add", "agents_delete"}
ListActions == AgentActions \cup {"agents_list"}

Known(a) == a.type \in {"agents_list", "agents_add"} \/ Has(store, a.name)

ListAfter(a) ==
    CASE a.type = "agents_list"       -> store
      [] a.type = "agents_set_active" -> SetEnabled(store, a.name, TRUE)
      [] a.type = "agents_toggle"     -> SetEnabled(store, a.name, a.enabled)
      [] a.type = "agents_add"        -> Upsert(store, [name |-> a.name, enabled |-> a.enabled])
      [] a.type = "agents_delete"     -> Without(store, a.name)

\* What a handler does after its change: it loads the list again, and emits it.
Load == [type |-> "load"]
List == [type |-> "list", providers |-> store]
Finished(a) == [type |-> "finished", id |-> a.id]
Message(a) == [type |-> "message", id |-> a.id]
\* (A handler that emitted the list as it was before its change would go wrong.)
AnsweredBefore(a) == <<IF a.type = "agents_list" THEN Load ELSE List, Finished(a)>>
Answered(a) == <<Load, Finished(a)>>

\* The executor takes an action, and its handler changes the list.
Execute ==
    /\ life = "runs" /\ executing = << >> /\ queue # << >>
    /\ queue' = Tail(queue)
    /\ LET a == Head(queue) IN
       \/ /\ a.type \in ListActions /\ Known(a)
          /\ store' = ListAfter(a)
          /\ executing' = Answered(a)
       \/ /\ a.type \in ListActions => ~Known(a)
          /\ \/ executing' = <<Finished(a)>>
             \/ a.type = "agent_prompt" /\ executing' = <<Message(a), Finished(a)>>
          /\ UNCHANGED store
    /\ UNCHANGED <<modal, chat, sends, life, events, connected, others, lost, stale,
                   keys, lines, failures>>

\* Or it fails, before it saved the list or after that, when the selection cannot be read
\* or written. (A save that leaves a file nobody can read fails every handler after it.)
HandlerFails ==
    /\ Fails
    /\ life = "runs" /\ executing = << >> /\ queue # << >>
    /\ queue' = Tail(queue)
    /\ LET a == Head(queue) IN
          /\ a.type \in ListActions /\ Known(a)
          /\ store' \in {store, ListAfter(a)}
          /\ executing' = <<Finished(a)>>
    /\ stale' = (stale \/ store' # store)
    /\ UNCHANGED <<modal, chat, sends, life, events, connected, others, lost, keys, lines>>

\* Before it is emitted the list is loaded, and each agent checked; either may fail.
LoadList ==
    /\ executing # << >> /\ Head(executing).type = "load"
    /\ \/ executing' = <<List>> \o Tail(executing) /\ stale' = FALSE /\ UNCHANGED failures
       \/ executing' = Tail(executing) /\ stale' = TRUE /\ Fails
    /\ UNCHANGED <<modal, chat, sends, life, queue, store, events, connected, others,
                   lost, keys, lines>>

\* What is emitted reaches this UI if it holds a subscription and there is room in its
\* channel, which what terminals print fills as well (router.go:47: 100).
Emit ==
    /\ executing # << >> /\ Head(executing).type # "load"
    /\ executing' = Tail(executing)
    /\ \/ /\ connected
          /\ events' = Append(events, Head(executing))
          /\ UNCHANGED <<lost, stale, failures>>
       \/ /\ Fails \/ (~connected /\ UNCHANGED failures)
          /\ lost' = TRUE /\ stale' = (stale \/ Head(executing).type = "list")
          /\ UNCHANGED events
    /\ UNCHANGED <<modal, chat, sends, life, queue, store, connected, others, keys, lines>>

Executor == Execute \/ HandlerFails \/ LoadList \/ Emit

\* What others do to the list: clients of the session through its queue; other sessions
\* and the command line by themselves, and this session emits nothing.
TheirActions == {Mine(Theirs, o.type, o.name, o.enabled) : o \in OthersDo}

Others ==
    /\ others < MaxOthers /\ others' = others + 1
    /\ UNCHANGED <<modal, chat, sends, life, executing, events, connected, lost, keys, lines,
                   failures>>

OtherClient ==
    \E a \in TheirActions :
        /\ Others /\ life # "gone"
        /\ queue' = Append(queue, a)
        /\ UNCHANGED <<store, stale>>

OtherSession ==
    \E a \in TheirActions :
        /\ Others /\ Known(a)
        /\ store' = ListAfter(a) /\ stale' = TRUE
        /\ UNCHANGED queue

-----------------------------------------------------------------------------
\* The subscription of TUI.Run ends, and is renewed half a second later.
Disconnect ==
    /\ Fails /\ connected
    /\ connected' = FALSE /\ events' = << >>
    /\ lost' = (lost \/ events # << >>)
    /\ stale' = (stale \/ \E i \in DOMAIN events : events[i].type = "list")
    /\ UNCHANGED <<modal, chat, sends, life, queue, executing, store, others, keys, lines>>

\* A session that the daemon does not know ends each subscription at once.
Subscribe ==
    /\ ~connected /\ life # "gone"
    /\ connected' = TRUE /\ events' = Replayed
    /\ UNCHANGED <<modal, chat, sends, life, queue, executing, store, others, lost, stale,
                   keys, lines, failures>>

\* The daemon stops. The one that is started next does not know the session, whose id
\* the client has kept (socket.go:31-33).
DaemonStops ==
    /\ Fails /\ life # "gone"
    /\ life' = "gone" /\ connected' = FALSE
    /\ queue' = << >> /\ executing' = << >> /\ events' = << >>
    /\ lost' = TRUE /\ stale' = TRUE
    /\ UNCHANGED <<modal, chat, sends, store, others, keys, lines>>

-----------------------------------------------------------------------------
Line == TypePrompt \/ TypeRun \/ TypeClear \/ TypeAgents
ListKeys ==
    \/ CloseList \/ MoveSelection \/ SetActive \/ Toggle \/ OpenAdd \/ OpenEdit
    \/ AskDelete \/ ConfirmDelete
FormKeys == LeaveForm \/ MoveField \/ EditField \/ SubmitForm

TuiNext ==
    \/ Line \/ ListKeys \/ FormKeys
    \/ HandleEvent \/ Command
    \/ Executor \/ OtherClient \/ OtherSession
    \/ Disconnect \/ Subscribe \/ DaemonStops

TuiSpec == TuiInit /\ [][TuiNext]_tuiVars

\* The goroutines of the UI and the session's executor run; users, other clients
\* and connections do what they like.
Fairness ==
    /\ WF_tuiVars(Command) /\ WF_tuiVars(HandleEvent) /\ WF_tuiVars(Executor)

FairTuiSpec == TuiSpec /\ Fairness

-----------------------------------------------------------------------------
Rows == [name : Names, enabled : BOOLEAN]
TuiTypeOK ==
    /\ open \in BOOLEAN /\ mode \in {"list", "add"} /\ loading \in BOOLEAN
    /\ shown \in Seq(Rows) /\ store \in Seq(Rows) /\ selected \in Nat
    /\ deleting \in Names \cup {None} /\ life \in {"runs", "failed", "gone"}
    /\ form \in [name : Names \cup {None}, enabled : BOOLEAN, field : 0 .. Fields]
    /\ thinking \in BOOLEAN /\ showLogo \in BOOLEAN
    /\ terminal \subseteq 0 .. MaxKeys /\ received \subseteq 0 .. MaxKeys

(***************************************************************************)
(* The rows of the list may change, shrink or disappear with every event,  *)
(* also between two keys; the keys index agentsProviders with              *)
(* agentsSelected without a test (tui_model.go:219, 227, 240, 246), which  *)
(* must not panic.                                                         *)
(***************************************************************************)
SelectionIsARow == shown = << >> \/ selected < Len(shown)

(***************************************************************************)
(* An agent is deleted only when two presses of "d" pointed at it, and no  *)
(* other key of the list or the form was pressed between them, whatever    *)
(* lists arrived in between: every key but "d" must withdraw the request   *)
(* (tui_model.go:194-254). Keys that the list does not know go to the      *)
(* input line behind it, and withdraw nothing.                             *)
(***************************************************************************)
DeletesAreConfirmed ==
    [][\A s \in sends' \ sends :
          s.action.type = "agents_delete" =>
              /\ asked = s.action.name
              /\ shown # << >> /\ Row.name = s.action.name]_tuiVars

(***************************************************************************)
(* Once nothing is on its way, the list the UI shows is the one that is    *)
(* stored: a client of the session that changes it is answered with a list *)
(* loaded after the change (handler.go:270, 309, 457, 515). It need not be *)
(* while `stale`: since a list was last loaded for it, another session or  *)
(* the command line changed it (store.go:39-46), a handler failed after it *)
(* saved (handler.go:267-269, 299-301, 505-507) or could not load it, or a *)
(* list was lost (session.go:258-262, or with its connection).             *)
(***************************************************************************)
QuietListIsCurrent ==
    (~stale /\ sends = {} /\ queue = << >> /\ executing = << >> /\ events = << >>)
        => shown = store

(***************************************************************************)
(* The wait for the answer to a prompt ends (tui_model.go:635-673), unless *)
(* something was lost since the prompt was entered (its action with its    *)
(* connection or in a daemon that does not know the session, an event with *)
(* the subscription or for want of room, all of it with the daemon), or    *)
(* the session failed to start and has no executor (session.go:195).       *)
(***************************************************************************)
SpinnerEnds == thinking ~> (~thinking \/ lost \/ life = "failed")

(***************************************************************************)
(* Actions are submitted in the order in which the user gave them. They    *)
(* are not: each travels in a goroutine of its own (tui_model.go:465-626). *)
(***************************************************************************)
SubmittedInOrder ==
    [][\A s \in sends : (s \notin sends' /\ Len(queue') > Len(queue)) =>
          \A t \in sends : t.action.id >= s.action.id]_tuiVars

(***************************************************************************)
(* What arrived since the last /clear is in the transcript. It is not when *)
(* the goroutine of a command stores the slice it read (tui_model.go:474). *)
(***************************************************************************)
TranscriptKeepsMessages == received \subseteq terminal
=============================================================================
