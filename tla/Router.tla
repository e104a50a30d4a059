------------------------------- MODULE Router -------------------------------
(***************************************************************************)
(* One connection: Router.ServeConn (internal/daemon/router.go) with the   *)
(* goroutines it starts, Transport.ReadActions behind a channel and the    *)
(* sender of events, from the connect message to the session's queue.      *)
(* Actions are numbered in the order the client writes them; a line whose  *)
(* beginning was read by someone else is Torn, and a line of more than     *)
(* 64 KiB (a large patch) ends bufio.Scanner's reading.                    *)
(***************************************************************************)
EXTENDS Integers, Sequences

CONSTANTS
    MaxActions,   \* bound: actions the client writes
    Capacity,     \* of the channel of actions (router.go:63: 8)
    Waits         \* does the client wait for "connected" before it writes?

ASSUME RouterAssumption ==
    /\ MaxActions \in Nat /\ Capacity \in Nat \ {0}
    /\ Waits \in BOOLEAN

VARIABLES
    written,     \* number of actions the client has written
    hungUp,      \* the client has closed its end
    known,       \* is the session of the connection registered?
    wantsEvents, \* "subscribe" in the connect message
    long,        \* the first action whose line the scanner refuses, if it is written
    ctxDone,     \* the daemon is being stopped
    socket,      \* lines written and not read yet
    serve,       \* where ServeConn is
    subscribed,  \* the sender of events has been started
    sendErr,     \* the sender failed to write, and reported it
    reader,      \* what the goroutine of ReadActions does
    holding,     \* the action it is about to put in the channel
    ch,          \* actionCh
    submitted    \* history: actions submitted to the session, in order

peer == <<written, hungUp, known, wantsEvents, long, ctxDone>>
loop == <<serve, subscribed, sendErr, submitted>>
pump == <<reader, holding, ch>>
vars == <<peer, socket, loop, pump>>

Torn == 0
Lines == 0 .. MaxActions

Init ==
    /\ written = 0 /\ hungUp = FALSE /\ socket = << >>
    /\ known \in BOOLEAN /\ wantsEvents \in BOOLEAN /\ ctxDone = FALSE
    /\ long \in 1 .. MaxActions + 1
    /\ serve = "handshake" /\ subscribed = FALSE /\ sendErr = FALSE
    /\ reader = "none" /\ holding = 0 /\ ch = << >> /\ submitted = << >>

-----------------------------------------------------------------------------
ClientWrites ==
    /\ ~hungUp /\ serve # "gone"
    /\ written < MaxActions
    /\ Waits => serve = "serving"
    /\ written' = written + 1
    /\ socket' = Append(socket, written + 1)
    /\ UNCHANGED <<hungUp, known, wantsEvents, long, ctxDone, loop, pump>>

\* The client leaves, at once after its last write or earlier.
ClientHangsUp ==
    /\ ~hungUp
    /\ hungUp' = TRUE
    /\ UNCHANGED <<written, known, wantsEvents, long, ctxDone, socket, loop, pump>>

DaemonStops ==
    /\ ~ctxDone
    /\ ctxDone' = TRUE
    /\ UNCHANGED <<written, hungUp, known, wantsEvents, long, socket, loop, pump>>

\* ReadConnect's decoder reads what the socket holds: the connect message and
\* perhaps more lines, or a part of one, which nobody gets to see.
ReadConnect ==
    /\ serve = "handshake"
    /\ wantsEvents => known
    /\ serve' = "serving"
    /\ subscribed' = wantsEvents
    /\ reader' = "reading"
    /\ \E n \in 0 .. Len(socket) :
          LET rest == SubSeq(socket, n + 1, Len(socket))
          IN  socket' \in {rest} \union
                  (IF rest = << >> THEN {} ELSE {[rest EXCEPT ![1] = Torn]})
    /\ UNCHANGED <<peer, sendErr, holding, ch, submitted>>

\* No connect message, no session for it, or none to subscribe to.
HandshakeFails ==
    /\ serve = "handshake"
    /\ serve' = "gone"
    /\ UNCHANGED <<peer, socket, subscribed, sendErr, pump, submitted>>

-----------------------------------------------------------------------------
\* ReadActions: a line (its scanner may hold some when the connection is
\* closed already), a line that is no JSON or too long for the scanner, which
\* both end the reading, or the end of the stream.
Reads ==
    /\ reader = "reading"
    /\ socket # << >>
    /\ socket' = Tail(socket)
    /\ IF Head(socket) \in {Torn, long}
         THEN reader' = "closed" /\ UNCHANGED holding
         ELSE reader' = "sending" /\ holding' = Head(socket)
    /\ UNCHANGED <<peer, loop, ch>>

EndsOnlyWithServe ==
    /\ reader = "reading"
    /\ serve = "gone"
    /\ reader' = "closed"
    /\ UNCHANGED <<peer, socket, loop, holding, ch>>

ReadsEnd ==
    /\ reader = "reading"
    /\ serve = "gone" \/ (hungUp /\ socket = << >>)
    /\ reader' = "closed"
    /\ UNCHANGED <<peer, socket, loop, holding, ch>>

Sends ==
    /\ reader = "sending"
    /\ Len(ch) < Capacity
    /\ ch' = Append(ch, holding)
    /\ reader' = "reading"
    /\ UNCHANGED <<peer, socket, loop, holding>>

\* The select of ServeConn.
SubmitsLast ==
    /\ serve = "serving" /\ known
    /\ ch # << >>
    /\ submitted' = Append(submitted, ch[Len(ch)])
    /\ ch' = SubSeq(ch, 1, Len(ch) - 1)
    /\ UNCHANGED <<peer, socket, serve, subscribed, sendErr, reader, holding>>

Submits ==
    /\ serve = "serving" /\ known
    /\ ch # << >>
    /\ submitted' = Append(submitted, Head(ch))
    /\ ch' = Tail(ch)
    /\ UNCHANGED <<peer, socket, serve, subscribed, sendErr, reader, holding>>

\* The action names a session the daemon does not have.
LeavesOnUnknown ==
    /\ serve = "serving" /\ ~known
    /\ ch # << >>
    /\ ch' = Tail(ch)
    /\ serve' = "gone"
    /\ UNCHANGED <<peer, socket, subscribed, sendErr, reader, holding, submitted>>

LeavesOnEOF ==
    /\ serve = "serving"
    /\ reader = "closed"
    /\ serve' = "gone"
    /\ UNCHANGED <<peer, socket, subscribed, sendErr, pump, submitted>>

\* A closed channel is drained before it reports that it is closed.
Leaves ==
    /\ serve = "serving"
    /\ reader = "closed" /\ ch = << >>
    /\ serve' = "gone"
    /\ UNCHANGED <<peer, socket, subscribed, sendErr, pump, submitted>>

\* Writing an event to a client that has left fails.
SendEventFails ==
    /\ subscribed /\ hungUp /\ ~sendErr
    /\ sendErr' = TRUE
    /\ UNCHANGED <<peer, socket, serve, subscribed, pump, submitted>>

\* select may take this case while there are actions in the channel.
LeavesOnSendErr ==
    /\ serve = "serving" /\ sendErr
    /\ serve' = "gone"
    /\ UNCHANGED <<peer, socket, subscribed, sendErr, pump, submitted>>

\* The context is done; select may also take this case at any time then.
LeavesOnStop ==
    /\ serve = "serving" /\ ctxDone
    /\ serve' = "gone"
    /\ UNCHANGED <<peer, socket, subscribed, sendErr, pump, submitted>>

Serve ==
    \/ ReadConnect \/ HandshakeFails
    \/ Submits \/ Leaves \/ LeavesOnUnknown \/ LeavesOnSendErr \/ LeavesOnStop
Read == Reads \/ ReadsEnd \/ Sends

Next ==
    \/ ClientWrites \/ ClientHangsUp \/ DaemonStops
    \/ Serve \/ Read \/ SendEventFails

Spec == Init /\ [][Next]_vars

\* Goroutines run; nothing makes a client write or leave, or an event occur.
FairSpec == Spec /\ WF_vars(Serve) /\ WF_vars(Read)

-----------------------------------------------------------------------------
TypeOK ==
    /\ written \in 0 .. MaxActions /\ long \in 1 .. MaxActions + 1
    /\ {hungUp, known, wantsEvents, ctxDone, subscribed, sendErr} \subseteq BOOLEAN
    /\ socket \in Seq(Lines) /\ ch \in Seq(Lines) /\ submitted \in Seq(Lines)
    /\ serve \in {"handshake", "serving", "gone"}
    /\ reader \in {"none", "reading", "sending", "closed"}
    /\ holding \in Lines
    /\ Len(ch) <= Capacity

\* What reaches the session is what the client wrote, from the first action
\* on, in order and without a gap: only the end may be missing.
SubmittedIsPrefix ==
    \A n \in 1 .. Len(submitted) : submitted[n] = n

\* An action that a client without events wrote for a session the daemon has
\* is submitted, even if the client hangs up right after, as SendAction does
\* (socket.go:33-35), unless the daemon is stopped or a line up to this one is
\* longer than the scanner takes: that one and all after it are lost.
AllSubmitted ==
    \A n \in 1 .. MaxActions :
        written >= n ~> Len(submitted) >= n \/ ctxDone \/ ~known \/ wantsEvents \/ n >= long

\* When a client has left, the goroutines of its connection end (router.go:64-67,
\* 78-81), however ServeConn has left, if the channel has room for all the
\* client wrote.  A client that wrote more is received from to the end if its
\* session is known and no event can fail, unless the daemon is stopped; else
\* nobody receives any more and ReadActions waits for ever (transport.go:35).
ConnectionEnds ==
    hungUp /\ (written <= Capacity \/ (known /\ ~wantsEvents)) ~>
        \/ serve = "gone" /\ reader \in {"none", "closed"}
        \/ ctxDone /\ written > Capacity

\* "Actions are sent by clients to the daemon as JSON lines" after the
\* connect line (docs/transport.md:21): each of them reaches the session.
LinesArrive ==
    \A n \in 1 .. MaxActions :
        written >= n ~> \/ Len(submitted) >= n \/ reader = "none"
                        \/ ctxDone \/ ~known \/ wantsEvents \/ n >= long

\* "Events are streamed back to clients as JSON lines" (docs/transport.md:22).
EventsAreStreamed == serve = "serving" => subscribed
=============================================================================
