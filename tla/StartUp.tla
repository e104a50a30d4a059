------------------------------ MODULE StartUp ------------------------------
(***************************************************************************)
(* How a daemon comes to serve a socket: client.EnsureDaemon               *)
(* (client/daemon_start.go) of any number of clients that start at the same*)
(* time, krellind (cmd/krellind/main.go), and the server's Start, Stop and *)
(* acceptLoop (daemon/server.go). They meet in one file, the socket's path:*)
(* bind creates it and fails where it exists, a connection goes to the     *)
(* process that bound it, and closing the listener removes whatever is at  *)
(* the path, as Go's UnixListener does.                                    *)
(***************************************************************************)
EXTENDS Naturals

CONSTANTS
    Starters,      \* krellin processes, the clients, that make sure of a daemon
    Daemons,       \* krellind processes that may live at the same time
    NoFile,        \* nothing is at the socket's path
    Stale,         \* a file is there whose daemon is gone
    Polls,         \* dials of EnsureDaemon after it started krellind (10)
    MaxSignals,    \* bound: SIGINT or SIGTERM sent to daemons
    MaxFaults,     \* bound: of each kind of fault
    Kinds          \* the kinds of faults that may happen

Bounds == Polls \in Nat \ {0} /\ {MaxSignals, MaxFaults} \subseteq Nat
Paths == NoFile # Stale /\ Daemons \intersect {NoFile, Stale} = {}

ASSUME StartUpAssumption == Bounds /\ Paths

VARIABLES
    path,      \* the daemon that bound the file, or Stale, or NoFile
    daemon,    \* "none", "starting", "serving" or "stuck"
    pc,        \* of each client: "idle", "dialling", "spawning", "polling", "up", "failed"
    tries,     \* polls left
    signals,   \* number of signals sent
    faults     \* history: how often each kind of fault happened

startUpVars == <<path, daemon, pc, tries, signals, faults>>

StartUpInit ==
    /\ path = NoFile
    /\ daemon = [d \in Daemons |-> "none"]
    /\ pc = [c \in Starters |-> "idle"]
    /\ tries = [c \in Starters |-> Polls]
    /\ signals = 0
    /\ faults = [k \in Kinds |-> 0]

Listening(d) == daemon[d] \in {"serving", "stuck"}

\* net.Dial: the kernel accepts for a listener even if acceptLoop has ended.
Reachable == path \in Daemons /\ Listening(path)

Turns(c, to) == pc' = [pc EXCEPT ![c] = to]
Becomes(d, state) == daemon' = [daemon EXCEPT ![d] = state]

-----------------------------------------------------------------------------
\* EnsureDaemon

\* A user runs krellin, again if it ran before.
Run(c) ==
    /\ pc[c] \in {"idle", "up", "failed"}
    /\ Turns(c, "dialling")
    /\ UNCHANGED <<path, daemon, tries, signals, faults>>

DialSucceeds(c) ==
    /\ pc[c] = "dialling" /\ Reachable
    /\ Turns(c, "up")
    /\ UNCHANGED <<path, daemon, tries, signals, faults>>

DialFails(c) ==
    /\ pc[c] = "dialling" /\ ~Reachable
    /\ Turns(c, "spawning")
    /\ UNCHANGED <<path, daemon, tries, signals, faults>>

\* cmd.Start, although another client's krellind may be about to listen.
Spawn(c, d) ==
    /\ pc[c] = "spawning" /\ daemon[d] = "none"
    /\ Becomes(d, "starting")
    /\ Turns(c, "polling")
    /\ tries' = [tries EXCEPT ![c] = Polls]
    /\ UNCHANGED <<path, signals, faults>>

PollSucceeds(c) ==
    /\ pc[c] = "polling" /\ Reachable /\ tries[c] > 0
    /\ Turns(c, "up")
    /\ UNCHANGED <<path, daemon, tries, signals, faults>>

PollFails(c) ==
    /\ pc[c] = "polling" /\ ~Reachable /\ tries[c] > 0
    /\ tries' = [tries EXCEPT ![c] = @ - 1]
    /\ Turns(c, IF tries[c] = 1 THEN "failed" ELSE "polling")
    /\ UNCHANGED <<path, daemon, signals, faults>>

-----------------------------------------------------------------------------
\* krellind

RemoveAndListen(d) ==
    /\ daemon[d] = "starting"
    /\ path' = d /\ Becomes(d, "serving")
    /\ UNCHANGED <<pc, tries, signals, faults>>

\* Start: main ignores its error, so a daemon that cannot bind stays a process
\* that waits for a signal. It is of no consequence to the others, and its
\* place among Daemons is free again.
Listen(d) ==
    /\ daemon[d] = "starting"
    /\ IF path = NoFile THEN path' = d /\ Becomes(d, "serving")
                        ELSE path' = path /\ Becomes(d, "none")
    /\ UNCHANGED <<pc, tries, signals, faults>>

\* The process is gone; the file it bound stays.
Dies(d) ==
    /\ path' = IF path = d THEN Stale ELSE path
    /\ Becomes(d, "none")

\* Stop: the file at the path is removed, whoever bound it, if d listens.
Exit(d) ==
    /\ path' = IF Listening(d) THEN NoFile ELSE path
    /\ Becomes(d, "none")

\* SIGINT or SIGTERM: main returns through its deferred Stop, which has nothing
\* to do in a process that is still to listen.
Signal(d) ==
    /\ daemon[d] # "none" /\ signals < MaxSignals
    /\ Exit(d)
    /\ signals' = signals + 1
    /\ UNCHANGED <<pc, tries, faults>>

-----------------------------------------------------------------------------
\* Faults

Fault(k) ==
    /\ k \in Kinds /\ faults[k] < MaxFaults
    /\ faults' = [faults EXCEPT ![k] = @ + 1]

\* SIGKILL, a panic, the SIGHUP of the terminal the first client ran in, or a
\* signal between Start and signal.Notify.
Killed(d) ==
    /\ daemon[d] # "none" /\ Fault("kill")
    /\ Dies(d)
    /\ UNCHANGED <<pc, tries, signals>>

\* Something clears /tmp.
FileRemoved ==
    /\ path # NoFile /\ Fault("remove")
    /\ path' = NoFile
    /\ UNCHANGED <<daemon, pc, tries, signals>>

\* Accept returns an error, of lack of file descriptors for example, and
\* acceptLoop returns for good; the listener stays open.
AcceptFails(d) ==
    /\ daemon[d] = "serving" /\ Fault("accept")
    /\ Becomes(d, "stuck")
    /\ UNCHANGED <<path, pc, tries, signals>>

\* krellind is not on the PATH, say.
SpawnFails(c) ==
    /\ pc[c] = "spawning" /\ Fault("spawn")
    /\ Turns(c, "failed")
    /\ UNCHANGED <<path, daemon, tries, signals>>

-----------------------------------------------------------------------------
EnsureDaemon(c) ==
    \/ DialSucceeds(c) \/ DialFails(c) \/ \E d \in Daemons : Spawn(c, d)
    \/ PollSucceeds(c) \/ PollFails(c)

StartUpNext ==
    \/ \E c \in Starters : Run(c) \/ EnsureDaemon(c) \/ SpawnFails(c)
    \/ \E d \in Daemons : Listen(d) \/ Signal(d) \/ Killed(d) \/ AcceptFails(d)
    \/ FileRemoved

StartUpSpec == StartUpInit /\ [][StartUpNext]_startUpVars

\* Processes run, and the users of the clients try again. SF: a spawn must not
\* starve because the few Daemons of the model are taken at the moment.
FairStartUpSpec ==
    /\ StartUpSpec
    /\ \A c \in Starters : SF_startUpVars(EnsureDaemon(c)) /\ WF_startUpVars(Run(c))
    /\ \A d \in Daemons : WF_startUpVars(Listen(d))

-----------------------------------------------------------------------------
Happened(k) == k \in Kinds /\ faults[k] > 0

\* Every variable has its type.
StartUpTypeOK ==
    /\ path \in Daemons \union {NoFile, Stale}
    /\ daemon \in [Daemons -> {"none", "starting", "serving", "stuck"}]
    /\ pc \in [Starters -> {"idle", "dialling", "spawning", "polling", "up", "failed"}]
    /\ tries \in [Starters -> 0..Polls]
    /\ signals \in 0..MaxSignals
    /\ faults \in [Kinds -> 0..MaxFaults]

\* However many clients start a daemon at the same time, and whichever of the
\* daemons stop meanwhile: one that listens is the one behind the socket. So
\* there are never two that serve, each with a registry of its own for the
\* same repositories, and a stop or a start that failed takes the path away
\* from nobody (server.go:30-33, 39-48, daemon_start.go:12-18). Only who
\* removes the file under a running daemon makes room for a second one.
ServerIsReachable ==
    \A d \in Daemons : Listening(d) => path = d \/ Happened("remove")

\* A user who tries again is served in the end, through overlapping starts,
\* daemons that are slow to listen and daemons that are stopped, as long as
\* no daemon is killed, nobody removes the file and no Accept fails
\* (daemon_start.go:12-30, main.go:28-33).
RetriesAreServed ==
    (\A k \in {"kill", "remove", "accept"} : []~Happened(k)) =>
        \A c \in Starters : []<>(pc[c] = "up")

\* "EnsureDaemon starts krellind if the socket is not reachable"
\* (daemon_start.go:10), so the socket must not be in a state in which no
\* krellind can start: a daemon that is killed leaves its file, the next ones
\* fail to bind it, and main ignores that (server.go:30, main.go:28).
DaemonCanStart == path # Stale
=============================================================================
