------------------------------- MODULE Daemon -------------------------------
(***************************************************************************)
(* The registry of sessions (internal/daemon/daemon.go, ensure.go), the    *)
(* handshake that finds or makes the session of a connection (first part   *)
(* of Router.ServeConn), and the clients of pkg/client/socket.go, which    *)
(* keep the session id of their first handshake for ever.                  *)
(*                                                                         *)
(* d.mu is held for one look-up or one registration; a session is built    *)
(* and started, which takes docker commands, without it.  A client may     *)
(* have several connections at a time: the TUI has one for its events and  *)
(* opens one more for each action.                                         *)
(***************************************************************************)
EXTENDS Integers

CONSTANTS
    Clients,
    Repos,
    RepoOf,        \* the repository each client works in
    Lines,         \* connections of one client that may be open at a time
    MaxSessions,   \* bound: sessions built in one life of the daemon
    MaxRestarts    \* bound: restarts of the daemon

ASSUME ClientsHaveRepos == RepoOf \in [Clients -> Repos]
ASSUME DaemonBounds == MaxSessions \in Nat /\ MaxRestarts \in Nat

Conns == Clients \X Lines
Client(k) == k[1]
Repo(k) == RepoOf[Client(k)]
Ids == 1 .. MaxSessions

VARIABLES
    counter,    \* sessionCounter
    sessions,   \* d.sessions: <<id, repository>> of the registered sessions
    byRepo,     \* d.byRepo: the id registered last for a repository, or 0
    state,      \* where each connection is
    offered,    \* the session id in its connect message, 0 for none
    given,      \* the session id ServeConn works with, 0 for none yet
    cached,     \* the session id each client keeps, 0 for none
    served,     \* history: <<client, repository of the session>> per action
    restarts    \* number of restarts so far

registry == <<counter, sessions, byRepo>>
conns == <<state, offered, given>>
vars == <<registry, conns, cached, served, restarts>>

States == {"closed", "dialled", "missed", "built", "starting", "found", "open"}

Init ==
    /\ counter = 0 /\ sessions = {} /\ byRepo = [r \in Repos |-> 0]
    /\ state = [k \in Conns |-> "closed"]
    /\ offered = [k \in Conns |-> 0]
    /\ given = [k \in Conns |-> 0]
    /\ cached = [c \in Clients |-> 0]
    /\ served = {}
    /\ restarts = 0

-----------------------------------------------------------------------------
Goes(k, from, to) == state[k] = from /\ state' = [state EXCEPT ![k] = to]

\* The client dials and sends its connect message.
Dial(k) ==
    /\ Goes(k, "closed", "dialled")
    /\ offered' = [offered EXCEPT ![k] = cached[Client(k)]]
    /\ given' = [given EXCEPT ![k] = 0]
    /\ UNCHANGED <<registry, cached, served, restarts>>

\* A session id in the connect message is taken as it is.
TakeOffer(k) ==
    /\ offered[k] # 0
    /\ Goes(k, "dialled", "found")
    /\ given' = [given EXCEPT ![k] = offered[k]]
    /\ UNCHANGED <<registry, offered, cached, served, restarts>>

\* Otherwise EnsureSessionForRepo looks for the session of the repository.
LookUp(k) ==
    /\ offered[k] = 0
    /\ IF byRepo[Repo(k)] # 0
         THEN /\ Goes(k, "dialled", "found")
              /\ given' = [given EXCEPT ![k] = byRepo[Repo(k)]]
         ELSE /\ Goes(k, "dialled", "missed")
              /\ UNCHANGED given
    /\ UNCHANGED <<registry, offered, cached, served, restarts>>

\* The factory builds a session, which gets the next id.
CounterStuck == counter' = IF counter = 0 THEN 1 ELSE counter
CounterNext == counter' = counter + 1

Build(k) ==
    /\ counter < MaxSessions
    /\ Goes(k, "missed", "built")
    /\ CounterNext
    /\ given' = [given EXCEPT ![k] = counter']
    /\ UNCHANGED <<sessions, byRepo, offered, cached, served, restarts>>

\* The factory fails: an error event, and the connection is closed.
BuildFails(k) ==
    /\ Goes(k, "missed", "closed")
    /\ UNCHANGED <<registry, offered, given, cached, served, restarts>>

\* Registered before it is started, for subscribers to find it.
RegisterSession(k) ==
    /\ Goes(k, "built", "starting")
    /\ sessions' = sessions \union {<<given[k], Repo(k)>>}
    /\ byRepo' = [byRepo EXCEPT ![Repo(k)] = given[k]]
    /\ UNCHANGED <<counter, offered, given, cached, served, restarts>>

UnregisterOnFailure(k) ==
    /\ Goes(k, "starting", "found")
    /\ sessions' = sessions \ {<<given[k], Repo(k)>>}
    /\ UNCHANGED <<counter, byRepo, offered, given, cached, served, restarts>>

\* Start has returned, and does not say whether the capsule is there.
StartReturns(k) ==
    /\ Goes(k, "starting", "found")
    /\ UNCHANGED <<registry, offered, given, cached, served, restarts>>

\* The daemon answers "connected", and the client keeps its first answer.
CacheFirst(k) ==
    cached' = [cached EXCEPT ![Client(k)] = IF @ = 0 THEN given[k] ELSE @]

Connected(k) ==
    /\ Goes(k, "found", "open")
    /\ CacheFirst(k)
    /\ UNCHANGED <<registry, offered, given, served, restarts>>

\* An action goes to the session it names: the client leaves the name out.
Act(k) ==
    /\ state[k] = "open"
    /\ \E s \in sessions : s[1] = given[k] /\ served' = served \union {<<Client(k), s[2]>>}
    /\ UNCHANGED <<registry, conns, cached, restarts>>

\* The client hangs up, or the daemon does because it has no such session.
Close(k) ==
    /\ Goes(k, "open", "closed")
    /\ UNCHANGED <<registry, offered, given, cached, served, restarts>>

\* A new daemon process: no sessions, and session ids start over.
Restart ==
    /\ restarts < MaxRestarts
    /\ restarts' = restarts + 1
    /\ counter' = 0 /\ sessions' = {} /\ byRepo' = [r \in Repos |-> 0]
    /\ state' = [k \in Conns |-> "closed"]
    /\ UNCHANGED <<offered, given, cached, served>>

Handshake(k) ==
    \/ TakeOffer(k) \/ LookUp(k) \/ Build(k) \/ BuildFails(k)
    \/ RegisterSession(k) \/ StartReturns(k) \/ Connected(k)

Next ==
    \/ \E k \in Conns : Dial(k) \/ Handshake(k) \/ Act(k) \/ Close(k)
    \/ Restart

Spec == Init /\ [][Next]_vars

-----------------------------------------------------------------------------
TypeOK ==
    /\ counter \in 0 .. MaxSessions
    /\ sessions \subseteq Ids \X Repos
    /\ byRepo \in [Repos -> 0 .. MaxSessions]
    /\ state \in [Conns -> States]
    /\ offered \in [Conns -> 0 .. MaxSessions]
    /\ given \in [Conns -> 0 .. MaxSessions]
    /\ cached \in [Clients -> 0 .. MaxSessions]
    /\ served \subseteq Clients \X Repos
    /\ restarts \in 0 .. MaxRestarts

\* The two maps agree: what byRepo names is registered, for that repository
\* and no other (ensure.go:38-39), whatever handshakes overlap.
RegistryAgrees ==
    /\ \A r \in Repos : byRepo[r] # 0 => <<byRepo[r], r>> \in sessions
    /\ \A s, t \in sessions : s[1] = t[1] => s = t

\* "All execution happens inside a persistent per-repo capsule"
\* (planning_docs/krellinv0architecture.md:10): an action is executed by a
\* session of the repository its client works in.
ActionStaysInRepo == \A a \in served : a[2] = RepoOf[a[1]]

\* That holds as long as the daemon lives, whichever connection built the
\* session and whatever id the client kept (ensure.go:32-40, socket.go:31).
FirstLifeStaysInRepo == restarts = 0 => ActionStaysInRepo

\* As long as the daemon lives, a client that was told "connected" finds its
\* session: the id it keeps is registered (router.go:83-88).
CachedIdIsRegistered ==
    restarts = 0 =>
        \A c \in Clients : cached[c] # 0 => <<cached[c], RepoOf[c]>> \in sessions

\* "Reuse existing session for the repo if present" (ensure.go:18), and
\* "expected same session for repo root" (daemon_repo_test.go:16).
OneSessionPerRepo == \A s, t \in sessions : s[2] = t[2] => s = t
=============================================================================
