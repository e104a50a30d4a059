---------------------------- MODULE DaemonProofs ----------------------------
(***************************************************************************)
(* Proofs about Daemon, for any clients, repositories, connections and     *)
(* bounds: the two maps of the registry agree, and as long as the daemon   *)
(* lives, actions stay in their repository and kept ids stay registered;   *)
(* and about StartUp, in the second part: at most one daemon serves.       *)
(***************************************************************************)
EXTENDS Daemon, StartUp, TLAPS

(***************************************************************************)
(* Why it holds.  An id is given out once in a life of the daemon: it is   *)
(* pending (built and not registered) on one connection, or registered for *)
(* one repository.  In the first life whatever id a client or a connection *)
(* holds was registered for its own repository, and nothing is             *)
(* unregistered.                                                           *)
(***************************************************************************)
Registered(id, r) == <<id, r>> \in sessions

IdsWereGiven == \A s \in sessions : s[1] <= counter

PendingIsFresh ==
    \A k \in Conns :
        state[k] = "built" =>
            /\ given[k] \in 1 .. counter
            /\ \A s \in sessions : s[1] # given[k]
            /\ \A l \in Conns : state[l] = "built" /\ given[l] = given[k] => l = k

OfferIsOurs ==
    \A k \in Conns :
        state[k] = "dialled" /\ offered[k] # 0 => Registered(offered[k], Repo(k))

GivenIsOurs ==
    \A k \in Conns :
        state[k] \in {"starting", "found", "open"} => Registered(given[k], Repo(k))

FirstLife ==
    restarts = 0 =>
        /\ OfferIsOurs /\ GivenIsOurs
        /\ \A c \in Clients : cached[c] # 0 => Registered(cached[c], RepoOf[c])
        /\ ActionStaysInRepo

IInv == TypeOK /\ RegistryAgrees /\ IdsWereGiven /\ PendingIsFresh /\ FirstLife

-----------------------------------------------------------------------------
LEMMA ConnFacts ==
  ASSUME NEW k \in Conns
  PROVE  Client(k) \in Clients /\ Repo(k) \in Repos /\ Repo(k) = RepoOf[Client(k)]
BY ClientsHaveRepos DEF Conns, Client, Repo

LEMMA TypeOKInit == Init => TypeOK
BY DaemonBounds DEF Init, TypeOK, States

LEMMA TypeOKStep == IInv /\ [Next]_vars => TypeOK'
<1>. SUFFICES ASSUME IInv, [Next]_vars
              PROVE  TypeOK'
  OBVIOUS
<1>. USE DaemonBounds DEF IInv, TypeOK, registry, conns
<1>1. ASSUME NEW k \in Conns, Dial(k) \/ TakeOffer(k) \/ LookUp(k)
      PROVE  TypeOK'
  BY <1>1, ConnFacts DEF Dial, TakeOffer, LookUp, Goes, States
<1>2. ASSUME NEW k \in Conns, Build(k)
      PROVE  TypeOK'
  BY <1>2 DEF Build, CounterNext, Goes, States
<1>3. ASSUME NEW k \in Conns, BuildFails(k) \/ StartReturns(k) \/ Close(k)
      PROVE  TypeOK'
  BY <1>3 DEF BuildFails, StartReturns, Close, Goes, States
<1>4. ASSUME NEW k \in Conns, RegisterSession(k)
      PROVE  TypeOK'
  <2>1. given[k] \in Ids /\ Repo(k) \in Repos
    BY <1>4, ConnFacts DEF PendingIsFresh, RegisterSession, Goes, Ids
  <2>. QED
    BY <1>4, <2>1 DEF RegisterSession, Goes, States, Ids
<1>5. ASSUME NEW k \in Conns, Connected(k)
      PROVE  TypeOK'
  BY <1>5, ConnFacts DEF Connected, CacheFirst, Goes, States
<1>6. ASSUME NEW k \in Conns, Act(k)
      PROVE  TypeOK'
  BY <1>6, ConnFacts DEF Act
<1>7. CASE Restart
  BY <1>7 DEF Restart, States
<1>8. CASE UNCHANGED vars
  BY <1>8 DEF vars
<1>. QED
  BY <1>1, <1>2, <1>3, <1>4, <1>5, <1>6, <1>7, <1>8 DEF Next, Handshake

LEMMA IInvInit == Init => IInv
BY TypeOKInit
   DEF Init, IInv, RegistryAgrees, IdsWereGiven, PendingIsFresh, FirstLife,
       OfferIsOurs, GivenIsOurs, ActionStaysInRepo

(***************************************************************************)
(* Ids: the part of the invariant that holds in every life.                *)
(***************************************************************************)
Unique == RegistryAgrees /\ IdsWereGiven /\ PendingIsFresh

LEMMA UniqueStep == IInv /\ [Next]_vars => Unique'
<1>. SUFFICES ASSUME IInv, [Next]_vars
              PROVE  Unique'
  OBVIOUS
<1>. USE DEF IInv, Unique, RegistryAgrees, IdsWereGiven, PendingIsFresh,
             TypeOK, Ids, registry, conns
<1>1. ASSUME NEW k \in Conns,
             Dial(k) \/ TakeOffer(k) \/ LookUp(k) \/ BuildFails(k)
               \/ StartReturns(k) \/ Close(k) \/ Connected(k) \/ Act(k)
      PROVE  Unique'
  <2>1. UNCHANGED registry
    BY <1>1 DEF Dial, TakeOffer, LookUp, BuildFails, StartReturns, Close, Connected, Act
  <2>2. \A l \in Conns : state'[l] = "built" => state[l] = "built" /\ given'[l] = given[l]
    BY <1>1 DEF Dial, TakeOffer, LookUp, BuildFails, StartReturns, Close,
                Connected, Act, Goes
  <2>. QED
    BY <2>1, <2>2
<1>2. ASSUME NEW k \in Conns, Build(k)
      PROVE  Unique'
  <2>1. counter' = counter + 1 /\ given'[k] = counter + 1 /\ UNCHANGED <<sessions, byRepo>>
    BY <1>2 DEF Build, CounterNext
  <2>2. \A l \in Conns \ {k} : state'[l] = state[l] /\ given'[l] = given[l]
    BY <1>2 DEF Build, Goes
  <2>3. \A s \in sessions : s[1] \in Nat /\ s[1] <= counter
    OBVIOUS
  <2>. QED
    BY <2>1, <2>2, <2>3
<1>3. ASSUME NEW k \in Conns, RegisterSession(k)
      PROVE  Unique'
  <2>1. /\ state[k] = "built" /\ state' = [state EXCEPT ![k] = "starting"]
        /\ sessions' = sessions \union {<<given[k], Repo(k)>>}
        /\ byRepo' = [byRepo EXCEPT ![Repo(k)] = given[k]]
        /\ UNCHANGED <<counter, given>>
    BY <1>3 DEF RegisterSession, Goes
  <2>2. RegistryAgrees'
    <3>1. \A s \in sessions : s[1] # given[k]
      BY <2>1
    <3>2. \A r \in Repos : byRepo'[r] # 0 => <<byRepo'[r], r>> \in sessions'
      BY <2>1
    <3>3. \A s, t \in sessions' : s[1] = t[1] => s = t
      BY <2>1, <3>1
    <3>. QED
      BY <3>2, <3>3
  <2>3. IdsWereGiven'
    BY <2>1
  <2>4. PendingIsFresh'
    <3>. SUFFICES ASSUME NEW l \in Conns, state'[l] = "built"
                  PROVE  /\ given'[l] \in 1 .. counter'
                         /\ \A s \in sessions' : s[1] # given'[l]
                         /\ \A m \in Conns :
                               state'[m] = "built" /\ given'[m] = given'[l] => m = l
      OBVIOUS
    <3>1. l # k /\ state[l] = "built"
      BY <2>1
    <3>2. given[l] # given[k]
      BY <2>1, <3>1
    <3>. QED
      BY <2>1, <3>1, <3>2
  <2>. QED
    BY <2>2, <2>3, <2>4
<1>4. CASE Restart
  BY <1>4 DEF Restart
<1>5. CASE UNCHANGED vars
  BY <1>5 DEF vars
<1>. QED
  BY <1>1, <1>2, <1>3, <1>4, <1>5 DEF Next, Handshake

(***************************************************************************)
(* The first life: what is registered stays registered.                    *)
(***************************************************************************)
LEMMA FirstLifeStep == IInv /\ [Next]_vars => FirstLife'
<1>. SUFFICES ASSUME IInv, [Next]_vars, restarts' = 0
              PROVE  /\ OfferIsOurs' /\ GivenIsOurs'
                     /\ \A c \in Clients : cached'[c] # 0 => Registered(cached[c], RepoOf[c])'
                     /\ ActionStaysInRepo'
  BY DEF FirstLife
<1>. USE DEF IInv, FirstLife, OfferIsOurs, GivenIsOurs, Registered,
             ActionStaysInRepo, TypeOK, registry, conns
<1>1. ASSUME NEW k \in Conns, Dial(k)
      PROVE  FirstLife'
  BY <1>1, ConnFacts DEF Dial, Goes
<1>2. ASSUME NEW k \in Conns, TakeOffer(k)
      PROVE  FirstLife'
  BY <1>2 DEF TakeOffer, Goes
<1>3. ASSUME NEW k \in Conns, LookUp(k)
      PROVE  FirstLife'
  BY <1>3, ConnFacts DEF LookUp, Goes, RegistryAgrees
<1>4. ASSUME NEW k \in Conns, Build(k)
      PROVE  FirstLife'
  BY <1>4 DEF Build, Goes
<1>5. ASSUME NEW k \in Conns, RegisterSession(k)
      PROVE  FirstLife'
  BY <1>5 DEF RegisterSession, Goes
<1>6. ASSUME NEW k \in Conns, BuildFails(k) \/ StartReturns(k) \/ Close(k)
      PROVE  FirstLife'
  BY <1>6 DEF BuildFails, StartReturns, Close, Goes
<1>7. ASSUME NEW k \in Conns, Connected(k)
      PROVE  FirstLife'
  BY <1>7, ConnFacts DEF Connected, CacheFirst, Goes
<1>8. ASSUME NEW k \in Conns, Act(k)
      PROVE  FirstLife'
  <2>1. PICK s \in sessions :
           s[1] = given[k] /\ served' = served \union {<<Client(k), s[2]>>}
    BY <1>8 DEF Act
  <2>2. s = <<given[k], Repo(k)>>
    BY <1>8, <2>1 DEF Act, RegistryAgrees
  <2>. QED
    BY <1>8, <2>1, <2>2, ConnFacts DEF Act
<1>9. CASE Restart
  BY <1>9, DaemonBounds DEF Restart
<1>10. CASE UNCHANGED vars
  BY <1>10 DEF vars
<1>. QED
  BY <1>1, <1>2, <1>3, <1>4, <1>5, <1>6, <1>7, <1>8, <1>9, <1>10 DEF Next, Handshake

LEMMA Invariance == Spec => []IInv
<1>1. IInv /\ [Next]_vars => IInv'
  BY TypeOKStep, UniqueStep, FirstLifeStep DEF IInv, Unique
<1>. QED
  BY IInvInit, <1>1, PTL DEF Spec

-----------------------------------------------------------------------------
\* The variables keep their types, for every value of the constants.
THEOREM TypeCorrect == Spec => []TypeOK
BY Invariance, PTL DEF IInv

\* Whatever handshakes overlap and however often the daemon restarts, byRepo
\* names registered sessions of its repository, and no id is given to two.
THEOREM MapsAgree == Spec => []RegistryAgrees
BY Invariance, PTL DEF IInv

\* As long as the daemon lives, an action is executed by a session of its
\* client's repository, whichever connection built it.
THEOREM ActionsStay == Spec => []FirstLifeStaysInRepo
<1>1. IInv => FirstLifeStaysInRepo
  BY DEF IInv, FirstLife, FirstLifeStaysInRepo
<1>. QED
  BY Invariance, <1>1, PTL

\* As long as the daemon lives, the id a client keeps stays registered, for
\* its repository, although byRepo may have moved on to another session.
THEOREM KeptIdIsKnown == Spec => []CachedIdIsRegistered
<1>1. IInv => CachedIdIsRegistered
  BY DEF IInv, FirstLife, CachedIdIsRegistered, Registered
<1>. QED
  BY Invariance, <1>1, PTL

-----------------------------------------------------------------------------
(***************************************************************************)
(* How a daemon comes to serve (StartUp), for any clients, daemons and     *)
(* faults: a daemon that listens is the one behind the socket's path, so   *)
(* that there is never a second one with a registry of its own, unless     *)
(* somebody removed the file. ServerIsReachable is inductive with the      *)
(* types: who binds finds no file, hence no listener; who stops listening  *)
(* had the file itself; and a fault once counted stays counted. Bounds and *)
(* Paths are what StartUp assumes of its constants.                        *)
(***************************************************************************)
ServerInv == StartUpTypeOK /\ ServerIsReachable

\* The initial state has the invariant: nothing runs.
LEMMA ServerInit == Bounds /\ StartUpInit => ServerInv
  BY DEF Bounds, StartUpInit, ServerInv, StartUpTypeOK, ServerIsReachable,
         Listening

\* A step of Fault counts the fault and forgets none.
LEMMA FaultCounts ==
    ASSUME Bounds, StartUpTypeOK, NEW k, Fault(k)
    PROVE  /\ faults' \in [Kinds -> 0..MaxFaults]
           /\ Happened(k)'
           /\ \A j : Happened(j) => Happened(j)'
<1>1. faults[k] \in 0..MaxFaults /\ faults[k] + 1 \in 0..MaxFaults
  BY DEF Bounds, StartUpTypeOK, Fault
<1>2. faults' = [faults EXCEPT ![k] = faults[k] + 1]
  BY DEF Fault
<1>3. ASSUME NEW j \in Kinds
      PROVE  faults'[j] = IF j = k THEN faults[k] + 1 ELSE faults[j]
  BY <1>2 DEF StartUpTypeOK
<1>4. faults' \in [Kinds -> 0..MaxFaults]
  BY <1>1, <1>2 DEF StartUpTypeOK, Fault
<1>5. Happened(k)'
  BY <1>1, <1>3 DEF Happened, Fault
<1>6. \A j : Happened(j) => Happened(j)'
  BY <1>1, <1>3 DEF Happened, StartUpTypeOK
<1> QED
  BY <1>4, <1>5, <1>6

\* What happened is read off faults alone.
LEMMA HappenedStays ==
    ASSUME UNCHANGED faults, NEW k PROVE Happened(k) => Happened(k)'
  BY DEF Happened

-----------------------------------------------------------------------------
\* Every step keeps the types.
LEMMA ServerTypes ==
    ASSUME Bounds, StartUpTypeOK, [StartUpNext]_startUpVars
    PROVE  StartUpTypeOK'
<1> USE DEF Bounds
<1>1. CASE \E c \in Starters : Run(c) \/ EnsureDaemon(c)
  <2>1. ASSUME NEW c \in Starters, Run(c) PROVE StartUpTypeOK'
    BY <2>1 DEF Run, Turns, StartUpTypeOK
  <2>2. ASSUME NEW c \in Starters, DialSucceeds(c) \/ DialFails(c) PROVE StartUpTypeOK'
    BY <2>2 DEF DialSucceeds, DialFails, Turns, StartUpTypeOK
  <2>3. ASSUME NEW c \in Starters, NEW d \in Daemons, Spawn(c, d) PROVE StartUpTypeOK'
    BY <2>3 DEF Spawn, Turns, Becomes, StartUpTypeOK
  <2>4. ASSUME NEW c \in Starters, PollSucceeds(c) PROVE StartUpTypeOK'
    BY <2>4 DEF PollSucceeds, Turns, StartUpTypeOK
  <2>5. ASSUME NEW c \in Starters, PollFails(c) PROVE StartUpTypeOK'
    <3>1. tries[c] \in 0..Polls /\ tries[c] - 1 \in 0..Polls
      BY <2>5 DEF PollFails, StartUpTypeOK
    <3> QED
      BY <2>5, <3>1 DEF PollFails, Turns, StartUpTypeOK
  <2> QED
    BY <1>1, <2>1, <2>2, <2>3, <2>4, <2>5 DEF EnsureDaemon
<1>2. CASE \E c \in Starters : SpawnFails(c)
  <2>1. PICK c \in Starters : SpawnFails(c)
    BY <1>2
  <2>2. faults' \in [Kinds -> 0..MaxFaults]
    BY <2>1, FaultCounts DEF SpawnFails
  <2> QED
    BY <2>1, <2>2 DEF SpawnFails, Turns, StartUpTypeOK
<1>3. ASSUME NEW d \in Daemons, Listen(d) PROVE StartUpTypeOK'
  BY <1>3 DEF Listen, Becomes, StartUpTypeOK
<1>4. ASSUME NEW d \in Daemons, Signal(d) PROVE StartUpTypeOK'
  <2>1. signals' \in 0..MaxSignals
    BY <1>4 DEF Signal, StartUpTypeOK
  <2> QED
    BY <1>4, <2>1 DEF Signal, Exit, Becomes, StartUpTypeOK
<1>5. ASSUME NEW d \in Daemons, Killed(d) \/ AcceptFails(d) PROVE StartUpTypeOK'
  <2>1. faults' \in [Kinds -> 0..MaxFaults]
    BY <1>5, FaultCounts DEF Killed, AcceptFails
  <2> QED
    BY <1>5, <2>1 DEF Killed, AcceptFails, Dies,
                      Becomes, StartUpTypeOK
<1>6. CASE FileRemoved
  <2>1. faults' \in [Kinds -> 0..MaxFaults]
    BY <1>6, FaultCounts DEF FileRemoved
  <2> QED
    BY <1>6, <2>1 DEF FileRemoved, StartUpTypeOK
<1>7. CASE UNCHANGED startUpVars
  BY <1>7 DEF startUpVars, StartUpTypeOK
<1> QED
  BY <1>1, <1>2, <1>3, <1>4, <1>5, <1>6, <1>7 DEF StartUpNext

\* No step of a client touches the file or makes a daemon listen.
LEMMA ClientsKeepReachable ==
    ASSUME Bounds, StartUpTypeOK, ServerIsReachable, NEW c \in Starters,
           Run(c) \/ EnsureDaemon(c) \/ SpawnFails(c)
    PROVE  ServerIsReachable'
<1>1. path' = path
  BY DEF Run, EnsureDaemon, SpawnFails, DialSucceeds,
         DialFails, Spawn, PollSucceeds, PollFails
<1>2. \A d \in Daemons : Listening(d)' => Listening(d)
  BY DEF Run, EnsureDaemon, SpawnFails, DialSucceeds,
         DialFails, Spawn, PollSucceeds,
         PollFails, Becomes, Listening, StartUpTypeOK
<1>3. Happened("remove") => Happened("remove")'
  <2>1. CASE UNCHANGED faults
    BY <2>1, HappenedStays
  <2>2. CASE SpawnFails(c)
    BY <2>2, FaultCounts DEF SpawnFails
  <2> QED
    BY <2>1, <2>2
    DEF Run, EnsureDaemon, DialSucceeds, DialFails,
        Spawn, PollSucceeds, PollFails
<1> QED
  BY <1>1, <1>2, <1>3 DEF ServerIsReachable

\* Every step keeps the one listener behind the path.
LEMMA ReachableInductive ==
    ASSUME Bounds, Paths, StartUpTypeOK, ServerIsReachable,
           [StartUpNext]_startUpVars
    PROVE  ServerIsReachable'
<1>1. ASSUME NEW c \in Starters, Run(c) \/ EnsureDaemon(c) \/ SpawnFails(c)
      PROVE  ServerIsReachable'
  BY <1>1, ClientsKeepReachable
<1>2. ASSUME NEW d \in Daemons, Listen(d) PROVE ServerIsReachable'
  <2>1. Happened("remove") => Happened("remove")'
    BY <1>2, HappenedStays DEF Listen
  <2>2. CASE path = NoFile
    <3>1. path' = d /\ \A e \in Daemons : Listening(e)' => e = d \/ Listening(e)
      BY <1>2, <2>2 DEF Listen, Becomes, Listening, StartUpTypeOK
    <3>2. \A e \in Daemons : Listening(e) => Happened("remove")
      BY <2>2 DEF Paths, ServerIsReachable
    <3> QED
      BY <2>1, <3>1, <3>2 DEF ServerIsReachable
  <2>3. CASE path # NoFile
    <3>1. path' = path /\ \A e \in Daemons : Listening(e)' => Listening(e)
      BY <1>2, <2>3 DEF Listen, Becomes, Listening, StartUpTypeOK
    <3> QED
      BY <2>1, <3>1 DEF ServerIsReachable
  <2> QED
    BY <2>2, <2>3
<1>3. ASSUME NEW d \in Daemons, Signal(d) PROVE ServerIsReachable'
  <2>1. Happened("remove") => Happened("remove")'
    BY <1>3, HappenedStays DEF Signal
  <2>2. \A e \in Daemons : Listening(e)' => Listening(e) /\ e # d
    BY <1>3 DEF Signal, Exit, Becomes, Listening, StartUpTypeOK
  <2>3. ASSUME NEW e \in Daemons, Listening(e)', ~Happened("remove") PROVE path' = e
    <3>1. path = e /\ ~Listening(d)
      BY <2>2, <2>3 DEF ServerIsReachable
    <3> QED
      BY <1>3, <3>1 DEF Signal, Exit
  <2> QED
    BY <2>1, <2>3 DEF ServerIsReachable
<1>4. ASSUME NEW d \in Daemons, Killed(d) PROVE ServerIsReachable'
  <2>1. Happened("remove") => Happened("remove")'
    BY <1>4, FaultCounts DEF Killed
  <2>2. \A e \in Daemons : Listening(e)' => Listening(e) /\ e # d
    BY <1>4 DEF Killed, Dies, Becomes, Listening, StartUpTypeOK
  <2>3. path' = path \/ path = d
    BY <1>4 DEF Killed, Dies
  <2> QED
    BY <2>1, <2>2, <2>3 DEF ServerIsReachable
<1>5. ASSUME NEW d \in Daemons, AcceptFails(d) PROVE ServerIsReachable'
  <2>1. Happened("remove") => Happened("remove")'
    BY <1>5, FaultCounts DEF AcceptFails
  <2>2. path' = path /\ \A e \in Daemons : Listening(e)' => Listening(e)
    BY <1>5 DEF AcceptFails, Becomes, Listening, StartUpTypeOK
  <2> QED
    BY <2>1, <2>2 DEF ServerIsReachable
<1>6. CASE FileRemoved
  BY <1>6, FaultCounts DEF FileRemoved, ServerIsReachable
<1>7. CASE UNCHANGED startUpVars
  BY <1>7 DEF startUpVars, ServerIsReachable, Listening, Happened
<1> QED
  BY <1>1, <1>2, <1>3, <1>4, <1>5, <1>6, <1>7 DEF StartUpNext

-----------------------------------------------------------------------------
\* The invariant holds in every reachable state.
LEMMA ServerInvariance == StartUpSpec => []ServerInv
<1>1. ServerInv /\ [StartUpNext]_startUpVars => ServerInv'
  BY ServerTypes, ReachableInductive, StartUpAssumption DEF ServerInv
<1>2. StartUpInit => ServerInv
  BY ServerInit, StartUpAssumption
<1> QED
  BY <1>1, <1>2, PTL DEF StartUpSpec

\* Every variable keeps its type, for any clients, daemons and faults.
THEOREM ServerTypeCorrect == StartUpSpec => []StartUpTypeOK
<1>1. ServerInv => StartUpTypeOK
  BY DEF ServerInv
<1> QED
  BY ServerInvariance, <1>1, PTL

\* However starts, stops and faults interleave (daemon_start.go:11,
\* server.go:24-48), a daemon that listens is behind the path, unless somebody
\* removed its file.
THEOREM ListenerIsReachable == StartUpSpec => []ServerIsReachable
<1>1. ServerInv => ServerIsReachable
  BY DEF ServerInv
<1> QED
  BY ServerInvariance, <1>1, PTL

\* At most one daemon listens.
OneServer ==
    \A d, e \in Daemons :
        Listening(d) /\ Listening(e) => d = e \/ Happened("remove")

\* Clients that start krellind at the same time never make two daemons that
\* serve, each with a registry of its own (daemon_start.go:12-18).
THEOREM NeverTwoServers == StartUpSpec => []OneServer
<1>1. ServerInv => OneServer
  BY DEF ServerInv, ServerIsReachable, OneServer
<1> QED
  BY ServerInvariance, <1>1, PTL
=============================================================================
