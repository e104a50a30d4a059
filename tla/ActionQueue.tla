---------------------------- MODULE ActionQueue ----------------------------
(***************************************************************************)
(* internal/queue/queue.go: the blocking queue between the goroutines that *)
(* call Session.Submit (producers) and Executor.Run (consumer), at the     *)
(* level of its mutex, its condition variable and the goroutine each       *)
(* Dequeue starts to turn a cancelled context into a Broadcast.            *)
(*                                                                         *)
(* A critical section is one step, except that a consumer that found       *)
(* nothing keeps q.mu ("checked") until cond.Wait releases it.  Every      *)
(* other critical section needs MuFree.  The production code has one       *)
(* consumer per queue; the model allows any number, as queue.go does.      *)
(***************************************************************************)
EXTENDS Integers, Sequences, FiniteSets

CONSTANTS
    Producers,   \* goroutines that call Enqueue
    Consumers,   \* goroutines that loop over Dequeue, each with its own ctx
    MaxPuts      \* bound: Enqueue calls of one producer

ASSUME ConsumersFinite == IsFiniteSet(Consumers)
ASSUME MaxPutsNat == MaxPuts \in Nat

VARIABLES
    items,     \* q.items
    closed,    \* q.closed
    cpc,       \* where each consumer is, see ConsumerStates
    ctxDone,   \* is the consumer's context cancelled?
    watcher,   \* has the current Dequeue a watcher goroutine that has not run?
    late,      \* number of watchers whose Dequeue returned before they ran
    puts,      \* Enqueue calls made by each producer
    sent,      \* history: items Enqueue accepted, in order
    got        \* history: items Dequeue returned, in order

vars == <<items, closed, cpc, ctxDone, watcher, late, puts, sent, got>>

Messages == Producers \X (1 .. MaxPuts)

(***************************************************************************)
(* away     outside Dequeue, or blocked in its first q.mu.Lock()           *)
(* checked  holds q.mu, found nothing to return, about to cond.Wait()      *)
(* waiting  in the wait set of q.cond, q.mu released                       *)
(* woken    signalled, still to reacquire q.mu                             *)
(* stopped  Dequeue returned an error, on which Executor.Run returns       *)
(***************************************************************************)
ConsumerStates == {"away", "checked", "waiting", "woken", "stopped"}

Init ==
    /\ items = << >>
    /\ closed = FALSE
    /\ cpc = [c \in Consumers |-> "away"]
    /\ ctxDone = [c \in Consumers |-> FALSE]
    /\ watcher = [c \in Consumers |-> FALSE]
    /\ late = [c \in Consumers |-> 0]
    /\ puts = [p \in Producers |-> 0]
    /\ sent = << >>
    /\ got = << >>

Waiting == {c \in Consumers : cpc[c] = "waiting"}
Woken == {c \in Consumers : cpc[c] = "woken"}
MuFree == \A c \in Consumers : cpc[c] # "checked"

\* cond.Signal(): one waiter, whichever, is woken; nobody if nobody waits.
SignalNobody == {cpc}
Signalled ==
    IF Waiting = {} THEN {cpc}
    ELSE {[cpc EXCEPT ![c] = "woken"] : c \in Waiting}

\* cond.Broadcast(): every waiter is woken.
BroadcastNobody == cpc
Broadcasted ==
    [c \in Consumers |-> IF c \in Waiting THEN "woken" ELSE cpc[c]]

-----------------------------------------------------------------------------
EnqueueItem(p) ==
    /\ MuFree
    /\ ~closed
    /\ puts[p] < MaxPuts
    /\ LET m == <<p, puts[p] + 1>> IN
         /\ items' = Append(items, m)
         /\ sent' = Append(sent, m)
    /\ puts' = [puts EXCEPT ![p] = @ + 1]
    /\ cpc' \in Signalled
    /\ UNCHANGED <<closed, ctxDone, watcher, late, got>>

\* Enqueue on a closed queue: ErrClosed, the item is not kept.
EnqueueRefused(p) ==
    /\ MuFree
    /\ closed
    /\ puts[p] < MaxPuts
    /\ puts' = [puts EXCEPT ![p] = @ + 1]
    /\ UNCHANGED <<items, closed, cpc, ctxDone, watcher, late, sent, got>>

Close ==
    /\ MuFree
    /\ closed' = TRUE
    /\ cpc' = Broadcasted
    /\ UNCHANGED <<items, ctxDone, watcher, late, puts, sent, got>>

-----------------------------------------------------------------------------
(***************************************************************************)
(* One turn of Dequeue's loop, made by a consumer that has just locked     *)
(* q.mu: by calling Dequeue, which starts the watcher, or by returning     *)
(* from cond.Wait.                                                         *)
(***************************************************************************)
Turn(c) == MuFree /\ cpc[c] \in {"away", "woken"}

NoWatcher(c) == FALSE
HasWatcher(c) == cpc[c] = "away" \/ watcher[c]

\* Dequeue returns: close(done) leaves its watcher, if any, to exit alone.
Return(c, pc) ==
    /\ cpc' = [cpc EXCEPT ![c] = pc]
    /\ watcher' = [watcher EXCEPT ![c] = FALSE]
    /\ late' = [late EXCEPT ![c] = IF HasWatcher(c) THEN @ + 1 ELSE @]

TakeNewest(c) ==
    /\ Turn(c)
    /\ ~closed
    /\ items # << >>
    /\ got' = Append(got, items[Len(items)])
    /\ items' = SubSeq(items, 1, Len(items) - 1)
    /\ Return(c, "away")
    /\ UNCHANGED <<closed, ctxDone, puts, sent>>

Take(c) ==
    /\ Turn(c)
    /\ ~closed
    /\ items # << >>
    /\ got' = Append(got, Head(items))
    /\ items' = Tail(items)
    /\ Return(c, "away")
    /\ UNCHANGED <<closed, ctxDone, puts, sent>>

FailClosed(c) ==
    /\ Turn(c)
    /\ closed
    /\ Return(c, "stopped")
    /\ UNCHANGED <<items, closed, ctxDone, puts, sent, got>>

FailCancelledFirst(c) ==
    /\ Turn(c)
    /\ ~closed
    /\ ctxDone[c]
    /\ Return(c, "stopped")
    /\ UNCHANGED <<items, closed, ctxDone, puts, sent, got>>

\* Only a queue with nothing in it makes Dequeue look at the context.
FailCancelled(c) ==
    /\ Turn(c)
    /\ ~closed
    /\ items = << >>
    /\ ctxDone[c]
    /\ Return(c, "stopped")
    /\ UNCHANGED <<items, closed, ctxDone, puts, sent, got>>

FindNothing(c) ==
    /\ Turn(c)
    /\ ~closed
    /\ items = << >>
    /\ ~ctxDone[c]
    /\ cpc' = [cpc EXCEPT ![c] = "checked"]
    /\ watcher' = [watcher EXCEPT ![c] = HasWatcher(c)]
    /\ UNCHANGED <<items, closed, ctxDone, late, puts, sent, got>>

\* cond.Wait(): joins the wait set and releases q.mu.
Wait(c) ==
    /\ cpc[c] = "checked"
    /\ cpc' = [cpc EXCEPT ![c] = "waiting"]
    /\ UNCHANGED <<items, closed, ctxDone, watcher, late, puts, sent, got>>

-----------------------------------------------------------------------------
Cancel(c) ==
    /\ ~ctxDone[c]
    /\ ctxDone' = [ctxDone EXCEPT ![c] = TRUE]
    /\ UNCHANGED <<items, closed, cpc, watcher, late, puts, sent, got>>

WatcherUnlocked(c) ==
    /\ watcher[c]
    /\ ctxDone[c]
    /\ cpc' = Broadcasted
    /\ watcher' = [watcher EXCEPT ![c] = FALSE]
    /\ UNCHANGED <<items, closed, ctxDone, late, puts, sent, got>>

\* The watcher of the Dequeue in progress: lock, Broadcast, unlock.
WatcherFires(c) ==
    /\ MuFree
    /\ watcher[c]
    /\ ctxDone[c]
    /\ cpc' = Broadcasted
    /\ watcher' = [watcher EXCEPT ![c] = FALSE]
    /\ UNCHANGED <<items, closed, ctxDone, late, puts, sent, got>>

\* The watcher of a Dequeue that returned: its select may take either case
\* when the context is cancelled too, so it may still Broadcast.
LateWatcherExits(c) ==
    /\ late[c] > 0
    /\ late' = [late EXCEPT ![c] = @ - 1]
    /\ UNCHANGED <<items, closed, cpc, ctxDone, watcher, puts, sent, got>>

LateWatcherFires(c) ==
    /\ MuFree
    /\ late[c] > 0
    /\ ctxDone[c]
    /\ late' = [late EXCEPT ![c] = @ - 1]
    /\ cpc' = Broadcasted
    /\ UNCHANGED <<items, closed, ctxDone, watcher, puts, sent, got>>

Dequeue(c) ==
    \/ Take(c)
    \/ FailClosed(c)
    \/ FailCancelled(c)
    \/ FindNothing(c)

Next ==
    \/ \E p \in Producers : EnqueueItem(p) \/ EnqueueRefused(p)
    \/ \E c \in Consumers :
          \/ Dequeue(c) \/ Wait(c) \/ Cancel(c)
          \/ WatcherFires(c) \/ LateWatcherExits(c) \/ LateWatcherFires(c)
    \/ Close

Spec == Init /\ [][Next]_vars

(***************************************************************************)
(* The Go scheduler runs every runnable goroutine, and sync.Mutex hands    *)
(* the lock to a waiter that starves (1 ms), hence strong fairness of the  *)
(* steps that need the lock.  Nothing makes a producer enqueue, a context  *)
(* be cancelled or anyone call Close.                                      *)
(***************************************************************************)
Fairness ==
    \A c \in Consumers :
        /\ SF_vars(Dequeue(c))
        /\ WF_vars(Wait(c))
        /\ SF_vars(WatcherFires(c))

FairSpec == Spec /\ Fairness

-----------------------------------------------------------------------------
TypeOK ==
    /\ items \in Seq(Messages)
    /\ closed \in BOOLEAN
    /\ cpc \in [Consumers -> ConsumerStates]
    /\ ctxDone \in [Consumers -> BOOLEAN]
    /\ watcher \in [Consumers -> BOOLEAN]
    /\ late \in [Consumers -> Nat]
    /\ puts \in [Producers -> 0 .. MaxPuts]
    /\ sent \in Seq(Messages)
    /\ got \in Seq(Messages)

\* Exactly once, in order: what was handed out, followed by what is queued,
\* is what was accepted (queue.go:31, 59-60).
ConservesItems == sent = got \o items

\* No lost wakeup: while a consumer sleeps, every queued item has a woken
\* consumer on its way to it.  It needs both Enqueue's Signal (queue.go:32)
\* and that a woken consumer with a cancelled context takes an item before
\* it looks at the context (queue.go:58 before 63): it would otherwise
\* swallow the one Signal that was sent for the item.
NoLostWakeup == Waiting # {} => Len(items) <= Cardinality(Woken)

\* A cancelled consumer does not sleep for ever: its watcher is still to
\* Broadcast.  It needs the watcher to lock q.mu (queue.go:45), or the
\* Broadcast could fall between the test of ctx.Err and cond.Wait.
CancelWillWake == \A c \in Waiting : ctxDone[c] => watcher[c]

\* Nobody sleeps on a closed queue, where no Signal will ever come.
ClosedWakesAll == closed => Waiting = {}

\* What a consumer that is about to sleep, or sleeps, has established.
SleepersWatched ==
    \A c \in Consumers :
        /\ cpc[c] \in {"checked", "waiting"} => watcher[c]
        /\ cpc[c] = "checked" => items = << >> /\ ~closed
        /\ cpc[c] = "woken" /\ ~ctxDone[c] => watcher[c]

Fifo == INSTANCE FifoChannel WITH
            accepted <- sent, delivered <- got, shut <- closed

\* The queue implements FifoChannel (queue.go:11 "FIFO blocking queue").
ImplementsFifo == Fifo!Spec

\* Every accepted item is taken, unless the queue is closed or every
\* consumer has stopped.
AcceptedIsTaken ==
    \A n \in 1 .. (Cardinality(Producers) * MaxPuts) :
        Len(sent) >= n ~> \/ Len(got) >= n
                          \/ closed
                          \/ \A c \in Consumers : cpc[c] = "stopped"

\* A cancelled consumer returns from Dequeue: it does not sleep for ever.
CancelledStops ==
    \A c \in Consumers : ctxDone[c] ~> cpc[c] = "stopped"
=============================================================================
