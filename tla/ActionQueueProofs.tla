------------------------- MODULE ActionQueueProofs -------------------------
(***************************************************************************)
(* Proofs about ActionQueue, for any set of producers, any finite set of   *)
(* consumers and any number of calls: the safety invariants of the queue   *)
(* and that it implements FifoChannel.                                     *)
(***************************************************************************)
EXTENDS ActionQueue, FiniteSetTheorems, SequenceTheorems, TLAPS

(***************************************************************************)
(* Facts about the operators the steps are built from.                     *)
(***************************************************************************)

\* Any consumer Signal wakes was waiting, and everybody else stays put.
LEMMA SignalledFacts ==
  ASSUME cpc \in [Consumers -> ConsumerStates], NEW next \in Signalled
  PROVE  /\ next \in [Consumers -> ConsumerStates]
         /\ \A c \in Consumers :
               next[c] = cpc[c] \/ (cpc[c] = "waiting" /\ next[c] = "woken")
BY DEF Signalled, Waiting, ConsumerStates

\* After a Broadcast nobody waits, and everybody else stays put.
LEMMA BroadcastedFacts ==
  ASSUME cpc \in [Consumers -> ConsumerStates]
  PROVE  /\ Broadcasted \in [Consumers -> ConsumerStates]
         /\ \A c \in Consumers :
               /\ Broadcasted[c] # "waiting"
               /\ Broadcasted[c] = cpc[c]
                     \/ (cpc[c] = "waiting" /\ Broadcasted[c] = "woken")
BY DEF Broadcasted, Waiting, ConsumerStates

\* A set of consumers is finite, so that Cardinality counts it.
LEMMA WokenFinite == IsFiniteSet(Woken) /\ Cardinality(Woken) \in Nat
<1>1. Woken \in SUBSET Consumers
  BY DEF Woken
<1>2. IsFiniteSet(Woken)
  BY <1>1, ConsumersFinite, FS_Subset
<1>. QED
  BY <1>2, FS_CardinalityType

-----------------------------------------------------------------------------
(***************************************************************************)
(* Type correctness.                                                       *)
(***************************************************************************)
LEMMA TypeOKInit == Init => TypeOK
<1>. SUFFICES ASSUME Init
              PROVE  TypeOK
  OBVIOUS
<1>1. items \in Seq(Messages) /\ sent \in Seq(Messages) /\ got \in Seq(Messages)
  BY EmptySeq DEF Init
<1>2. cpc \in [Consumers -> ConsumerStates]
  BY DEF Init, ConsumerStates
<1>3. puts \in [Producers -> 0 .. MaxPuts]
  BY MaxPutsNat DEF Init
<1>. QED
  BY <1>1, <1>2, <1>3 DEF Init, TypeOK

\* Leaving Dequeue keeps the types of what Return changes.
LEMMA ReturnTypes ==
  ASSUME TypeOK, NEW c \in Consumers, NEW pc \in ConsumerStates, Return(c, pc)
  PROVE  /\ cpc' \in [Consumers -> ConsumerStates]
         /\ watcher' \in [Consumers -> BOOLEAN]
         /\ late' \in [Consumers -> Nat]
<1>1. late[c] + 1 \in Nat
  BY DEF TypeOK
<1>. QED
  BY <1>1 DEF TypeOK, Return

LEMMA TypeOKStep == TypeOK /\ [Next]_vars => TypeOK'
<1>. SUFFICES ASSUME TypeOK, [Next]_vars
              PROVE  TypeOK'
  OBVIOUS
<1>. USE DEF TypeOK
<1>1. ASSUME NEW p \in Producers, EnqueueItem(p)
      PROVE  TypeOK'
  <2>1. puts[p] + 1 \in 1 .. MaxPuts
    BY <1>1, MaxPutsNat DEF EnqueueItem
  <2>2. <<p, puts[p] + 1>> \in Messages
    BY <2>1 DEF Messages
  <2>3. items' \in Seq(Messages) /\ sent' \in Seq(Messages)
    BY <1>1, <2>2 DEF EnqueueItem
  <2>4. cpc' \in [Consumers -> ConsumerStates]
    BY <1>1, SignalledFacts DEF EnqueueItem
  <2>5. puts' \in [Producers -> 0 .. MaxPuts]
    BY <1>1, <2>1, MaxPutsNat DEF EnqueueItem
  <2>. QED
    BY <1>1, <2>3, <2>4, <2>5 DEF EnqueueItem
<1>2. ASSUME NEW p \in Producers, EnqueueRefused(p)
      PROVE  TypeOK'
  <2>1. puts' \in [Producers -> 0 .. MaxPuts]
    BY <1>2, MaxPutsNat DEF EnqueueRefused
  <2>. QED
    BY <1>2, <2>1 DEF EnqueueRefused
<1>3. ASSUME NEW c \in Consumers, Take(c)
      PROVE  TypeOK'
  <2>1. Head(items) \in Messages /\ items' \in Seq(Messages)
    BY <1>3 DEF Take
  <2>2. got' \in Seq(Messages)
    BY <1>3, <2>1 DEF Take
  <2>. QED
    BY <1>3, <2>1, <2>2, ReturnTypes DEF Take, ConsumerStates
<1>4. ASSUME NEW c \in Consumers, FailClosed(c) \/ FailCancelled(c)
      PROVE  TypeOK'
  BY <1>4, ReturnTypes DEF FailClosed, FailCancelled, ConsumerStates
<1>5. ASSUME NEW c \in Consumers, FindNothing(c)
      PROVE  TypeOK'
  BY <1>5 DEF FindNothing, HasWatcher, ConsumerStates
<1>6. ASSUME NEW c \in Consumers, Wait(c) \/ Cancel(c)
      PROVE  TypeOK'
  BY <1>6 DEF Wait, Cancel, ConsumerStates
<1>7. ASSUME NEW c \in Consumers, WatcherFires(c)
      PROVE  TypeOK'
  BY <1>7, BroadcastedFacts DEF WatcherFires
<1>8. ASSUME NEW c \in Consumers, LateWatcherExits(c) \/ LateWatcherFires(c)
      PROVE  TypeOK'
  <2>1. late[c] - 1 \in Nat /\ late' = [late EXCEPT ![c] = late[c] - 1]
    BY <1>8 DEF LateWatcherExits, LateWatcherFires
  <2>2. late' \in [Consumers -> Nat]
    BY <2>1
  <2>. QED
    BY <1>8, <2>2, BroadcastedFacts DEF LateWatcherExits, LateWatcherFires
<1>9. CASE Close
  BY <1>9, BroadcastedFacts DEF Close
<1>10. CASE UNCHANGED vars
  BY <1>10 DEF vars
<1>. QED
  BY <1>1, <1>2, <1>3, <1>4, <1>5, <1>6, <1>7, <1>8, <1>9, <1>10 DEF Next, Dequeue

\* The variables keep their types, for every value of the constants.
THEOREM TypeCorrect == Spec => []TypeOK
BY TypeOKInit, TypeOKStep, PTL DEF Spec

-----------------------------------------------------------------------------
(***************************************************************************)
(* Exactly once, in order.  ConservesItems is inductive by itself: only    *)
(* EnqueueItem and Take touch the three sequences.                         *)
(***************************************************************************)
LEMMA ConservesItemsStep ==
  TypeOK /\ ConservesItems /\ [Next]_vars => ConservesItems'
<1>. SUFFICES ASSUME TypeOK, ConservesItems, [Next]_vars
              PROVE  ConservesItems'
  OBVIOUS
<1>. USE DEF ConservesItems
<1>1. ASSUME NEW p \in Producers, EnqueueItem(p)
      PROVE  ConservesItems'
  <2>. DEFINE m == <<p, puts[p] + 1>>
  <2>1. m \in Messages
    BY <1>1, MaxPutsNat DEF EnqueueItem, Messages, TypeOK
  <2>2. sent' = Append(sent, m) /\ items' = Append(items, m) /\ got' = got
    BY <1>1 DEF EnqueueItem
  <2>. HIDE DEF m
  <2>3. Append(got \o items, m) = (got \o items) \o <<m>>
    BY <2>1, ConcatProperties, AppendIsConcat DEF TypeOK
  <2>4. (got \o items) \o <<m>> = got \o (items \o <<m>>)
    BY <2>1, ConcatAssociative DEF TypeOK
  <2>5. items \o <<m>> = Append(items, m)
    BY <2>1, AppendIsConcat DEF TypeOK
  <2>. QED
    BY <2>2, <2>3, <2>4, <2>5
<1>2. ASSUME NEW c \in Consumers, Take(c)
      PROVE  ConservesItems'
  <2>. DEFINE h == Head(items)
              t == Tail(items)
  <2>1. items # << >> /\ got' = Append(got, h) /\ items' = t /\ sent' = sent
    BY <1>2 DEF Take
  <2>2. h \in Messages /\ t \in Seq(Messages)
    BY <2>1 DEF TypeOK
  <2>3. items = <<h>> \o t
    BY <2>1, <2>2 DEF TypeOK
  <2>. HIDE DEF h, t
  <2>4. Append(got, h) \o t = (got \o <<h>>) \o t
    BY <2>2, AppendIsConcat DEF TypeOK
  <2>5. (got \o <<h>>) \o t = got \o (<<h>> \o t)
    BY <2>2, ConcatAssociative DEF TypeOK
  <2>. QED
    BY <2>1, <2>3, <2>4, <2>5
<1>3. CASE UNCHANGED <<items, sent, got>>
  BY <1>3
<1>4. ASSUME NEW c \in Consumers,
             \/ FailClosed(c) \/ FailCancelled(c) \/ FindNothing(c)
             \/ Wait(c) \/ Cancel(c)
             \/ WatcherFires(c) \/ LateWatcherExits(c) \/ LateWatcherFires(c)
      PROVE  UNCHANGED <<items, sent, got>>
  BY <1>4 DEF FailClosed, FailCancelled, FindNothing, Wait, Cancel, WatcherFires,
              LateWatcherExits, LateWatcherFires
<1>5. ASSUME (\E p \in Producers : EnqueueRefused(p)) \/ Close \/ UNCHANGED vars
      PROVE  UNCHANGED <<items, sent, got>>
  BY <1>5 DEF EnqueueRefused, Close, vars
<1>. QED
  BY <1>1, <1>2, <1>3, <1>4, <1>5 DEF Next, Dequeue

\* What was handed out, followed by what is queued, is what was accepted.
THEOREM NothingLostOrReordered == Spec => []ConservesItems
<1>1. Init => ConservesItems
  BY DEF Init, ConservesItems
<1>. QED
  BY <1>1, ConservesItemsStep, TypeCorrect, PTL DEF Spec

-----------------------------------------------------------------------------
(***************************************************************************)
(* Who sleeps, and who will wake them.  What the code keeps true about one *)
(* consumer (SleepersWatched) is inductive; the properties about closing   *)
(* and cancelling rest on it.                                              *)
(***************************************************************************)
LEMMA SleepersWatchedStep ==
  TypeOK /\ SleepersWatched /\ [Next]_vars => SleepersWatched'
<1>. SUFFICES ASSUME TypeOK, SleepersWatched, [Next]_vars
              PROVE  SleepersWatched'
  OBVIOUS
<1>. USE DEF SleepersWatched
<1>1. ASSUME NEW p \in Producers, EnqueueItem(p)
      PROVE  SleepersWatched'
  <2>1. \A c \in Consumers :
           cpc'[c] = cpc[c] \/ (cpc[c] = "waiting" /\ cpc'[c] = "woken")
    BY <1>1, SignalledFacts DEF EnqueueItem, TypeOK
  <2>. QED
    BY <1>1, <2>1 DEF EnqueueItem, MuFree
<1>2. ASSUME NEW p \in Producers, EnqueueRefused(p)
      PROVE  SleepersWatched'
  BY <1>2 DEF EnqueueRefused
<1>3. ASSUME NEW c \in Consumers, Take(c) \/ FailClosed(c) \/ FailCancelled(c)
      PROVE  SleepersWatched'
  <2>1. \A d \in Consumers : cpc[d] # "checked"
    BY <1>3 DEF Take, FailClosed, FailCancelled, Turn, MuFree
  <2>2. cpc' \in {[cpc EXCEPT ![c] = pc] : pc \in {"away", "stopped"}}
    BY <1>3 DEF Take, FailClosed, FailCancelled, Return
  <2>3. watcher' = [watcher EXCEPT ![c] = FALSE] /\ ctxDone' = ctxDone
    BY <1>3 DEF Take, FailClosed, FailCancelled, Return
  <2>. QED
    BY <2>1, <2>2, <2>3 DEF TypeOK
<1>4. ASSUME NEW c \in Consumers, FindNothing(c)
      PROVE  SleepersWatched'
  BY <1>4 DEF FindNothing, Turn, MuFree, HasWatcher, TypeOK
<1>5. ASSUME NEW c \in Consumers, Wait(c)
      PROVE  SleepersWatched'
  BY <1>5 DEF Wait, TypeOK
<1>6. ASSUME NEW c \in Consumers, Cancel(c)
      PROVE  SleepersWatched'
  BY <1>6 DEF Cancel, TypeOK
<1>7. ASSUME NEW c \in Consumers, WatcherFires(c)
      PROVE  SleepersWatched'
  <2>1. \A d \in Consumers : cpc'[d] \notin {"checked", "waiting"}
    BY <1>7, BroadcastedFacts DEF WatcherFires, MuFree, TypeOK
  <2>2. \A d \in Consumers : cpc'[d] = "woken" => cpc[d] \in {"woken", "waiting"}
    BY <1>7, BroadcastedFacts DEF WatcherFires, TypeOK
  <2>. QED
    BY <1>7, <2>1, <2>2 DEF WatcherFires, TypeOK
<1>8. ASSUME NEW c \in Consumers, LateWatcherExits(c)
      PROVE  SleepersWatched'
  BY <1>8 DEF LateWatcherExits
<1>9. ASSUME Close \/ \E c \in Consumers : LateWatcherFires(c)
      PROVE  SleepersWatched'
  <2>1. \A d \in Consumers :
           /\ cpc'[d] \notin {"checked", "waiting"}
           /\ cpc'[d] = "woken" => cpc[d] \in {"woken", "waiting"}
    BY <1>9, BroadcastedFacts DEF Close, LateWatcherFires, MuFree, TypeOK
  <2>. QED
    BY <1>9, <2>1 DEF Close, LateWatcherFires
<1>10. CASE UNCHANGED vars
  BY <1>10 DEF vars
<1>. QED
  BY <1>1, <1>2, <1>3, <1>4, <1>5, <1>6, <1>7, <1>8, <1>9, <1>10 DEF Next, Dequeue

\* What a consumer has established before it sleeps stays true.
THEOREM SleepersAreWatched == Spec => []SleepersWatched
<1>1. Init => SleepersWatched
  BY DEF Init, SleepersWatched
<1>. QED
  BY <1>1, SleepersWatchedStep, TypeCorrect, PTL DEF Spec

\* A cancelled consumer that sleeps has a watcher that is still to Broadcast.
THEOREM CancelledSleeperWillWake == Spec => []CancelWillWake
<1>1. SleepersWatched => CancelWillWake
  BY DEF SleepersWatched, CancelWillWake, Waiting
<1>. QED
  BY <1>1, SleepersAreWatched, PTL

\* A step that does not close the queue lets a consumer fall asleep only by
\* cond.Wait, and cond.Wait comes after the test of q.closed.
LEMMA ClosedWakesAllStep ==
  TypeOK /\ SleepersWatched /\ ClosedWakesAll /\ [Next]_vars => ClosedWakesAll'
<1>. SUFFICES ASSUME TypeOK, SleepersWatched, ClosedWakesAll, [Next]_vars,
                     closed', NEW c \in Consumers, cpc'[c] = "waiting"
              PROVE  FALSE
  BY DEF ClosedWakesAll, Waiting
<1>. USE DEF ClosedWakesAll, Waiting
<1>1. ASSUME NEW p \in Producers, EnqueueItem(p) \/ EnqueueRefused(p)
      PROVE  FALSE
  BY <1>1, SignalledFacts DEF EnqueueItem, EnqueueRefused, TypeOK
<1>2. ASSUME NEW d \in Consumers, Take(d) \/ FailClosed(d) \/ FailCancelled(d)
      PROVE  FALSE
  BY <1>2 DEF Take, FailClosed, FailCancelled, Return, TypeOK
<1>3. ASSUME NEW d \in Consumers, FindNothing(d)
      PROVE  FALSE
  BY <1>3 DEF FindNothing, TypeOK
<1>4. ASSUME NEW d \in Consumers, Wait(d)
      PROVE  FALSE
  BY <1>4 DEF Wait, SleepersWatched, TypeOK
<1>5. ASSUME NEW d \in Consumers, Cancel(d) \/ LateWatcherExits(d)
      PROVE  FALSE
  BY <1>5 DEF Cancel, LateWatcherExits
<1>6. ASSUME Close \/ \E d \in Consumers : WatcherFires(d) \/ LateWatcherFires(d)
      PROVE  FALSE
  BY <1>6, BroadcastedFacts DEF Close, WatcherFires, LateWatcherFires, TypeOK
<1>7. CASE UNCHANGED vars
  BY <1>7 DEF vars
<1>. QED
  BY <1>1, <1>2, <1>3, <1>4, <1>5, <1>6, <1>7 DEF Next, Dequeue

\* Nobody sleeps on a closed queue.
THEOREM ClosedQueueWakesAll == Spec => []ClosedWakesAll
<1>1. Init => ClosedWakesAll
  BY DEF Init, ClosedWakesAll
<1>. QED
  BY <1>1, ClosedWakesAllStep, TypeCorrect, SleepersAreWatched, PTL DEF Spec

-----------------------------------------------------------------------------
(***************************************************************************)
(* No lost wakeup.  Enqueue adds one item and, if somebody sleeps, one     *)
(* woken consumer; a woken consumer that stops being one takes an item, or *)
(* there is none; and a consumer falls asleep only when there is none.     *)
(***************************************************************************)
LEMMA NoLostWakeupStep ==
  TypeOK /\ SleepersWatched /\ ClosedWakesAll /\ NoLostWakeup /\ [Next]_vars
    => NoLostWakeup'
<1>. SUFFICES ASSUME TypeOK, SleepersWatched, ClosedWakesAll, NoLostWakeup,
                     [Next]_vars, Waiting' # {}
              PROVE  Len(items') <= Cardinality(Woken')
  BY DEF NoLostWakeup
<1>. USE WokenFinite
<1>l. Len(items) \in Nat
  BY LenProperties DEF TypeOK
<1>1. ASSUME NEW p \in Producers, EnqueueItem(p)
      PROVE  Len(items') <= Cardinality(Woken')
  <2>1. Waiting # {}
    BY <1>1, SignalledFacts DEF EnqueueItem, Waiting, TypeOK
  <2>2. PICK c \in Waiting : cpc' = [cpc EXCEPT ![c] = "woken"]
    BY <1>1, <2>1 DEF EnqueueItem, Signalled
  <2>3. Woken' = Woken \union {c} /\ c \notin Woken
    BY <2>2 DEF Waiting, Woken, TypeOK
  <2>4. Cardinality(Woken') = Cardinality(Woken) + 1
    BY <2>3, FS_AddElement
  <2>5. Len(items') = Len(items) + 1
    BY <1>1, MaxPutsNat DEF EnqueueItem, TypeOK, Messages
  <2>. QED
    BY <2>1, <2>4, <2>5, <1>l DEF NoLostWakeup
<1>2. ASSUME NEW c \in Consumers, Take(c)
      PROVE  Len(items') <= Cardinality(Woken')
  <2>1. Waiting' = Waiting /\ Woken' = Woken \ {c}
    BY <1>2 DEF Take, Turn, Return, Waiting, Woken, TypeOK
  <2>2. Cardinality(Woken') >= Cardinality(Woken) - 1
    BY <2>1, FS_RemoveElement
  <2>3. Len(items') = Len(items) - 1
    BY <1>2, HeadTailProperties DEF Take, TypeOK
  <2>4. Len(items) <= Cardinality(Woken)
    BY <2>1 DEF NoLostWakeup
  <2>5. Cardinality(Woken') \in Nat
    BY <2>1, FS_RemoveElement, FS_CardinalityType
  <2>. QED
    BY <2>2, <2>3, <2>4, <2>5, <1>l
<1>3. ASSUME NEW c \in Consumers, FailClosed(c)
      PROVE  FALSE
  BY <1>3 DEF FailClosed, Turn, Return, ClosedWakesAll, Waiting, TypeOK
<1>4. ASSUME NEW c \in Consumers, FailCancelled(c) \/ FindNothing(c) \/ Wait(c)
      PROVE  Len(items') <= Cardinality(Woken')
  <2>1. items' = << >>
    BY <1>4 DEF FailCancelled, FindNothing, Wait, SleepersWatched
  <2>2. Woken' \in SUBSET Consumers
    BY DEF Woken
  <2>3. Cardinality(Woken') \in Nat
    BY <2>2, ConsumersFinite, FS_Subset, FS_CardinalityType
  <2>. QED
    BY <2>1, <2>3
<1>5. ASSUME UNCHANGED <<items, cpc>>
      PROVE  Len(items') <= Cardinality(Woken')
  BY <1>5 DEF NoLostWakeup, Waiting, Woken
<1>6. ASSUME \/ \E p \in Producers : EnqueueRefused(p)
             \/ \E c \in Consumers : Cancel(c) \/ LateWatcherExits(c)
             \/ UNCHANGED vars
      PROVE  UNCHANGED <<items, cpc>>
  BY <1>6 DEF EnqueueRefused, Cancel, LateWatcherExits, vars
<1>7. ASSUME Close \/ \E c \in Consumers : WatcherFires(c) \/ LateWatcherFires(c)
      PROVE  FALSE
  BY <1>7, BroadcastedFacts DEF Close, WatcherFires, LateWatcherFires, Waiting, TypeOK
<1>. QED
  BY <1>1, <1>2, <1>3, <1>4, <1>5, <1>6, <1>7 DEF Next, Dequeue

\* While a consumer sleeps, every queued item has a woken consumer on its way.
THEOREM NoWakeupIsLost == Spec => []NoLostWakeup
<1>1. Init => NoLostWakeup
  BY DEF Init, NoLostWakeup, Waiting
<1>. QED
  BY <1>1, NoLostWakeupStep, TypeCorrect, SleepersAreWatched, ClosedQueueWakesAll, PTL
  DEF Spec

-----------------------------------------------------------------------------
(***************************************************************************)
(* The queue implements FifoChannel: Enqueue is Accept, a Dequeue that     *)
(* returns an item is Deliver, Close is Shut, and the rest is stuttering.  *)
(***************************************************************************)
LEMMA FifoStep ==
  TypeOK /\ ConservesItems /\ [Next]_vars => [Fifo!Next]_(Fifo!fifoVars)
<1>. SUFFICES ASSUME TypeOK, ConservesItems, [Next]_vars
              PROVE  [Fifo!Next]_(Fifo!fifoVars)
  OBVIOUS
<1>1. ASSUME NEW p \in Producers, EnqueueItem(p)
      PROVE  Fifo!Next
  <2>1. <<p, puts[p] + 1>> \in Messages
    BY <1>1, MaxPutsNat DEF EnqueueItem, Messages, TypeOK
  <2>2. Fifo!Accept(<<p, puts[p] + 1>>)
    BY <1>1 DEF EnqueueItem, Fifo!Accept
  <2>. QED
    BY <2>1, <2>2 DEF Fifo!Next
<1>2. ASSUME NEW c \in Consumers, Take(c)
      PROVE  Fifo!Next
  <2>1. items # << >> /\ got' = Append(got, Head(items)) /\ ~closed
        /\ UNCHANGED <<sent, closed>>
    BY <1>2 DEF Take
  <2>2. Len(items) \in Nat \ {0} /\ Len(got) \in Nat
    BY <2>1, EmptySeq, LenProperties DEF TypeOK
  <2>3. /\ Len(sent) = Len(got) + Len(items)
        /\ sent[Len(got) + 1] = items[1]
    BY <2>2, ConcatProperties DEF ConservesItems, TypeOK
  <2>4. Head(items) = items[1]
    BY <2>1 DEF TypeOK
  <2>5. Fifo!Deliver
    BY <2>1, <2>2, <2>3, <2>4 DEF Fifo!Deliver
  <2>. QED
    BY <2>5 DEF Fifo!Next
<1>3. ASSUME Close
      PROVE  Fifo!Next
  BY <1>3 DEF Close, Fifo!Next, Fifo!Shut
<1>4. ASSUME NEW c \in Consumers,
             \/ FailClosed(c) \/ FailCancelled(c) \/ FindNothing(c)
             \/ Wait(c) \/ Cancel(c)
             \/ WatcherFires(c) \/ LateWatcherExits(c) \/ LateWatcherFires(c)
      PROVE  UNCHANGED Fifo!fifoVars
  BY <1>4 DEF FailClosed, FailCancelled, FindNothing, Wait, Cancel, WatcherFires,
              LateWatcherExits, LateWatcherFires, Fifo!fifoVars
<1>5. ASSUME (\E p \in Producers : EnqueueRefused(p)) \/ UNCHANGED vars
      PROVE  UNCHANGED Fifo!fifoVars
  BY <1>5 DEF EnqueueRefused, vars, Fifo!fifoVars
<1>. QED
  BY <1>1, <1>2, <1>3, <1>4, <1>5 DEF Next, Dequeue

\* internal/queue implements the FIFO channel its users rely on.
THEOREM QueueImplementsFifo == Spec => ImplementsFifo
<1>1. Init => Fifo!Init
  BY DEF Init, Fifo!Init
<1>. QED
  BY <1>1, FifoStep, TypeCorrect, NothingLostOrReordered, PTL
  DEF Spec, ImplementsFifo, Fifo!Spec
=============================================================================
