---------------------------- MODULE FifoChannel ----------------------------
(***************************************************************************)
(* What internal/queue promises its users, without locks, wait sets or     *)
(* goroutines: "Queue is a FIFO blocking queue" (queue.go:11).  What was   *)
(* accepted is handed out once, in order of acceptance, until the channel  *)
(* is closed; a closed channel neither accepts nor hands out anything,     *)
(* even if something is left in it.                                        *)
(***************************************************************************)
EXTENDS Naturals, Sequences

CONSTANT Messages

VARIABLES
    accepted,    \* every message Enqueue returned nil for, in order
    delivered,   \* every message a Dequeue returned, in order
    shut         \* Close was called

fifoVars == <<accepted, delivered, shut>>

Init ==
    /\ accepted = << >>
    /\ delivered = << >>
    /\ shut = FALSE

Accept(m) ==
    /\ ~shut
    /\ accepted' = Append(accepted, m)
    /\ UNCHANGED <<delivered, shut>>

Deliver ==
    /\ ~shut
    /\ Len(delivered) < Len(accepted)
    /\ delivered' = Append(delivered, accepted[Len(delivered) + 1])
    /\ UNCHANGED <<accepted, shut>>

Shut ==
    /\ shut' = TRUE
    /\ UNCHANGED <<accepted, delivered>>

Next ==
    \/ \E m \in Messages : Accept(m)
    \/ Deliver
    \/ Shut

Spec == Init /\ [][Next]_fifoVars
=============================================================================
