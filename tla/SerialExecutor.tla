--------------------------- MODULE SerialExecutor ---------------------------
(***************************************************************************)
(* What a session promises the clients that submit actions, without        *)
(* queues, goroutines, terminals or events: "The executor processes one    *)
(* action at a time" (planning_docs/krellinv0architecture.md:390).  An     *)
(* action is taken when none is at work, in order of acceptance, and stays *)
(* at work until it is reported finished; none is skipped, repeated or     *)
(* given up for the next.                                                  *)
(***************************************************************************)
EXTENDS Naturals, Sequences

CONSTANT Actions

VARIABLES
    accepted,    \* every action Submit returned nil for, in order
    atWork,      \* the action under way: none yet, or one
    finished     \* every action reported finished, in order

serialVars == <<accepted, atWork, finished>>

Init == accepted = << >> /\ atWork = {} /\ finished = << >>

Accept(a) ==
    /\ accepted' = Append(accepted, a)
    /\ UNCHANGED <<atWork, finished>>

Take ==
    /\ atWork = {} /\ Len(finished) < Len(accepted)
    /\ atWork' = {accepted[Len(finished) + 1]}
    /\ UNCHANGED <<accepted, finished>>

Finish(a) ==
    /\ atWork = {a}
    /\ atWork' = {}
    /\ finished' = Append(finished, a)
    /\ UNCHANGED accepted

Next == Take \/ \E a \in Actions : Accept(a) \/ Finish(a)

Spec == Init /\ [][Next]_serialVars
=============================================================================
