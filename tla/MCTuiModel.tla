---------------------------- MODULE MCTuiModel ----------------------------
EXTENDS TuiModel

\* Others delete an agent of the list.
MCOthersDo == {[type |-> "agents_delete", name |-> CHOOSE n \in Names : TRUE, enabled |-> TRUE]}
=============================================================================
