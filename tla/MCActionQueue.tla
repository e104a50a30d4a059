--------------------------- MODULE MCActionQueue ---------------------------
EXTENDS ActionQueue
=============================================================================
