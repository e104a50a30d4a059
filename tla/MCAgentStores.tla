--------------------------- MODULE MCAgentStores ---------------------------
EXTENDS AgentStores
=============================================================================
