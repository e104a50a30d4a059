----------------------------- MODULE MCRouter -----------------------------
EXTENDS Router
=============================================================================
