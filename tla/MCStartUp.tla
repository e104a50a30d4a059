----------------------------- MODULE MCStartUp -----------------------------
EXTENDS StartUp
=============================================================================
