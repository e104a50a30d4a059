--------------------------- MODULE MCUnifiedDiff ---------------------------
EXTENDS UnifiedDiff, TLC
=============================================================================
