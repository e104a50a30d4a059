----------------------------- MODULE MCPatches -----------------------------
EXTENDS Patches, TLC

CONSTANTS f1, f2, x, dotx, y

\* "x" and "./x" are one file.
MCFileOf == x :> f1 @@ dotx :> f1 @@ y :> f2

Symmetry == Permutations({x, dotx}) \union Permutations(AgentPatches)
=============================================================================
