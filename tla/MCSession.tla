----------------------------- MODULE MCSession -----------------------------
EXTENDS Session, TLC

Symmetry ==
    Permutations(Starters) \union Permutations(Subscribers)
        \union Permutations(RunCommands) \union Permutations(Plain)
=============================================================================
