----------------------------- MODULE MCDaemon -----------------------------
EXTENDS Daemon

CONSTANTS ann, bob, cyd, repo1, repo2

\* Two clients of one repository, one client of another.
MCRepoOf == [c \in Clients |-> IF c = cyd THEN repo2 ELSE repo1]
=============================================================================
