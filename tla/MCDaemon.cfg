CONSTANTS
    ann = ann
    bob = bob
    cyd = cyd
    repo1 = repo1
    repo2 = repo2
    Clients = {ann, bob, cyd}
    Repos = {repo1, repo2}
    RepoOf <- MCRepoOf
    Lines = {1}
    MaxSessions = 3
    MaxRestarts = 1
SPECIFICATION Spec
INVARIANTS
    RegistryAgrees
    FirstLifeStaysInRepo
    CachedIdIsRegistered
