CONSTANTS
    ann = ann
    bob = bob
    cyd = cyd
    repo1 = repo1
    repo2 = repo2
    Clients = {ann, cyd}
    Repos = {repo1, repo2}
    RepoOf <- MCRepoOf
    Lines = {1}
    MaxSessions = 2
    MaxRestarts = 1
SPECIFICATION Spec
INVARIANT
    ActionStaysInRepo
