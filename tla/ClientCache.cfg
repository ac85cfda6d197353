\* Two threads, three keys and room for two clients: evictions under use, lost
\* publication races and address reuse all happen.  No symmetry: the refinement
\* is a liveness check.
CONSTANTS
    Threads = {t1, t2}
    Keys = {k1, k2, k3}
    Clients = {c1, c2, c3, c4}
    MaxClients = 2
    NoKey = NoKey
    NoClient = NoClient

SPECIFICATION LruSpec

INVARIANTS
    CacheBounded
    RightClient
    OwnersExact
    LeastRecentlyUsed

PROPERTIES
    OneSharedClient
    DestroyedUnlocked
    ImplementsService
