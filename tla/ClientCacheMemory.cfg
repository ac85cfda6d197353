\* Two threads, three keys and room for two clients, as in ClientCache.cfg, with
\* up to four nodes in the list when an allocation fails: stale nodes reach the
\* back of a full cache and hide an entry from the eviction.
CONSTANTS
    Threads = {t1, t2}
    Keys = {k1, k2, k3}
    Clients = {c1, c2, c3, c4, c5}
    MaxClients = 2
    MaxNodes = 4
    NoKey = NoKey
    NoClient = NoClient

SPECIFICATION MemorySpec

INVARIANTS
    RightClient
    OwnersExact
    EntriesListed

SYMMETRY ThreadsAndClients
