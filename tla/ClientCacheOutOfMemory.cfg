\* One thread is enough once an allocation may fail between push_front and
\* emplace.
CONSTANTS
    Threads = {t1}
    Keys = {k1, k2, k3}
    Clients = {c1, c2, c3, c4}
    MaxClients = 2
    MaxNodes = 4
    NoKey = NoKey
    NoClient = NoClient

SPECIFICATION MemorySpec

INVARIANTS
    CacheBounded
