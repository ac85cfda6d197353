\* Two loaders, three keys and three holders, an alias that is repointed from an
\* EC key to an RSA key or back.
CONSTANTS
    Keys = {k1, k2, k3}
    Loaders = {l1, l2}
    PKeys = {p1, p2, p3}
    m1 = m1
    m2 = m2
    Materials = {m1, m2}
    SpecOf <- EcAndRsa
    MaxRequests = 2
    None = None

SPECIFICATION Spec
SYMMETRY Symmetry

INVARIANTS
    RefsExact
    PublishedComplete
    MatchIsSameKey

PROPERTIES
    PublishedImmutable
