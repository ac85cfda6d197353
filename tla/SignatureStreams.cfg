\* Two contexts, an RSA and an EC key: streams, copies and references.
CONSTANTS
    Keys = {rsa, ec}
    Family <- MCFamily
    KeyFips <- MCKeyFips
    Ctxs = {c1, c2}
    ParamSets <- StreamParamSets
    Chunks = {"a"}
    Digests <- NoDigests
    MdNames <- StreamMdNames
    MaxChunks = 2
    MaxMessage = 2
    MaxContext = 1
    None = None
    rsa = rsa
    ec = ec
    ed = ed
    mldsa = mldsa

SPECIFICATION Spec
SYMMETRY Symmetry

INVARIANTS
    RefsExact
    BilledSignatureDelivered

PROPERTIES
    OnlySigningConsumes
