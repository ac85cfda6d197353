\* Malformed parameters and exhausted streams.
CONSTANTS
    Keys = {rsa}
    Family <- MCFamily
    KeyFips <- MCKeyFips
    Ctxs = {c1}
    ParamSets <- DigestParamSets
    Chunks = {"a"}
    Digests <- MCDigests
    MdNames <- DigestMdNames
    MaxChunks = 2
    MaxMessage = 2
    MaxContext = 1
    None = None
    rsa = rsa
    ec = ec
    ed = ed
    mldsa = mldsa

SPECIFICATION Spec

INVARIANTS
    EveryRefusalRaised
