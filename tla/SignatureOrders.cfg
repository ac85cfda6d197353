\* One context of a key of each family: every order of parameters, data and
\* signatures.
CONSTANTS
    Keys = {rsa, ed, mldsa}
    Family <- MCFamily
    KeyFips <- MCKeyFips
    Ctxs = {c1}
    ParamSets <- OrderParamSets
    Chunks = {"a"}
    Digests <- MCDigests
    MdNames <- DigestMdNames
    MaxChunks = 2
    MaxMessage = 1
    MaxContext = 1
    None = None
    rsa = rsa
    ec = ec
    ed = ed
    mldsa = mldsa

SPECIFICATION Spec

INVARIANTS
    SignedAsAsked
    AcceptedByKms
    FipsThroughout
    VerifiedAsAsked
