\* Two isolates, two versions, one installation.
CONSTANTS
    Isolates = {i1, i2}
    Versions = {v1, v2}
    Partial = {p1}
    MaxInstalls = 1
    None = None

SPECIFICATION Spec
SYMMETRY Symmetry

INVARIANTS
    VerifiedBytes
    SharedFilesAgree

CHECK_DEADLOCK FALSE
