\* Three isolates; two calls fail and one isolate is terminated.
CONSTANTS
    Isolates = {i1, i2, i3}
    Failures = 2
    Deaths = 1
    None = None

SPECIFICATION FairSpec

INVARIANTS
    OneDirectory
    OneWholeFile

PROPERTIES
    RefusedForAReason
    EverybodyEnds
