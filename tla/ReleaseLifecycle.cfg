\* One target and the core package; two builds that may differ, two attestations,
\* and two polls of the registry before the deadline.
CONSTANTS
    Targets = {t1}
    Core = core
    Builds = {b1, b2}
    Corrupt = Corrupt
    None = None
    MaxAttests = 2
    MaxPolls = 2
SPECIFICATION Spec
INVARIANTS
    ReleasedExactly
PROPERTIES
    ImplementsService
    EveryAttemptEnds
    RerunsRecover
CHECK_DEADLOCK FALSE
