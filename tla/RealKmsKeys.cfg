\* Two labels, a key for each and one for a lost answer, one an earlier run
\* left; two things go wrong, and a cleanup may be run again.  It stops when all
\* of that is over.
CONSTANTS
    Labels = {l1, l2}
    Keys = {k1, k2, k3, s1}
    Stray = {s1}
    ForeignKey = f
    Limit = 2
    MaxTrouble = 2
    MaxCleanups = 2
    Missing = Missing
    OwnerOnly = OwnerOnly
    CorruptFile = CorruptFile

SPECIFICATION KeysSpec
SYMMETRY Symmetry

PROPERTIES
    TouchesOnlyItsOwn
    NothingLeftBilling
    SuccessLeavesNothing

CHECK_DEADLOCK FALSE
