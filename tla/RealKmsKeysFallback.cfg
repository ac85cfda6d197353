\* As RealKmsKeys.cfg, for one property.
CONSTANTS
    Labels = {l1, l2}
    Keys = {k1, k2, k3, s1}
    Stray = {s1}
    ForeignKey = f
    Limit = 2
    MaxTrouble = 2
    MaxCleanups = 1
    Missing = Missing
    OwnerOnly = OwnerOnly
    CorruptFile = CorruptFile

SPECIFICATION KeysSpec
SYMMETRY Symmetry

PROPERTIES
    EveryOwnedKeySwept

CHECK_DEADLOCK FALSE
