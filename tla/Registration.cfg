\* Three isolates, whatever the process's default query.
CONSTANTS
    Isolates = {i1, i2, i3}
    Policies <- AllPolicies
    None = None

SPECIFICATION Spec
SYMMETRY Symmetry

INVARIANTS
    GuardBeforeProvider
    PolicyPreserved
    OneOutcome

CHECK_DEADLOCK FALSE
