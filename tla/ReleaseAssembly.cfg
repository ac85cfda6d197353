\* Two assemblers and two targets; two archives are built while they run.
CONSTANTS
    Assemblers = {a1, a2}
    t1 = t1
    t2 = t2
    Order <- TwoTargets
    CoreName = core
    Tree = Tree
    Absent = Absent
    MaxBuilds = 2
SPECIFICATION AssemblySpec
SYMMETRY Symmetry
INVARIANTS
    OutputWhole
    EndsCleanly
PROPERTIES
    NeverClobbers
CHECK_DEADLOCK FALSE
