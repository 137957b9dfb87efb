\* Dictionary layout: a birth key rebound to a new value.
CONSTANTS
    k1 = k1
    k2 = k2
    k3 = k3
    v1 = v1
    v2 = v2
    NoVal = NoVal
    NoKey = NoKey
    Keys <- MCKeys
    Vals <- MCVals
    Layouts = {"Dictionary"}
    MaxBatch = 2
    MaxCommits = 3

SPECIFICATION Spec
SYMMETRY MCSymmetry
INVARIANT NewerWins
CHECK_DEADLOCK FALSE
