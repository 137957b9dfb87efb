\* Range layout: a rebound key and the value||key index.
CONSTANTS
    k1 = k1
    k2 = k2
    k3 = k3
    v1 = v1
    v2 = v2
    NoVal = NoVal
    NoKey = NoKey
    Keys <- MCKeys
    Vals <- MCVals
    Layouts = {"Range"}
    MaxBatch = 2
    MaxCommits = 3

SPECIFICATION Spec
SYMMETRY MCSymmetry
INVARIANT KeysForValueExact
CHECK_DEADLOCK FALSE
