\* RocksDB, redb, libmdbx and parity-db, Dictionary layout; any engine call of a commit may fail.
CONSTANTS
    k1 = k1
    k2 = k2
    k3 = k3
    v1 = v1
    v2 = v2
    NoVal = NoVal
    NoKey = NoKey
    Keys <- MCKeys2
    Vals <- MCVals
    Layout = "Dictionary"
    Backends = {"RocksDB", "Redb", "Libmdbx", "Parity"}
    MaxBatch = 2
    MaxCommits = 3
    MaxAttempts = 4
    WriteErrors = TRUE
    ReadErrors = FALSE
    IterErrors = FALSE

SPECIFICATION Spec
INVARIANT TypeOK
PROPERTY LayoutSpec
CHECK_DEADLOCK FALSE
