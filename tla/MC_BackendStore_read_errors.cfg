\* redb, RocksDB and libmdbx, Dictionary layout: failed reads inside redb's
\* commit and iterator errors in get_keys_for_value.  Each backend alone
\* violates ReadsComplete: redb with IterErrors = FALSE through its commit
\* (the read error of value_to_birth_key is taken for "absent"), and each of
\* the three with IterErrors = TRUE through the scan that stops at the error
\* and returns Ok.
CONSTANTS
    k1 = k1
    k2 = k2
    k3 = k3
    v1 = v1
    v2 = v2
    NoVal = NoVal
    NoKey = NoKey
    Keys <- MCKeys2
    Vals <- MCVals
    Layout = "Dictionary"
    Backends = {"Redb", "RocksDB", "Libmdbx"}
    MaxBatch = 2
    MaxCommits = 3
    MaxAttempts = 3
    WriteErrors = FALSE
    ReadErrors = TRUE
    IterErrors = TRUE

SPECIFICATION Spec
INVARIANT ReadsComplete
CHECK_DEADLOCK FALSE
