\* fjall, the FST engine and parity_bench's parity-db store, Range layout: failed commits, each
\* retried by the caller, and iterator errors in get_keys_for_value.
CONSTANTS
    k1 = k1
    k2 = k2
    k3 = k3
    v1 = v1
    v2 = v2
    NoVal = NoVal
    NoKey = NoKey
    Keys <- MCKeys2
    Vals <- MCVals
    Layout = "Range"
    Backends = {"Fjall", "Fst", "ParityBench"}
    MaxBatch = 2
    MaxCommits = 3
    MaxAttempts = 4
    WriteErrors = TRUE
    ReadErrors = FALSE
    IterErrors = TRUE

SPECIFICATION Spec
INVARIANT RetryRepairs
CHECK_DEADLOCK FALSE
