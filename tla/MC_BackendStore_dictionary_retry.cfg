\* fjall and the FST engine, Dictionary layout: failed commits, each retried by the caller.
\* Each backend alone violates RetryRepairs; with both, TLC reports the FST engine's trace.
CONSTANTS
    k1 = k1
    k2 = k2
    k3 = k3
    v1 = v1
    v2 = v2
    NoVal = NoVal
    NoKey = NoKey
    Keys <- MCKeys2
    Vals <- MCVals
    Layout = "Dictionary"
    Backends = {"Fjall", "Fst"}
    MaxBatch = 2
    MaxCommits = 3
    MaxAttempts = 4
    WriteErrors = TRUE
    ReadErrors = FALSE
    IterErrors = FALSE

SPECIFICATION Spec
INVARIANT RetryRepairs
CHECK_DEADLOCK FALSE
