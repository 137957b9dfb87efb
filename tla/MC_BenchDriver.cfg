\* run_all_parallel's four jobs, one per behaviour: the dictionary driver with two
\* producers, total 6, BATCH 4, one channel slot; failing commits and flush.
CONSTANTS
    t1 = t1
    t2 = t2
    NoAddr = NoAddr
    Threads <- MCThreads
    Total = 6
    BATCH = 4
    Cap = 1
    StoreErrors = TRUE
    Jobs = {"plain", "index", "range", "dictionary"}

SPECIFICATION Spec
INVARIANT TypeOK
INVARIANT ExactlyOnce
INVARIANT FreshAddressBound
PROPERTY Terminates
