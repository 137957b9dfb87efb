\* Range and Dictionary layouts: commits of up to two entries, keys may be rebound;
\* and the sizing policy, on a 6-bit word with MIN_SEGMENT_ROWS 8 and TARGET_MAX_SEGMENTS 4;
\* and the bench codecs on 2-valued bytes: Key16 and u64 of 2 bytes, TxHash of 3,
\* addresses of up to 2 bytes (so one address can extend another).
CONSTANTS
    k1 = k1
    k2 = k2
    k3 = k3
    v1 = v1
    v2 = v2
    NoVal = NoVal
    NoKey = NoKey
    Keys <- MCKeys
    Vals <- MCVals
    Layouts = {"Range", "Dictionary"}
    MaxBatch = 2
    MaxCommits = 3
    MinSegmentRows = 8
    TargetMaxSegments = 4
    Width = 6
    CodecBase = 2
    KeyLen = 2
    WordLen = 2
    TxLen = 3
    AddrMaxLen = 2

SPECIFICATION MCSpec
SYMMETRY MCSymmetry
INVARIANT TypeOK
INVARIANT KeysForValueComplete
INVARIANT SizingMatchesSpec
INVARIANT CodecsExact
INVARIANT RangeKeysSound
CHECK_DEADLOCK FALSE
