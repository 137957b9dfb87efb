\* Every insert seals the memtable, so flushes race the compactor's merge;
\* two values, no symmetry (the liveness property is checked too).
\* The segment files' inputs: bytes of 2 values, a 2-byte length field
\* (u32::MAX = 3), 3-bit offsets (limit 8), so values too large for the
\* length field and files past the offset range are both enumerated.
CONSTANTS
    c1 = c1
    k1 = k1
    k2 = k2
    v1 = v1
    v2 = v2
    NoVal = NoVal
    NoFile = NoFile
    Cols <- MCCols
    Keys <- MCKeys
    Vals <- MCVals
    SegmentSize = 1
    MergeThreshold = 4
    SegIdBound = 6
    ByteBase = 2
    LenDigits = 2
    OffBits = 3
    RecKeys = {1, 2, 3}
    MaxValLen = 4
    MergeValLen = 1

SPECIFICATION Spec
INVARIANT TypeOK
INVARIANT NoKeyLost
INVARIANT FilesMatchSegments
INVARIANT DurableNewestWins
INVARIANT FlushReadBack
INVARIANT MergeNewestWins
PROPERTY ReopenReadsNewest
PROPERTY DropJoins
PROPERTY MergingClearedOrDead
CHECK_DEADLOCK FALSE
