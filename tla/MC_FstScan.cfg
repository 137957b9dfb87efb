\* Keys are the byte strings of length 1 and 2 over {0, 0xFF}; two rows
\* seal a segment and the compactor merges at two segments.
CONSTANTS
    ByteMax = 1
    MaxLen = 2
    V = V
    Col = Col
    NoVal = NoVal
    NoFile = NoFile
    Cols <- ScanCols
    Keys <- ColKeys
    Vals <- ScanVals
    SegmentSize = 2
    MergeThreshold = 2
    SegIdBound = 3

SPECIFICATION Spec
INVARIANT UpperBoundExact
INVARIANT PrefixScanExact
CHECK_DEADLOCK FALSE
