\* The compactor thread panics in merge_segments (segment.rs, the unwrap of
\* File::open on a .val deleted by multi_way_merge) and merging stays set.
CONSTANTS
    c1 = c1
    k1 = k1
    k2 = k2
    v1 = v1
    v2 = v2
    NoVal = NoVal
    NoFile = NoFile
    Cols <- MCCols
    Keys <- MCKeys
    Vals <- MCVals
    SegmentSize = 1
    MergeThreshold = 4
    SegIdBound = 6

SPECIFICATION Spec
PROPERTY MergingCleared
CHECK_DEADLOCK FALSE
