\* Inserts seal memtables while a background merge runs, and the synchronous
\* multi_way_merge may fail with an I/O error; checks newer-wins.  Two
\* traces violate it: a multi_way_merge failing after mem::take (the one TLC
\* reports, 3 steps), and, with SPECIFICATION Spec (no I/O errors), the
\* merged segment that finish_merge appends after a segment sealed during
\* the merge (8 steps).
CONSTANTS
    c1 = c1
    k1 = k1
    k2 = k2
    v1 = v1
    v2 = v2
    NoVal = NoVal
    NoFile = NoFile
    Cols <- MCCols
    Keys <- MCKeys
    Vals <- MCVals
    SegmentSize = 1
    MergeThreshold = 4
    SegIdBound = 8

SPECIFICATION SpecIO
SYMMETRY MCSymmetry
CHECK_DEADLOCK FALSE
INVARIANT NewerWins
