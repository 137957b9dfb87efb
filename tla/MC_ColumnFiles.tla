--------------------------- MODULE MC_ColumnFiles ---------------------------
(***************************************************************************)
(* The column of MC_FstColumn together with the byte layer of its segment *)
(* files (SegmentFile).  The file operators are pure, so they are checked *)
(* over every bounded input once, in the column's initial state, instead  *)
(* of multiplying the column's states by their inputs.                    *)
(***************************************************************************)
EXTENDS MC_FstColumn, SegmentFile

\* Every non-empty memtable of at most MaxValLen-byte values, flushed by
\* Column::flush, fails exactly when a value or the file outgrows its
\* field, and otherwise reads back through the FST offsets and
\* read_value_from_path (SegmentFile!FlushReadsBack).
FlushReadBack == Init => \A mt \in Tables(MaxValLen) : FlushReadsBack(mt)

\* merge_segments over any two flushed segments, in either list order,
\* writes the files a flush of the newest value of each key writes
\* (SegmentFile!MergeKeepsNewest).
MergeNewestWins == Init => \A ins \in MergeInputs : MergeKeepsNewest(ins)
=============================================================================
