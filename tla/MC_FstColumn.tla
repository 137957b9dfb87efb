--------------------------- MODULE MC_FstColumn ---------------------------
(* One column of the FST engine with its compactor, for TLC.               *)
EXTENDS FstColumn, TLC

CONSTANTS c1, k1, k2, v1, v2

MCCols == {c1}
MCKeys == {k1, k2}
MCVals == {v1, v2}
\* One value is enough where only presence of keys and progress matter.
MCOneVal == {v1}

\* Keys and values are interchangeable model values (safety runs only).
MCSymmetry == Permutations(MCKeys) \cup Permutations(MCVals)
=============================================================================
