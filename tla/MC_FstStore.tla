---------------------------- MODULE MC_FstStore ----------------------------
(* The FST Store's layouts over three keys and two values, for TLC.        *)
EXTENDS FstStore, TLC

CONSTANTS k1, k2, k3, v1, v2

MCKeys == {k1, k2, k3}
MCVals == {v1, v2}

MCSymmetry == Permutations(MCKeys) \cup Permutations(MCVals)
=============================================================================
