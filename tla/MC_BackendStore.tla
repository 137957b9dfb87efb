-------------------------- MODULE MC_BackendStore --------------------------
(* The backends' layout stores over small sets of keys and values.         *)
EXTENDS BackendStore, TLC

CONSTANTS k1, k2, k3, v1, v2

MCKeys2 == {k1, k2}
MCKeys3 == {k1, k2, k3}
MCVals == {v1, v2}
=============================================================================
